----------------------------- MODULE LibraryFiles -----------------------------
(* The bytes of a media: how CtrEncryptWriter stores them in a library that has *)
(* a password (a nonce, then the file XORed with a key stream), and what         *)
(* library_file serves of them when a client asks for a range.  A stored byte is *)
(* right when the place in the key stream it was XORed with is its place in the  *)
(* file, and comes back when it is XORed with the same.                          *)
(*                                                                               *)
(* Unsigned subtractions wrap around, as they do in a release build.             *)
EXTENDS Integers

CONSTANTS
  Sizes,       \* of the files
  Bounds,      \* what a client writes for the first and for the last byte of a range
  Pieces,      \* sizes of what is written or read at once, or all there is
  Wrap,        \* 2 ^ the width of the unsigned integers
  Absent

CTR_NONCE_SIZE     == 16
CRYPTO_HEADER_SIZE == 16 + 4 + 4 + 32 + 256

Kinds  == {"plain", "password", "crypted"}
Ranges == [start : Bounds \cup {Absent}, end : Bounds \cup {Absent}]

VARIABLES
  file,      \* its size and its library's kind: encrypted by none, by the server, by clients
  pc,        \* "storing", "stored", "serving", "served" or "failed"
  header,    \* whether the nonce is written
  stored,    \* how many bytes of the file are (bytes_encrypted)
  cipher,    \* the place of the cipher in the key stream, of the writer then of the reader
  sound,     \* whether each byte met its own place
  asked,     \* the range the client asked for
  reply,     \* what library_file returned
  nonce,     \* how many bytes of the nonce were read through the reader
  sent       \* how many bytes were read from the stored file

vars == <<file, pc, header, stored, cipher, sound, asked, reply, nonce, sent>>

U64(n)        == n % Wrap
OrZero(b)     == IF b = Absent THEN 0 ELSE b
Piece(left)   == {n \in Pieces \cup {left} : 0 < n /\ n <= left}

\* A client's file is a header and its body; the thumb is left out.
StoredSize ==
  CASE file.kind = "plain"    -> file.size
    [] file.kind = "password" -> IF header THEN CTR_NONCE_SIZE + file.size ELSE 0
    [] file.kind = "crypted"  -> CRYPTO_HEADER_SIZE + file.size

Init ==
  /\ file \in [size : Sizes, kind : Kinds]
  /\ pc = "storing" /\ header = FALSE /\ stored = 0 /\ cipher = 0 /\ sound = TRUE
  /\ asked = Absent /\ reply = Absent /\ nonce = 0 /\ sent = 0

-----------------------------------------------------------------------------
(* Storing.                                                                    *)

\* With the first bytes of the file: nothing is written of an empty one.  A part of
\* the nonce is an error.
poll_write_header ==
  /\ pc = "storing" /\ file.kind = "password" /\ ~header /\ file.size > 0
  /\ \/ header' = TRUE /\ UNCHANGED pc
     \/ pc' = "failed" /\ UNCHANGED header
  /\ UNCHANGED <<file, stored, cipher, sound, asked, reply, nonce, sent>>

\* Mutant: the cipher stays where the encryption of the whole buffer left it.
poll_write_no_seek(len, n) ==
  /\ pc = "storing" /\ file.kind = "password" /\ header
  /\ stored' = stored + n
  /\ cipher' = cipher + len
  /\ sound' = (sound /\ (n > 0 => cipher = stored))
  /\ UNCHANGED <<file, pc, header, asked, reply, nonce, sent>>

\* The buffer is encrypted whole; the writer takes n bytes of it, none when it is
\* not ready, and the cipher goes back to what it took.
poll_write(len, n) ==
  /\ pc = "storing" /\ file.kind = "password" /\ header
  /\ stored' = stored + n
  /\ cipher' = IF n < len THEN stored' ELSE cipher + len
  /\ sound' = (sound /\ (n > 0 => cipher = stored))
  /\ UNCHANGED <<file, pc, header, asked, reply, nonce, sent>>

Store ==
  /\ pc = "storing"
  /\ file.kind = "password" => stored = file.size
  /\ pc' = "stored"
  /\ UNCHANGED <<file, header, stored, cipher, sound, asked, reply, nonce, sent>>

-----------------------------------------------------------------------------
(* Serving.                                                                    *)

\* PathProvider::get_file: the first byte and how many are sent of a file of `total`
\* bytes, the size and the range the reply states.
get_file(total, range) ==
  IF range = Absent
  THEN [from |-> 0, len |-> total, size |-> total, range |-> Absent]
  ELSE
  LET seeks == range.start # Absent /\ range.start < total
      from  == IF seeks THEN range.start ELSE 0
      left  == total - from
      takes == range.end # Absent /\ range.end <= left
      taken == U64(range.end - OrZero(range.start) + 1)
  IN  [from  |-> from,
       len   |-> IF takes /\ taken < left THEN taken ELSE left,
       size  |-> IF takes THEN taken ELSE left,
       range |-> [start |-> IF seeks THEN from ELSE Absent,
                  end   |-> IF takes THEN range.end
                            ELSE IF range.end = Absent THEN U64(total - 1) ELSE Absent,
                  size  |-> IF takes \/ range.end = Absent THEN total ELSE left]]

\* RangeResponse::header_value
First(range) == OrZero(range.start)
Last(range)  == IF range.end # Absent THEN range.end ELSE U64(range.size - 1)

\* What library_file asks the provider for.
Shifted(range) ==
  CASE file.kind = "crypted" -> [start |-> CRYPTO_HEADER_SIZE, end |-> Absent]
    [] file.kind = "password" /\ range # Absent ->
         [start |-> CTR_NONCE_SIZE + OrZero(range.start),
          end   |-> IF range.end = Absent THEN Absent ELSE range.end + CTR_NONCE_SIZE]
    [] OTHER -> range

\* A range of an encrypted file starts the cipher there; a whole one reads its
\* nonce first.
library_file(range) ==
  /\ pc = "stored"
  /\ pc' = "serving"
  /\ asked' = range
  /\ reply' = LET r == get_file(StoredSize, Shifted(range))
              IN  CASE file.kind = "crypted" -> [r EXCEPT !.size = file.size, !.range = Absent]
                    [] file.kind = "password" /\ range = Absent ->
                         [r EXCEPT !.size = @ - CTR_NONCE_SIZE]
                    [] OTHER -> r
  /\ nonce' = IF range # Absent /\ header THEN CTR_NONCE_SIZE ELSE 0
  /\ cipher' = IF range # Absent THEN OrZero(range.start) ELSE 0
  /\ UNCHANGED <<file, header, stored, sound, sent>>

\* The nonce comes in pieces of its own.
poll_read_nonce(n) ==
  /\ pc = "serving" /\ file.kind = "password" /\ nonce < CTR_NONCE_SIZE
  /\ n <= CTR_NONCE_SIZE - nonce
  /\ nonce' = nonce + n
  /\ sent' = sent + n
  /\ UNCHANGED <<file, pc, header, stored, cipher, sound, asked, reply>>

poll_read(n) ==
  /\ pc = "serving" /\ (file.kind = "password" => nonce = CTR_NONCE_SIZE)
  /\ sent' = sent + n
  /\ IF file.kind = "password"
     THEN /\ cipher' = cipher + n
          /\ sound' = (sound /\ CTR_NONCE_SIZE + cipher = reply.from + sent)
     ELSE UNCHANGED <<cipher, sound>>
  /\ UNCHANGED <<file, pc, header, stored, asked, reply, nonce>>

\* A file without a nonce is an error.
into_response ==
  /\ pc = "serving" /\ sent = reply.len
  /\ pc' = IF file.kind = "password" /\ nonce < CTR_NONCE_SIZE THEN "failed" ELSE "served"
  /\ UNCHANGED <<file, header, stored, cipher, sound, asked, reply, nonce, sent>>

Next ==
  \/ poll_write_header
  \/ \E len \in Piece(file.size - stored) : \E n \in {0} \cup Piece(len) : poll_write(len, n)
  \/ Store
  \/ \E range \in Ranges \cup {Absent} : library_file(range)
  \/ pc = "serving" /\ \E n \in Piece(reply.len - sent) : poll_read_nonce(n) \/ poll_read(n)
  \/ into_response

Spec == Init /\ [][Next]_vars

-----------------------------------------------------------------------------
\* What the server encrypted is served decrypted, from the byte the client asked
\* for, however it was cut on its way to the disk and back; but a range that
\* starts behind the end is answered with the nonce and the file, decrypted at the
\* wrong place.
ServedDecrypted ==
  pc = "served" /\ file.kind = "password" =>
    \/ /\ sound
       /\ asked # Absent => reply.from = CTR_NONCE_SIZE + OrZero(asked.start)
    \/ asked # Absent /\ OrZero(asked.start) >= file.size

\* Where the bytes of the file start in the stored one.
Start == IF file.kind = "password" THEN CTR_NONCE_SIZE ELSE 0

\* The Content-Range of a reply tells the bytes it holds (of the stored file, so
\* that those of an encrypted one are 16 too far), and its Content-Length how many,
\* but for a range that ends before it starts or behind the end of the file, and for
\* one whose end, in the stored file, is more than what is left behind its start:
\* that one is answered with all that is left and the range of something else.
AsAnnounced ==
  pc = "served" /\ file.kind # "crypted" =>
    \/ /\ reply.size = sent - IF asked = Absent THEN Start ELSE 0
       /\ reply.range # Absent /\ sent > 0 =>
            First(reply.range) = reply.from /\ Last(reply.range) = reply.from + sent - 1
    \/ /\ asked # Absent /\ asked.end # Absent
       /\ \/ asked.end < OrZero(asked.start)
          \/ asked.end >= file.size
          \/ Start + asked.end > file.size - OrZero(asked.start)

\* What is served is what was asked: the bytes themselves, and what the reply says
\* of them.
ServedAsAnnounced == ServedDecrypted /\ AsAnnounced

=============================================================================
