---------------------------- MODULE EncryptedFormat ----------------------------
(* The files of a backup that has a password (src/src/tools/encryption.rs): a    *)
(* header, then the file in blocks of 16 bytes.  What is written to the          *)
(* encrypter and to the decrypter comes in pieces whose sizes nobody chooses:    *)
(* what a read of a disk, of a network stream or of a pipe returned.  A byte is  *)
(* told by its place only, so that files and buffers are sizes.                  *)
EXTENDS Naturals, Sequences

CONSTANTS
  BodySizes, ThumbSizes, InfosSizes,   \* of the files before encryption
  Pieces                               \* sizes of what is read at once, or all there is

BlockSize == 16
IvSize    == 16

VARIABLES
  file,      \* the sizes of the body, of the thumb and of the infos
  pc,        \* "uploading", "stored", "restoring", "restored", "failed" or "panicked"
  given,     \* how many bytes the encrypter, then the decrypter, was given
  buffer,    \* how many of them it keeps
  passed,    \* how many parts of the header the decrypter has passed
  later,     \* whether it was given a piece after the one that had its IV
  size,      \* of the stored file
  out        \* how many bytes came out of the decrypter

vars == <<file, pc, given, buffer, passed, later, size, out>>

-----------------------------------------------------------------------------
(* Sizes.                                                                      *)

\* A multiple of 16 gets a whole block of padding.
ceil_to_multiple_of_16(n) == ((n \div BlockSize) + 1) * BlockSize

Encrypted(n) == IF n = 0 THEN 0 ELSE ceil_to_multiple_of_16(n)

\* IV, size of the thumb, size of the infos, mime of the thumb, mime of the file.
FixedSize == IvSize + 4 + 4 + 32 + 256

\* Where the parts of the header end, the thumb and the infos behind the others.
Ends ==
  <<IvSize, IvSize + 4, IvSize + 4 + 4, IvSize + 4 + 4 + 32, FixedSize,
    FixedSize + Encrypted(file.thumb),
    FixedSize + Encrypted(file.thumb) + Encrypted(file.infos)>>

HeaderSize == Ends[Len(Ends)]

estimated_encrypted_size == HeaderSize + Encrypted(file.body)

\* What may be read when so much is left.
Piece(left) == {n \in Pieces \cup {left} : 0 < n /\ n <= left}

Init ==
  /\ file \in [body : BodySizes, thumb : ThumbSizes, infos : InfosSizes]
  /\ pc = "uploading"
  /\ given = 0 /\ buffer = 0 /\ passed = 0 /\ later = FALSE /\ size = 0 /\ out = 0

-----------------------------------------------------------------------------
(* Encryption.                                                                 *)

\* The first write writes the header; the last complete block is kept, since it
\* may be the one to pad.
write_encrypted(n) ==
  /\ pc = "uploading"
  /\ given' = given + n
  /\ LET complete == (buffer + n) \div BlockSize
         blocks   == IF complete = 0 THEN 0 ELSE complete - 1
     IN  /\ buffer' = buffer + n - blocks * BlockSize
         /\ size' = (IF size = 0 THEN HeaderSize ELSE size) + blocks * BlockSize
  /\ UNCHANGED <<file, pc, passed, later, out>>

finalize_encrypted ==
  /\ pc = "uploading" /\ given = file.body
  /\ pc' = "stored"
  /\ size' = size + Encrypted(buffer)
  /\ buffer' = 0 /\ given' = 0
  /\ UNCHANGED <<file, passed, later, out>>

-----------------------------------------------------------------------------
(* Decryption.                                                                 *)

get_backup_file_reader ==
  /\ pc = "stored"
  /\ pc' = "restoring"
  /\ UNCHANGED <<file, given, buffer, passed, later, size, out>>

\* How many of n bytes the parts up to the k-th take, from the next one on.
Taken(k) == Ends[k] - Ends[passed]

\* They make these complete, and no more: the first one that is not stops the write.
Passing(k, n) == Taken(k) <= n /\ (k < Len(Ends) => n < Taken(k + 1))

\* The write that completes the IV does nothing else, whatever is buffered.
ReadIv(n) ==
  /\ passed = 0
  /\ IF n < IvSize
     THEN buffer' = n /\ UNCHANGED passed
     ELSE buffer' = n - IvSize /\ passed' = 1
  /\ UNCHANGED <<pc, later, out>>

\* Mutant: every complete block is decrypted, the last one too.
ReadAllParts(n) ==
  /\ passed > 0
  /\ \E k \in passed..Len(Ends) :
       LET rest   == n - Taken(k)
           blocks == IF k < Len(Ends) THEN 0 ELSE rest \div BlockSize
       IN  /\ Passing(k, n)
           /\ passed' = k
           /\ buffer' = rest - blocks * BlockSize
           /\ out' = out + blocks * BlockSize
  /\ later' = TRUE
  /\ UNCHANGED pc

\* Behind the header, the number of complete blocks minus one, in unsigned
\* integers.
ReadParts(n) ==
  /\ passed > 0
  /\ \E k \in passed..Len(Ends) :
       LET rest   == n - Taken(k)
           blocks == (rest \div BlockSize) - 1
       IN  /\ Passing(k, n)
           /\ passed' = k
           /\ IF k < Len(Ends)
              THEN buffer' = rest /\ UNCHANGED <<pc, out>>
              ELSE IF rest < BlockSize
              THEN buffer' = rest /\ pc' = "panicked" /\ UNCHANGED out
              ELSE /\ buffer' = rest - blocks * BlockSize
                   /\ out' = out + blocks * BlockSize
                   /\ UNCHANGED pc
  /\ later' = TRUE

write_decrypted(n) ==
  /\ pc = "restoring"
  /\ given' = given + n
  /\ ReadIv(buffer + n) \/ ReadParts(buffer + n)
  /\ UNCHANGED <<file, size>>

\* What is left must be the last block; its padding goes.
finalize_decrypted ==
  /\ pc = "restoring" /\ given = size
  /\ IF passed = 0 \/ buffer = 0
     THEN pc' = "restored" /\ UNCHANGED <<out, buffer>>
     ELSE IF buffer = BlockSize
     THEN pc' = "restored" /\ out' = out + BlockSize - (Encrypted(file.body) - file.body)
                           /\ buffer' = 0
     ELSE pc' = "failed" /\ UNCHANGED <<out, buffer>>
  /\ UNCHANGED <<file, given, passed, later, size>>

Next ==
  \/ \E n \in Piece(file.body - given) : write_encrypted(n)
  \/ finalize_encrypted
  \/ get_backup_file_reader
  \/ \E n \in Piece(size - given) : write_decrypted(n)
  \/ finalize_decrypted

Spec == Init /\ [][Next]_vars

-----------------------------------------------------------------------------
\* A file is given to a provider in as many bytes as it was told before the encryption
\* (upload_backup), but an empty one that leaves nothing at all, not even the header;
\* and it comes back whole, however it was cut on both ways, but for two cuts: one that
\* falls behind the header and less than a block after it, where the decrypter panics,
\* and none at all, where everything came in the write that had the IV.
RestoredWhole ==
  /\ pc # "uploading" => size = IF file.body = 0 THEN 0 ELSE estimated_encrypted_size
  /\ pc = "restored" => out = file.body
  /\ pc = "panicked" => later /\ given \in HeaderSize..(HeaderSize + BlockSize - 1)
  /\ pc = "failed"   => ~later

=============================================================================
