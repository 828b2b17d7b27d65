----------------------------- MODULE FileTools ------------------------------
(***************************************************************************)
(* lab02: two programs that change a letter (zad01/lib, zad01/sys) and two *)
(* that reverse a file (zad02/onechar, zad02/block).  A file is the        *)
(* sequence of its bytes.                                                  *)
(***************************************************************************)
EXTENDS Integers, Sequences, SequencesExt

CONSTANTS
  Bytes,               \* model bound: the bytes of files whose letters are changed
  MaxText,             \* model bound: the length of those files
  BLOCKSIZE,
  MaxSize              \* model bound: the length of the files that are reversed

ASSUME FilesAssumption ==
  Bytes \subseteq Nat /\ MaxText \in Nat \ {0} /\ MaxSize \in Nat /\ BLOCKSIZE \in Nat \ {0}

VARIABLES
  tool,                \* the program that runs, with what it does next
  inFile, outFile,     \* the files; NoFile if there is none
  given, former,       \* history: the input and the output as they were
  sameFile,            \* the two paths on the command line are the same
  place,               \* i: the byte, block or entry it has come to
  wild,                \* the places behind the buffer that zad01/lib has changed
  buff                 \* the buffer of zad02/block, and the byte behind it

fileVars == <<tool, given, former, inFile, outFile, sameFile, place, wild, buff>>

NoFile == <<-1>>
Nul == 0
Old == 1
New == 2
Change(b) == IF b = Old THEN New ELSE b
Texts == UNION {[1 .. n -> Bytes] : n \in 0 .. MaxText}

FilesInit ==
  /\ tool = "none" /\ given = <<>> /\ former = <<>> /\ inFile = <<>> /\ outFile = <<>>
  /\ sameFile = FALSE /\ wild = {}
  /\ place = 0 /\ buff = [j \in 0 .. BLOCKSIZE |-> Nul]

\* Two files, a missing one among them, or one file under both paths.
ChangeMain ==
  /\ tool = "none" /\ tool' \in {"lib", "sys"}
  /\ inFile' \in Texts \union {NoFile} /\ given' = inFile' /\ sameFile' \in BOOLEAN
  /\ IF sameFile' THEN outFile' = inFile' ELSE outFile' \in {NoFile} \union [1 .. MaxText - 1 -> {New}]
  /\ former' = outFile' /\ place' = 1
  /\ UNCHANGED <<wild, buff>>

\* Mutant: the loop moves on before it compares.
ScanSecond(s) == {k \in 2 .. Len(s) : \A l \in 1 .. k : s[l] # Nul}
ScanTo(s) == {k \in 1 .. Len(s) : \A l \in 1 .. k : s[l] # Nul}

\* zad01/lib empties the output as it opens it, before it asks for the size of the input.
\* Its loop goes on to a byte 0, in a text without one to whatever lies behind the buffer:
\* to a 0 there, or to the end of the memory, which kills it.  What is changed behind may
\* kill it too, before the output is written.
ChangeLib ==
  /\ tool = "lib"
  /\ LET read == IF sameFile /\ inFile # NoFile THEN <<>> ELSE inFile IN
     \/ read = NoFile /\ tool' = "libEnded" /\ outFile' = <<>> /\ UNCHANGED wild
     \/ /\ read # NoFile
        /\ \E behind \in Texts :
             LET memory == read \o behind
                 killed == \A k \in 1 .. Len(memory) : memory[k] # Nul
             IN /\ wild' = {k \in ScanTo(memory) : k > Len(read) /\ memory[k] = Old}
                /\ \/ /\ ~killed /\ tool' = "libEnded"
                      /\ outFile' = [k \in 1 .. Len(read) |->
                                      IF k \in ScanTo(memory) THEN Change(read[k]) ELSE read[k]]
                   \/ (killed \/ wild' # {}) /\ tool' = "libKilled" /\ outFile' = <<>>
  /\ inFile' = IF sameFile THEN outFile' ELSE inFile
  /\ UNCHANGED <<given, former, sameFile, place, buff>>

\* zad01/sys opens the output without O_CREAT and O_TRUNC and writes over what is there.
Overwrite(s, at, b) == IF at <= Len(s) THEN [s EXCEPT ![at] = b] ELSE Append(s, b)

ChangeSys ==
  /\ tool = "sys"
  /\ IF inFile = NoFile \/ place > Len(inFile)
     THEN tool' = "sysEnded" /\ UNCHANGED <<inFile, outFile, place>>
     ELSE /\ outFile' = IF outFile = NoFile THEN NoFile
                        ELSE Overwrite(outFile, place, Change(inFile[place]))
          /\ inFile' = IF sameFile THEN outFile' ELSE inFile
          /\ place' = place + 1 /\ UNCHANGED tool
  /\ UNCHANGED <<given, former, sameFile, wild, buff>>

-----------------------------------------------------------------------------
(* Reversal: the bytes of the input are told apart by their places.          *)

ReverseMain ==
  /\ tool = "none" /\ tool' \in {"onechar", "block"}
  /\ \E n \in 0 .. MaxSize : inFile' = [k \in 1 .. n |-> k] /\ given' = inFile' /\ place' = n
  /\ outFile' = <<>> /\ UNCHANGED <<former, sameFile, wild>>
  /\ \E behind \in {Nul, -2} : buff' = [j \in 0 .. BLOCKSIZE |-> IF j = BLOCKSIZE THEN behind ELSE Nul]

\* Without the input the output is left empty.
ReverseMissing ==
  /\ tool = "none" /\ tool' = "notAvailable"
  /\ given' = NoFile /\ inFile' = NoFile /\ outFile' = <<>>
  /\ UNCHANGED <<former, sameFile, place, wild, buff>>

\* Mutant: the loop ends before the first byte.
MoreThanOne == place > 1
MoreBytes == place > 0

OneChar ==
  /\ tool = "onechar"
  /\ IF MoreBytes THEN /\ outFile' = Append(outFile, inFile[place])
                       /\ place' = place - 1 /\ UNCHANGED tool
     ELSE tool' = "onecharEnded" /\ UNCHANGED <<outFile, place>>
  /\ UNCHANGED <<given, former, inFile, sameFile, wild, buff>>

\* fread of n bytes from place at, at the start of the buffer.
Load(at, n) == [j \in 0 .. BLOCKSIZE |->
                 IF j < n /\ at + j <= Len(inFile) THEN inFile[at + j] ELSE buff[j]]

\* swap(&buff[j], &buff[n - j]) for j below n / 2.
SwapEnds(b, n) == [j \in 0 .. BLOCKSIZE |-> IF j < n \div 2 \/ (j <= n /\ n - j < n \div 2) THEN b[n - j] ELSE b[j]]
FirstBytes(b, n) == [k \in 1 .. n |-> b[k - 1]]

\* Blocks from the end of the file; the partner of byte 0 is the byte behind the buffer.
FullBlock ==
  /\ tool = "block" /\ place >= BLOCKSIZE
  /\ buff' = SwapEnds(Load(place - BLOCKSIZE + 1, BLOCKSIZE), BLOCKSIZE)
  /\ outFile' = outFile \o FirstBytes(buff', BLOCKSIZE)
  /\ place' = place - BLOCKSIZE
  /\ UNCHANGED <<tool, given, former, inFile, sameFile, wild>>

\* One byte more than the rest is read and written.
Remainder ==
  /\ tool = "block" /\ place < BLOCKSIZE /\ tool' = "blockEnded"
  /\ IF place > 0 THEN /\ buff' = SwapEnds(Load(1, place + 1), place)
                       /\ outFile' = outFile \o FirstBytes(buff', place + 1)
     ELSE UNCHANGED <<buff, outFile>>
  /\ UNCHANGED <<given, former, inFile, sameFile, place, wild>>

FilesNext == ChangeMain \/ ChangeLib \/ ChangeSys \/ ReverseMain \/ ReverseMissing
             \/ OneChar \/ FullBlock \/ Remainder

FilesSpec == FilesInit /\ [][FilesNext]_fileVars

-----------------------------------------------------------------------------
(* Properties *)

Changed(s) == [k \in 1 .. Len(s) |-> Change(s[k])]

\* Both programs change every letter, as tr does: zad01/lib in a text without a byte 0 and into
\* another file, if the memory behind its buffer lets it end, zad01/sys into a file that exists
\* and is not longer, itself too.  With a byte 0 zad01/lib leaves that memory alone.
LettersChanged ==
  /\ tool = "libEnded" /\ given # NoFile /\ ~sameFile /\ (\A k \in 1 .. Len(given) : given[k] # Nul)
       => outFile = Changed(given)
  /\ tool \in {"libEnded", "libKilled"} /\ given # NoFile /\ ~sameFile
       /\ (\E k \in 1 .. Len(given) : given[k] = Nul)
       => wild = {} /\ tool = "libEnded"
  /\ tool = "sysEnded" /\ given # NoFile /\ former # NoFile /\ Len(former) <= Len(given)
       => outFile = Changed(given)

\* zad02/onechar reverses the file.
ReversedByChar == tool = "onecharEnded" => outFile = Reverse(given)
=============================================================================
