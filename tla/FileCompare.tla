---------------------------- MODULE FileCompare ----------------------------
(***************************************************************************)
(* file_cmp (OJ_Judge/code/judge.cpp): how a user's output is compared     *)
(* with the right one, block by block.  A file is the sequence of its      *)
(* bytes.                                                                  *)
(***************************************************************************)
EXTENDS Integers, Sequences, FiniteSetsExt

CONSTANTS
    Bytes,      \* what a file consists of
    Contents,   \* the files there may be
    NoFile,     \* one that cannot be opened
    BlockSize   \* sizeof(buf1)

ASSUME CompareAssumption ==
    /\ BlockSize \in Nat \ {0}
    /\ Contents \subseteq Seq(Bytes)
    /\ NoFile \notin Seq(Bytes)

VARIABLES
    f1, f2,  \* the two files
    pos,     \* how far both have been read
    result,  \* file_cmp's result
    state    \* "idle", "reading" or "returned"

compareVars == <<f1, f2, pos, result, state>>

CompareInit == f1 = NoFile /\ f2 = NoFile /\ pos = 0 /\ result = 0 /\ state = "idle"

\* fopen, twice: -1 if one of the files cannot be opened.
OpenFiles ==
    /\ state = "idle"
    /\ f1' \in Contents \cup {NoFile} /\ f2' \in Contents \cup {NoFile}
    /\ IF NoFile \in {f1', f2'} THEN result' = -1 /\ state' = "returned"
                                ELSE result' = 1 /\ state' = "reading"
    /\ UNCHANGED pos

\* fread: what it reads into a buffer.
Block(file) == SubSeq(file, pos + 1, Min({pos + BlockSize, Len(file)}))

\* Mutant: memcmp alone decides, on as much as was read from the shorter file.
SameStart ==
    LET n == Min({Len(Block(f1)), Len(Block(f2))})
    IN  SubSeq(f1, pos + 1, pos + n) = SubSeq(f2, pos + 1, pos + n)

\* n1 == n2 and memcmp of n1 bytes is 0.
SameBlock == Len(Block(f1)) = Len(Block(f2)) /\ Block(f1) = Block(f2)

\* A round of the loop, which ends at the first difference or when nothing was read.
CompareBlock ==
    /\ state = "reading"
    /\ \/ ~SameBlock /\ result' = 0 /\ state' = "returned"
       \/ SameBlock /\ UNCHANGED result
          /\ state' = IF Block(f1) # <<>> /\ Block(f2) # <<>> THEN "reading" ELSE "returned"
    /\ pos' = pos + Len(Block(f1))
    /\ UNCHANGED <<f1, f2>>

CompareNext == OpenFiles \/ CompareBlock

CompareSpec == CompareInit /\ [][CompareNext]_compareVars
-----------------------------------------------------------------------------
\* The comparison block by block finds two files equal exactly when they are, whatever
\* their lengths are to the size of a block, and says so of a file that is missing.
FilesCompared ==
    state = "returned" =>
        /\ result = -1 <=> NoFile \in {f1, f2}
        /\ result = 1 <=> f1 = f2 /\ f1 # NoFile
=============================================================================
