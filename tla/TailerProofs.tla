---------------------------- MODULE TailerProofs ----------------------------
(***************************************************************************)
(* Proofs about the tailer: type correctness, and that what it returns is  *)
(* the log, each byte at most once and in order, cut into lines that do    *)
(* not mix files, whatever happens to the path between two system calls.   *)
(* Nothing is assumed of the number of files, bytes or inodes.             *)
(*                                                                         *)
(* The order of what was read follows from one fact about the disk: the    *)
(* file at the path is the youngest.  Everything in it was written after   *)
(* everything in the file the tailer has open, if that is another one, and *)
(* after everything that was read (BehindThePath); so opening it never     *)
(* goes back.  What could break it is a reopening of the very file that is *)
(* open, which would read it again from the start: that a rotation is only *)
(* ever seen when the path shows another file, and that an inode number is *)
(* not given to a new file while the tailer has it open, excludes that     *)
(* (RotatesAway), and that a file that nobody truncates is never rewound   *)
(* excludes the other (NeverRewinds).                                      *)
(***************************************************************************)
EXTENDS Tailer, TLAPS

\* Bytes written one after the other to one file.
Run(s) ==
  \A k \in 1 .. Len(s) : s[k].n = s[1].n + (k - 1) /\ s[k].file = s[1].file

\* Every byte of a text (a sequence of lines) was written before byte n.
AllBefore(T, n) ==
  \A k \in 1 .. Len(T) : \A i \in 1 .. Len(T[k]) : T[k][i].n < n

Ordered(T) ==
  \A k \in 1 .. Len(T) : \A l \in k .. Len(T) :
    \A i \in 1 .. Len(T[k]), j \in 1 .. Len(T[l]) :
      k < l \/ i < j => T[k][i].n < T[l][j].n

\* The inodes in use: one that is linked at the path or open has been given
\* out, the writer has the file at the path open, and the tailer knows the
\* inode of the file it has open.
InodesInUse ==
  /\ wfd \in used
  /\ path # None => path = wfd
  /\ file # None => file \in used /\ file = inode

\* Every file holds a run of what was written, and the one that the writer
\* has open the latest.
FilesAreRuns ==
  /\ \A i \in Inodes : Run(content[i])
  /\ \A i \in Inodes : \A k \in 1 .. Len(content[i]) : content[i][k].n <= written
  /\ content[wfd] # <<>> =>
       /\ content[wfd][1].n + (Len(content[wfd]) - 1) = written
       /\ content[wfd][1].file = files

\* A tick that has seen a rotation finds another file at the path, or none.
RotatesAway ==
  /\ pc = "inode" => ~ stat.rotate
  /\ stat.rotate => ~ stat.truncate
  /\ pc \in {"drain", "switch"} /\ stat.rotate => path = None \/ path # file

\* An open file that nobody truncates is never shorter than what was read.
NeverRewinds ==
  /\ file # None => pos <= Len(content[file])
  /\ pc = "inode" /\ file # None /\ path = file => pos <= stat.size
  /\ file # None => ~ stat.truncate

\* What was read was written before everything that is still to be read.
BehindThePath ==
  /\ AllBefore(Text, written + 1)
  /\ file # None =>
       \A k \in pos + 1 .. Len(content[file]) : AllBefore(Text, content[file][k].n)
  /\ path # None /\ path # file =>
       \A k \in 1 .. Len(content[path]) :
         /\ AllBefore(Text, content[path][k].n)
         /\ file # None =>
              \A l \in 1 .. Len(content[file]) : content[file][l].n < content[path][k].n

\* The lines are runs, and so is the partial line, which ends at the position.
LinesAreRuns ==
  /\ \A k \in 1 .. Len(lines) : Run(lines[k])
  /\ Run(buf)
  /\ buf # <<>> =>
       /\ file # None
       /\ pos \in 1 .. Len(content[file])
       /\ buf[Len(buf)] = content[file][pos]

DiskInv == InodesInUse /\ FilesAreRuns
ReadInv == NeverRewinds /\ BehindThePath /\ Ordered(Text) /\ LinesAreRuns

TailInv ==
  /\ TypeOK
  /\ DiskInv
  /\ RotatesAway
  /\ "truncate" \notin faults => ReadInv
-----------------------------------------------------------------------------
LEMMA NoBytes == <<>> \in Seq(Byte) /\ <<>> \in Seq(Seq(Byte))
  OBVIOUS

StatResult == [err : BOOLEAN, size : Nat, rotate : BOOLEAN, truncate : BOOLEAN]

LEMMA NoStatType == NoStat \in StatResult
  BY DEF NoStat, StatResult

LEMMA TypeInit == Init => TypeOK
<1> SUFFICES ASSUME Init PROVE TypeOK
  OBVIOUS
<1>1. path \in Inodes
  BY FaultAssumption DEF Init
<1>2. content \in [Inodes -> Seq(Byte)]
  <2> DEFINE b == [n |-> 1, file |-> 1, nl |-> FALSE]
  <2>1. b \in Byte
    BY DEF Byte
  <2>2. PICK half \in BOOLEAN :
          content = [i \in Inodes |-> IF i = path /\ half THEN <<b>> ELSE <<>>]
    BY DEF Init
  <2> HIDE DEF b
  <2>3. <<b>> \in Seq(Byte) /\ <<>> \in Seq(Byte)
    BY <2>1
  <2>4. QED
    BY <2>2, <2>3
<1>3. PICK half \in BOOLEAN, fromStart \in BOOLEAN :
        /\ written = (IF half THEN 1 ELSE 0)
        /\ pos = (IF half /\ ~ fromStart THEN 1 ELSE 0)
  BY DEF Init
<1>4. scenario \in Scenarios /\ pc = "idle" /\ stat = NoStat /\ aside = None
      /\ wfd = path /\ used = {path} /\ file = path /\ inode = path
      /\ files = 1 /\ buf = <<>> /\ lines = <<>>
  BY DEF Init
<1>5. written \in Nat /\ pos \in Nat /\ files \in Nat
  BY <1>3, <1>4
<1>6. buf \in Seq(Byte) /\ lines \in Seq(Seq(Byte)) /\ stat \in StatResult
  BY <1>4, NoBytes, NoStatType
<1>7. QED
  BY <1>1, <1>2, <1>4, <1>5, <1>6 DEF TypeOK, StatResult

\* A byte that can be read is a byte.
LEMMA NextByte ==
  ASSUME TypeOK, Readable
  PROVE  /\ file \in Inodes /\ pos + 1 \in 1 .. Len(content[file])
         /\ content[file][pos + 1] \in Byte
<1>1. file \in Inodes /\ content[file] \in Seq(Byte) /\ pos \in Nat
  BY DEF TypeOK, Readable
<1>2. pos + 1 \in 1 .. Len(content[file])
  BY <1>1 DEF Readable
<1>3. QED
  BY <1>1, <1>2

\* What a newline or a flush makes of the text.
LEMMA FlushTypes ==
  ASSUME TypeOK
  PROVE  Append(lines, buf) \in Seq(Seq(Byte))
<1>1. lines \in Seq(Seq(Byte)) /\ buf \in Seq(Byte)
  BY DEF TypeOK
<1> DEFINE B == Seq(Byte)
<1>2. lines \in Seq(B) /\ buf \in B
  BY <1>1
<1> HIDE DEF B
<1>3. Append(lines, buf) \in Seq(B)
  BY <1>2
<1>4. QED
  BY <1>3 DEF B

\* A new file gets an inode number that exists and that the tailer has not
\* open.
LEMMA AvailableInodes ==
  ASSUME TypeOK, InodesInUse
  PROVE  Available \subseteq Inodes \ {file}
<1>1. Inodes \ used # {} => (CHOOSE i \in Inodes \ used : TRUE) \in Inodes \ used
  OBVIOUS
<1>2. file \notin Inodes \ used
  BY FaultAssumption DEF InodesInUse
<1>3. used \subseteq Inodes
  BY DEF TypeOK
<1>4. QED
  BY <1>1, <1>2, <1>3 DEF Available

LEMMA TypeStep == TypeOK /\ InodesInUse /\ [Next]_vars => TypeOK'
<1> SUFFICES ASSUME TypeOK, InodesInUse, [Next]_vars PROVE TypeOK'
  OBVIOUS
<1> USE DEF TypeOK
<1>1. CASE Write
  <2>1. written + 1 \in Nat /\ files \in Nat
    OBVIOUS
  <2>2. PICK nl \in BOOLEAN :
          content' = [content EXCEPT ![wfd] =
                        Append(@, [n |-> written + 1, file |-> files, nl |-> nl])]
    BY <1>1 DEF Write
  <2>3. [n |-> written + 1, file |-> files, nl |-> nl] \in Byte
    BY <2>1 DEF Byte
  <2>4. Append(content[wfd], [n |-> written + 1, file |-> files, nl |-> nl]) \in Seq(Byte)
    BY <2>3
  <2>5. content' \in [Inodes -> Seq(Byte)]
    BY <2>2, <2>4
  <2>6. QED
    BY <1>1, <2>1, <2>5 DEF Write, tailVars
<1>2. CASE Rename
  BY <1>2 DEF Rename, tailVars
<1>3. CASE Unlink
  BY <1>3 DEF Unlink, tailVars
<1>4. CASE Create
  <2>1. PICK i \in Available :
          /\ path' = i /\ wfd' = i /\ used' = used \union {i}
          /\ content' = [content EXCEPT ![i] = <<>>]
    BY <1>4 DEF Create
  <2>2. i \in Inodes
    BY AvailableInodes
  <2>3. content' \in [Inodes -> Seq(Byte)]
    BY <2>1, NoBytes
  <2>4. files' \in Nat
    BY <1>4 DEF Create
  <2>5. QED
    BY <1>4, <2>1, <2>2, <2>3, <2>4 DEF Create, tailVars
<1>5. CASE Truncate
  <2>1. content' \in [Inodes -> Seq(Byte)]
    BY <1>5, NoBytes DEF Truncate
  <2>2. QED
    BY <1>5, <2>1 DEF Truncate, tailVars
<1>6. CASE Stat
  <2>1. path # None => Len(content[path]) \in Nat
    OBVIOUS
  <2> DEFINE n == IF path = None THEN 0 ELSE Len(content[path])
  <2>2. n \in Nat
    BY <2>1
  <2>3. stat' = [NoStat EXCEPT !.err = (path = None), !.rotate = (path = None), !.size = n]
    BY <1>6 DEF Stat
  <2> HIDE DEF n
  <2>4. stat' \in StatResult
    BY <2>2, <2>3, NoStatType DEF StatResult
  <2>5. QED
    BY <1>6, <2>4 DEF Stat, diskVars, StatResult
<1>7. CASE StatInode
  <2>1. stat \in StatResult
    BY DEF StatResult
  <2>2. [stat EXCEPT !.rotate = (path # inode),
                     !.truncate = (path = inode /\ stat.size < pos)] \in StatResult
    BY <2>1 DEF StatResult
  <2>3. stat' \in StatResult
    BY <1>7, <2>2, NoStatType DEF StatInode
  <2>4. QED
    BY <1>7, <2>3 DEF StatInode, diskVars, StatResult
<1>8. CASE ReadAvailable
  <2>1. content[file][pos + 1] \in Byte
    BY <1>8, NextByte DEF ReadAvailable
  <2>2. pos' \in Nat
    BY <1>8 DEF ReadAvailable, TakeByte
  <2>3. lines' \in Seq(Seq(Byte))
    BY <1>8, FlushTypes, NoBytes DEF ReadAvailable, TakeByte
  <2>4. Append(buf, content[file][pos + 1]) \in Seq(Byte)
    BY <2>1
  <2>5. buf' \in Seq(Byte)
    BY <1>8, <2>4, FlushTypes, NoBytes DEF ReadAvailable, TakeByte
  <2>6. QED
    BY <1>8, <2>2, <2>3, <2>5 DEF ReadAvailable, diskVars
<1>9. CASE Drain
  BY <1>9, NoStatType DEF Drain, EndTick, StatResult, diskVars
<1>10. CASE Reopen
  <2>1. buf' \in Seq(Byte) /\ lines' \in Seq(Seq(Byte))
    BY <1>10, FlushTypes, NoBytes DEF Reopen, Flush
  <2>2. QED
    BY <1>10, <2>1, NoStatType DEF Reopen, EndTick, StatResult, diskVars
<1>11. CASE Rewind
  <2>1. buf' \in Seq(Byte) /\ lines' \in Seq(Seq(Byte))
    BY <1>11, FlushTypes, NoBytes DEF Rewind, Flush
  <2>2. QED
    BY <1>11, <2>1, NoStatType DEF Rewind, EndTick, StatResult, diskVars
<1>12. CASE ReadMore
  BY <1>12, NoStatType DEF ReadMore, EndTick, StatResult, diskVars
<1>13. CASE SkipToEOF
  <2>1. Len(content[file]) \in Nat
    BY <1>13 DEF SkipToEOF
  <2>2. QED
    BY <1>13, <2>1 DEF SkipToEOF, diskVars
<1>14. CASE UNCHANGED vars
  BY <1>14 DEF vars, diskVars, tailVars
<1>15. QED
  BY <1>1, <1>2, <1>3, <1>4, <1>5, <1>6, <1>7, <1>8, <1>9, <1>10, <1>11, <1>12,
     <1>13, <1>14 DEF Next, Environment, Tick
-----------------------------------------------------------------------------
(* The disk, and what a tick knows of it.                                   *)

LEMMA DiskInit == Init => DiskInv /\ RotatesAway
<1> SUFFICES ASSUME Init PROVE DiskInv /\ RotatesAway
  OBVIOUS
<1>1. path \in Inodes /\ wfd = path /\ used = {path} /\ file = path /\ inode = path
      /\ files = 1 /\ pc = "idle" /\ stat = NoStat
  BY FaultAssumption DEF Init
<1>2. InodesInUse
  BY <1>1 DEF InodesInUse
<1>3. RotatesAway
  BY <1>1 DEF RotatesAway, NoStat
<1> DEFINE b == [n |-> 1, file |-> 1, nl |-> FALSE]
<1>4. PICK half \in BOOLEAN :
        /\ content = [i \in Inodes |-> IF i = path /\ half THEN <<b>> ELSE <<>>]
        /\ written = (IF half THEN 1 ELSE 0)
  BY DEF Init
<1>5. b.n = 1 /\ b.file = 1
  OBVIOUS
<1> HIDE DEF b
<1>6. \A i \in Inodes : content[i] = <<>> \/ (half /\ content[i] = <<b>>)
  BY <1>4
<1>7. \A i \in Inodes : Run(content[i])
  BY <1>5, <1>6 DEF Run
<1>8. \A i \in Inodes : \A k \in 1 .. Len(content[i]) : content[i][k].n <= written
  BY <1>4, <1>5, <1>6
<1>9. content[wfd] # <<>> =>
        /\ content[wfd][1].n + (Len(content[wfd]) - 1) = written
        /\ content[wfd][1].file = files
  <2> SUFFICES ASSUME content[path] # <<>>
               PROVE  /\ content[path][1].n + (Len(content[path]) - 1) = written
                      /\ content[path][1].file = 1
    BY <1>1
  <2>1. content[path] = <<b>> /\ half
    BY <1>1, <1>6
  <2>2. content[path][1] = b /\ Len(content[path]) = 1 /\ written = 1
    BY <1>4, <2>1
  <2>3. QED
    BY <1>5, <2>2
<1>10. QED
  BY <1>2, <1>3, <1>7, <1>8, <1>9 DEF DiskInv, FilesAreRuns

\* A run grows by the byte that follows it.
LEMMA RunGrows ==
  ASSUME NEW s \in Seq(Byte), NEW b \in Byte, Run(s),
         s # <<>> => /\ b.n = s[1].n + Len(s)
                     /\ b.file = s[1].file
  PROVE  Run(Append(s, b))
<1> DEFINE t == Append(s, b)
<1>1. Len(s) \in Nat /\ Len(t) = Len(s) + 1 /\ t[Len(s) + 1] = b
      /\ \A k \in 1 .. Len(s) : t[k] = s[k]
  OBVIOUS
<1>2. s = <<>> => Len(s) = 0
  OBVIOUS
<1>3. \A k \in 1 .. Len(s) : s[k] \in Byte
  OBVIOUS
<1> HIDE DEF t
<1>4. SUFFICES ASSUME NEW k \in 1 .. Len(t)
               PROVE  t[k].n = t[1].n + (k - 1) /\ t[k].file = t[1].file
  BY DEF Run, t
<1>5. CASE s = <<>>
  <2>1. k = 1 /\ t[1] = b
    BY <1>1, <1>2, <1>5
  <2>2. b.n \in Nat
    BY DEF Byte
  <2>3. QED
    BY <2>1, <2>2
<1>6. CASE s # <<>>
  <2>1. Len(s) >= 1 /\ t[1] = s[1]
    BY <1>1, <1>6
  <2>2. CASE k = Len(s) + 1
    BY <1>1, <1>6, <2>1, <2>2
  <2>3. CASE k \in 1 .. Len(s)
    BY <1>1, <2>1, <2>3 DEF Run
  <2>4. QED
    BY <1>1, <2>2, <2>3
<1>7. QED
  BY <1>5, <1>6

\* A write appends the next number to the file the writer has open.
LEMMA WriteAppends ==
  ASSUME TypeOK, Write
  PROVE  \E b \in Byte : /\ b.n = written + 1 /\ b.file = files
                         /\ content' = [content EXCEPT ![wfd] = Append(@, b)]
<1>1. PICK nl \in BOOLEAN :
        content' = [content EXCEPT ![wfd] =
                      Append(@, [n |-> written + 1, file |-> files, nl |-> nl])]
  BY DEF Write
<1>2. written + 1 \in Nat /\ files \in Nat
  BY DEF TypeOK
<1> DEFINE b == [n |-> written + 1, file |-> files, nl |-> nl]
<1>3. b \in Byte /\ b.n = written + 1 /\ b.file = files
  BY <1>2 DEF Byte
<1>4. content' = [content EXCEPT ![wfd] = Append(@, b)]
  BY <1>1
<1> HIDE DEF b
<1>5. QED
  BY <1>3, <1>4

\* Every other step leaves a file alone or empties it, and an empty file at
\* most becomes the one that is written.
LEMMA FilesEmptied ==
  ASSUME TypeOK, InodesInUse, FilesAreRuns, NEW e \in Inodes,
         content' = [content EXCEPT ![e] = <<>>],
         wfd' = e, written' = written
  PROVE  FilesAreRuns'
<1>1. \A i \in Inodes : content'[i] = content[i] \/ content'[i] = <<>>
  BY DEF TypeOK
<1>2. content'[wfd'] = <<>>
  BY DEF TypeOK
<1>3. \A i \in Inodes : Run(content[i]) => Run(content'[i])
  BY <1>1 DEF Run
<1>4. \A i \in Inodes : \A k \in 1 .. Len(content'[i]) : content'[i][k].n <= written'
  BY <1>1 DEF FilesAreRuns
<1>5. QED
  BY <1>2, <1>3, <1>4 DEF FilesAreRuns, Run

LEMMA WriteKeepsRuns ==
  ASSUME TypeOK, FilesAreRuns, Write
  PROVE  FilesAreRuns'
<1>1. PICK b \in Byte : /\ b.n = written + 1 /\ b.file = files
                        /\ content' = [content EXCEPT ![wfd] = Append(@, b)]
  BY WriteAppends
<1>2. written' = written + 1 /\ wfd' = wfd /\ files' = files
  BY DEF Write
<1>3. wfd \in Inodes /\ content[wfd] \in Seq(Byte) /\ written \in Nat /\ files \in Nat
  BY DEF TypeOK
<1> DEFINE s == content[wfd]
<1> DEFINE t == Append(s, b)
<1>4. content'[wfd] = t /\ \A i \in Inodes \ {wfd} : content'[i] = content[i]
  BY <1>1 DEF TypeOK
<1>5. /\ Len(s) \in Nat /\ Len(t) = Len(s) + 1 /\ t[Len(s) + 1] = b /\ t # <<>>
      /\ \A k \in 1 .. Len(s) : t[k] = s[k] /\ s[k] \in Byte
  BY <1>3
<1>6. s = <<>> => Len(s) = 0
  OBVIOUS
<1>7. s # <<>> => Len(s) >= 1
  BY <1>3
<1>8. s \in Seq(Byte) /\ Run(s) /\ \A k \in 1 .. Len(s) : s[k].n <= written
  BY <1>3 DEF FilesAreRuns
<1>9. s # <<>> => s[1].n + (Len(s) - 1) = written /\ s[1].file = files
  BY DEF FilesAreRuns
<1> HIDE DEF s
<1>10. s # <<>> => s[1].n \in Nat
  BY <1>5, <1>7 DEF Byte
<1>11. s # <<>> => b.n = s[1].n + Len(s) /\ b.file = s[1].file
  BY <1>1, <1>3, <1>5, <1>9, <1>10
<1>12. Run(t)
  BY <1>8, <1>11, RunGrows
<1> HIDE DEF t
<1>13. \A k \in 1 .. Len(t) : t[k].n <= written + 1
  <2> SUFFICES ASSUME NEW k \in 1 .. Len(t) PROVE t[k].n <= written + 1
    OBVIOUS
  <2>1. CASE k = Len(s) + 1
    BY <1>1, <1>3, <1>5, <2>1
  <2>2. CASE k \in 1 .. Len(s)
    <3>1. s[k].n \in Nat
      BY <1>5, <2>2 DEF Byte
    <3>2. QED
      BY <1>3, <1>5, <1>8, <2>2, <3>1
  <2>3. QED
    BY <1>5, <2>1, <2>2
<1>14. t[1].n + (Len(t) - 1) = written + 1 /\ t[1].file = files
  <2>1. CASE s = <<>>
    BY <1>1, <1>3, <1>5, <1>6, <2>1
  <2>2. CASE s # <<>>
    BY <1>5, <1>7, <1>9, <1>10, <2>2
  <2>3. QED
    BY <2>1, <2>2
<1>15. \A i \in Inodes : Run(content'[i])
  BY <1>4, <1>12 DEF FilesAreRuns
<1>16. \A i \in Inodes : \A k \in 1 .. Len(content'[i]) : content'[i][k].n <= written'
  <2> SUFFICES ASSUME NEW i \in Inodes, NEW k \in 1 .. Len(content'[i])
               PROVE  content'[i][k].n <= written'
    OBVIOUS
  <2>1. CASE i = wfd
    BY <1>2, <1>4, <1>13, <2>1
  <2>2. CASE i # wfd
    <3>1. content'[i] = content[i] /\ content[i] \in Seq(Byte)
      BY <1>4, <2>2 DEF TypeOK
    <3>2. content[i][k] \in Byte
      BY <3>1
    <3>3. content[i][k].n \in Nat /\ content[i][k].n <= written
      BY <3>1, <3>2 DEF Byte, FilesAreRuns
    <3>4. QED
      BY <1>2, <1>3, <3>1, <3>3
  <2>3. QED
    BY <2>1, <2>2
<1>17. QED
  BY <1>2, <1>3, <1>4, <1>14, <1>15, <1>16 DEF FilesAreRuns, Run

LEMMA DiskStep ==
  ASSUME TypeOK, DiskInv, [Next]_vars
  PROVE  DiskInv'
<1> USE DEF DiskInv
<1>1. CASE Write
  <2>1. InodesInUse'
    BY <1>1 DEF InodesInUse, Write, tailVars
  <2>2. QED
    BY <1>1, <2>1, WriteKeepsRuns
<1>2. CASE Create
  <2>1. PICK i \in Available :
          /\ path' = i /\ wfd' = i /\ used' = used \union {i}
          /\ content' = [content EXCEPT ![i] = <<>>]
    BY <1>2 DEF Create
  <2>2. i \in Inodes
    BY AvailableInodes
  <2>3. FilesAreRuns'
    BY <1>2, <2>1, <2>2, FilesEmptied DEF Create
  <2>4. InodesInUse'
    BY <1>2, <2>1 DEF InodesInUse, Create, tailVars
  <2>5. QED
    BY <2>3, <2>4
<1>3. CASE Truncate
  <2>1. path \in Inodes /\ path = wfd
    BY <1>3 DEF Truncate, TypeOK, InodesInUse
  <2>2. FilesAreRuns'
    BY <1>3, <2>1, FilesEmptied DEF Truncate
  <2>3. InodesInUse'
    BY <1>3 DEF InodesInUse, Truncate, tailVars
  <2>4. QED
    BY <2>2, <2>3
<1>4. CASE UNCHANGED <<content, written, wfd, files>> /\ UNCHANGED used
           /\ (path' = path \/ path' = None)
           /\ (UNCHANGED <<file, inode>> \/ file' = None \/ (file' = path' /\ inode' = path'))
  BY <1>4 DEF InodesInUse, FilesAreRuns, Run
<1>5. CASE Rename \/ Unlink
  BY <1>4, <1>5 DEF Rename, Unlink, tailVars
<1>6. CASE Tick
  BY <1>4, <1>6
  DEF Tick, Stat, StatInode, ReadAvailable, Drain, Reopen, Rewind, ReadMore, diskVars
<1>7. CASE SkipToEOF
  BY <1>4, <1>7 DEF SkipToEOF, diskVars
<1>8. CASE UNCHANGED vars
  BY <1>4, <1>8 DEF vars, diskVars, tailVars
<1>9. QED
  BY <1>1, <1>2, <1>3, <1>5, <1>6, <1>7, <1>8 DEF Next, Environment

\* A new file at the path is not the one that the tailer has open.
LEMMA RotateStep ==
  ASSUME TypeOK, DiskInv, RotatesAway, [Next]_vars
  PROVE  RotatesAway'
<1> USE DEF DiskInv
<1>1. CASE Create
  <2>1. path' # file' /\ UNCHANGED <<pc, stat>>
    BY <1>1, AvailableInodes DEF Create, tailVars
  <2>2. QED
    BY <2>1 DEF RotatesAway
<1>2. CASE UNCHANGED <<pc, stat, file>> /\ (path' = path \/ path' = None)
  BY <1>2 DEF RotatesAway
<1>3. CASE Write \/ Rename \/ Unlink \/ Truncate
  BY <1>2, <1>3 DEF Write, Rename, Unlink, Truncate, tailVars
<1>4. CASE Stat
  <2>1. ~ NoStat.truncate
    BY DEF NoStat
  <2>2. stat'.rotate = (path = None) /\ stat'.truncate = FALSE
    BY <1>4 DEF Stat, NoStat
  <2>3. pc' = (IF path = None THEN "drain" ELSE "inode") /\ path' = path
    BY <1>4 DEF Stat, diskVars
  <2>4. QED
    BY <2>2, <2>3 DEF RotatesAway
<1>5. CASE StatInode
  <2>1. CASE path = None
    BY <1>5, <2>1 DEF StatInode, RotatesAway, NoStat
  <2>2. CASE path # None
    <3>1. pc' = "drain" /\ path' = path /\ file' = file
      BY <1>5, <2>2 DEF StatInode, diskVars
    <3>2. stat'.rotate = (path # inode) /\ (stat'.truncate => path = inode)
      BY <1>5, <2>2 DEF StatInode, TypeOK
    <3>3. path # inode => path # file
      BY <2>2 DEF InodesInUse
    <3>4. QED
      BY <3>1, <3>2, <3>3 DEF RotatesAway
  <2>3. QED
    BY <2>1, <2>2
<1>6. CASE ReadAvailable \/ SkipToEOF
  BY <1>2, <1>6 DEF ReadAvailable, SkipToEOF, diskVars
<1>7. ASSUME EndTick PROVE RotatesAway'
  BY <1>7 DEF EndTick, NoStat, RotatesAway
<1>8. CASE Drain
  BY <1>7, <1>8 DEF Drain, diskVars, RotatesAway
<1>9. CASE Reopen
  BY <1>7, <1>9 DEF Reopen, RotatesAway
<1>10. CASE Rewind
  BY <1>7, <1>10 DEF Rewind, RotatesAway
<1>11. CASE ReadMore
  BY <1>7, <1>11 DEF ReadMore
<1>12. CASE UNCHANGED vars
  BY <1>2, <1>12 DEF vars, diskVars, tailVars
<1>13. QED
  BY <1>1, <1>3, <1>4, <1>5, <1>6, <1>8, <1>9, <1>10, <1>11, <1>12
  DEF Next, Environment, Tick
-----------------------------------------------------------------------------
(* Texts: what a byte, a newline and a flush make of what was read.         *)

\* The positions of a text with one more line, which is the partial one.
LEMMA TextShape ==
  ASSUME NEW L \in Seq(Seq(Byte)), NEW s \in Seq(Byte)
  PROVE  LET T == Append(L, s)
         IN  /\ Len(L) \in Nat /\ Len(T) = Len(L) + 1
             /\ T[Len(L) + 1] = s
             /\ \A k \in 1 .. Len(L) : T[k] = L[k]
<1> DEFINE B == Seq(Byte)
<1>1. L \in Seq(B) /\ s \in B
  OBVIOUS
<1> HIDE DEF B
<1>2. QED
  BY <1>1

\* A byte that was written after everything read so far extends the last line.
LEMMA ByteExtends ==
  ASSUME NEW L \in Seq(Seq(Byte)), NEW s \in Seq(Byte), NEW b \in Byte,
         Ordered(Append(L, s)), AllBefore(Append(L, s), b.n)
  PROVE  /\ Ordered(Append(L, Append(s, b)))
         /\ \A n \in Nat : b.n < n => AllBefore(Append(L, Append(s, b)), n)
<1> DEFINE T == Append(L, s)
<1> DEFINE u == Append(s, b)
<1> DEFINE U == Append(L, u)
<1>1. u \in Seq(Byte)
  OBVIOUS
<1>2. Len(s) \in Nat /\ Len(u) = Len(s) + 1 /\ u[Len(s) + 1] = b
      /\ \A i \in 1 .. Len(s) : u[i] = s[i]
  OBVIOUS
<1>3. Len(L) \in Nat /\ Len(T) = Len(L) + 1 /\ T[Len(L) + 1] = s
      /\ \A k \in 1 .. Len(L) : T[k] = L[k]
  BY TextShape
<1>4. Len(U) = Len(L) + 1 /\ U[Len(L) + 1] = u
      /\ \A k \in 1 .. Len(L) : U[k] = L[k]
  BY <1>1, TextShape
<1> HIDE DEF T, u, U
<1>5. Ordered(T) /\ AllBefore(T, b.n)
  BY DEF T
<1> DEFINE Old(k, i) == k \in 1 .. Len(T) /\ i \in 1 .. Len(T[k]) /\ U[k][i] = T[k][i]
<1> DEFINE Last(k, i) == k = Len(L) + 1 /\ i = Len(s) + 1 /\ U[k][i] = b
<1>6. \A k \in 1 .. Len(U) : \A i \in 1 .. Len(U[k]) : Old(k, i) \/ Last(k, i)
  <2> SUFFICES ASSUME NEW k \in 1 .. Len(U), NEW i \in 1 .. Len(U[k])
               PROVE  Old(k, i) \/ Last(k, i)
    OBVIOUS
  <2>1. CASE k \in 1 .. Len(L)
    BY <1>3, <1>4, <2>1
  <2>2. CASE k = Len(L) + 1
    <3>1. U[k] = u /\ T[k] = s /\ k \in 1 .. Len(T)
      BY <1>3, <1>4, <2>2
    <3>2. i \in 1 .. Len(s) + 1
      BY <1>2, <3>1
    <3>3. CASE i \in 1 .. Len(s)
      BY <1>2, <3>1, <3>3
    <3>4. CASE i = Len(s) + 1
      BY <1>2, <2>2, <3>1, <3>4
    <3>5. QED
      BY <1>2, <3>2, <3>3, <3>4
  <2>3. QED
    BY <1>3, <1>4, <2>1, <2>2
<1>7. \A k \in 1 .. Len(T) : \A i \in 1 .. Len(T[k]) : T[k][i].n \in Nat
  <2> SUFFICES ASSUME NEW k \in 1 .. Len(T), NEW i \in 1 .. Len(T[k])
               PROVE  T[k][i].n \in Nat
    OBVIOUS
  <2>1. T[k] \in Seq(Byte)
    <3>1. CASE k \in 1 .. Len(L)
      <4> DEFINE B == Seq(Byte)
      <4>1. L \in Seq(B)
        OBVIOUS
      <4> HIDE DEF B
      <4>2. L[k] \in B
        BY <3>1, <4>1
      <4>3. QED
        BY <1>3, <3>1, <4>2 DEF B
    <3>2. CASE k = Len(L) + 1
      BY <1>3, <3>2
    <3>3. QED
      BY <1>3, <3>1, <3>2
  <2>2. T[k][i] \in Byte
    BY <2>1
  <2>3. QED
    BY <2>2 DEF Byte
<1>8. b.n \in Nat
  BY DEF Byte
<1>9. Ordered(U)
  <2> SUFFICES ASSUME NEW k \in 1 .. Len(U), NEW l \in k .. Len(U),
                      NEW i \in 1 .. Len(U[k]), NEW j \in 1 .. Len(U[l]),
                      k < l \/ i < j
               PROVE  U[k][i].n < U[l][j].n
    BY DEF Ordered
  <2>1. l \in 1 .. Len(U)
    BY <1>3, <1>4
  <2>2. (Old(k, i) \/ Last(k, i)) /\ (Old(l, j) \/ Last(l, j))
    BY <1>6, <2>1
  <2>3. CASE Old(k, i) /\ Old(l, j)
    <3>1. l \in k .. Len(T)
      BY <1>3, <2>3
    <3>2. QED
      BY <1>5, <2>3, <3>1 DEF Ordered
  <2>4. CASE Old(k, i) /\ Last(l, j)
    BY <1>5, <2>4 DEF AllBefore
  <2>5. CASE Last(k, i)
    <3>1. l = Len(L) + 1 /\ k = l
      BY <1>3, <1>4, <2>5
    <3>2. U[l] = u /\ Len(U[l]) = Len(s) + 1
      BY <1>2, <1>4, <3>1
    <3>3. FALSE
      BY <1>2, <2>5, <3>1, <3>2
    <3>4. QED
      BY <3>3
  <2>6. QED
    BY <2>2, <2>3, <2>4, <2>5
<1>10. ASSUME NEW n \in Nat, b.n < n PROVE AllBefore(U, n)
  <2> SUFFICES ASSUME NEW k \in 1 .. Len(U), NEW i \in 1 .. Len(U[k])
               PROVE  U[k][i].n < n
    BY DEF AllBefore
  <2>1. CASE Old(k, i)
    <3>1. T[k][i].n < b.n /\ T[k][i].n \in Nat
      BY <1>5, <1>7, <2>1 DEF AllBefore
    <3>2. T[k][i].n < n
      BY <1>8, <1>10, <3>1
    <3>3. QED
      BY <2>1, <3>2
  <2>2. CASE Last(k, i)
    BY <1>10, <2>2
  <2>3. QED
    BY <1>6, <2>1, <2>2
<1>11. QED
  BY <1>9, <1>10 DEF U, u

\* A text whose bytes are all in another one, at the same places, is ordered
\* if that one is.
LEMMA PartOfText ==
  ASSUME NEW T, NEW U, Len(T) \in Nat, Len(U) \in Nat,
         \A k \in 1 .. Len(U) : \A i \in 1 .. Len(U[k]) :
           k \in 1 .. Len(T) /\ i \in 1 .. Len(T[k]) /\ U[k][i] = T[k][i],
         Ordered(T)
  PROVE  Ordered(U)
<1> SUFFICES ASSUME NEW k \in 1 .. Len(U), NEW l \in k .. Len(U),
                    NEW i \in 1 .. Len(U[k]), NEW j \in 1 .. Len(U[l]),
                    k < l \/ i < j
             PROVE  U[k][i].n < U[l][j].n
  BY DEF Ordered
<1>1. l \in 1 .. Len(U)
  OBVIOUS
<1>2. k \in 1 .. Len(T) /\ i \in 1 .. Len(T[k]) /\ U[k][i] = T[k][i]
  OBVIOUS
<1>3. l \in 1 .. Len(T) /\ j \in 1 .. Len(T[l]) /\ U[l][j] = T[l][j]
  BY <1>1
<1>4. l \in k .. Len(T)
  BY <1>2, <1>3
<1>5. QED
  BY <1>2, <1>3, <1>4 DEF Ordered

\* A newline or a flush begins a new partial line, a catch-up drops the old
\* one; neither changes the order.
LEMMA LineEnds ==
  ASSUME NEW L \in Seq(Seq(Byte)), NEW s \in Seq(Byte)
  PROVE  LET T == Append(L, s)
             U == Append(T, <<>>)
             V == Append(L, <<>>)
         IN  /\ Ordered(T) => Ordered(U) /\ Ordered(V)
             /\ \A n : AllBefore(T, n) => AllBefore(U, n) /\ AllBefore(V, n)
<1> DEFINE T == Append(L, s)
<1> DEFINE U == Append(T, <<>>)
<1> DEFINE V == Append(L, <<>>)
<1>1. T \in Seq(Seq(Byte))
  <2> DEFINE B == Seq(Byte)
  <2>1. L \in Seq(B) /\ s \in B
    OBVIOUS
  <2> HIDE DEF B
  <2>2. Append(L, s) \in Seq(B)
    BY <2>1
  <2>3. QED
    BY <2>2 DEF B
<1>2. Len(L) \in Nat /\ Len(T) = Len(L) + 1 /\ T[Len(L) + 1] = s
      /\ \A k \in 1 .. Len(L) : T[k] = L[k]
  BY TextShape
<1>3. Len(U) = Len(T) + 1 /\ U[Len(T) + 1] = <<>>
      /\ \A k \in 1 .. Len(T) : U[k] = T[k]
  BY <1>1, NoBytes, TextShape
<1>4. Len(V) = Len(L) + 1 /\ V[Len(L) + 1] = <<>>
      /\ \A k \in 1 .. Len(L) : V[k] = L[k]
  BY NoBytes, TextShape
<1>5. Len(<<>>) = 0
  OBVIOUS
<1> HIDE DEF T, U, V
<1>6. \A k \in 1 .. Len(U) : \A i \in 1 .. Len(U[k]) :
        k \in 1 .. Len(T) /\ i \in 1 .. Len(T[k]) /\ U[k][i] = T[k][i]
  <2> SUFFICES ASSUME NEW k \in 1 .. Len(U), NEW i \in 1 .. Len(U[k])
               PROVE  k \in 1 .. Len(T) /\ i \in 1 .. Len(T[k]) /\ U[k][i] = T[k][i]
    OBVIOUS
  <2>1. k # Len(T) + 1
    BY <1>3, <1>5
  <2>2. QED
    BY <1>2, <1>3, <2>1
<1>7. \A k \in 1 .. Len(V) : \A i \in 1 .. Len(V[k]) :
        k \in 1 .. Len(T) /\ i \in 1 .. Len(T[k]) /\ V[k][i] = T[k][i]
  <2> SUFFICES ASSUME NEW k \in 1 .. Len(V), NEW i \in 1 .. Len(V[k])
               PROVE  k \in 1 .. Len(T) /\ i \in 1 .. Len(T[k]) /\ V[k][i] = T[k][i]
    OBVIOUS
  <2>1. k # Len(L) + 1
    BY <1>4, <1>5
  <2>2. k \in 1 .. Len(L)
    BY <1>2, <1>4, <2>1
  <2>3. V[k] = L[k] /\ T[k] = L[k] /\ k \in 1 .. Len(T)
    BY <1>2, <1>4, <2>2
  <2>4. QED
    BY <2>3
<1>8. Len(T) \in Nat /\ Len(U) \in Nat /\ Len(V) \in Nat
  BY <1>2, <1>3, <1>4
<1>9. Ordered(T) => Ordered(U)
  BY <1>6, <1>8, PartOfText
<1>10. Ordered(T) => Ordered(V)
  BY <1>7, <1>8, PartOfText
<1>11. \A n : AllBefore(T, n) => AllBefore(U, n) /\ AllBefore(V, n)
  BY <1>6, <1>7 DEF AllBefore
<1>12. QED
  BY <1>9, <1>10, <1>11 DEF T, U, V
-----------------------------------------------------------------------------
(* What a step does to the files and to the text.                           *)

\* A file that nobody truncates only grows, by the byte that is written, and
\* only the one that the writer has open does.
LEMMA FilesGrow ==
  ASSUME TypeOK, DiskInv, "truncate" \notin faults, [Next]_vars,
         NEW i \in Inodes, i = file \/ ~ Create
  PROVE  /\ Len(content[i]) \in Nat /\ Len(content'[i]) \in Nat
         /\ Len(content[i]) <= Len(content'[i])
         /\ \A k \in 1 .. Len(content[i]) : content'[i][k] = content[i][k]
         /\ \A k \in Len(content[i]) + 1 .. Len(content'[i]) :
              i = wfd /\ content'[i][k].n = written + 1
<1>1. content[i] \in Seq(Byte)
  BY DEF TypeOK
<1>2. CASE content'[i] = content[i]
  BY <1>1, <1>2
<1>3. CASE Write
  <2>1. PICK b \in Byte : /\ b.n = written + 1 /\ b.file = files
                          /\ content' = [content EXCEPT ![wfd] = Append(@, b)]
    BY <1>3, WriteAppends
  <2>2. CASE i # wfd
    BY <1>2, <2>1, <2>2 DEF TypeOK
  <2>3. CASE i = wfd
    <3>1. content'[i] = Append(content[i], b)
      BY <2>1, <2>3 DEF TypeOK
    <3>2. /\ Len(content[i]) \in Nat /\ Len(content'[i]) = Len(content[i]) + 1
          /\ content'[i][Len(content[i]) + 1] = b
          /\ \A k \in 1 .. Len(content[i]) : content'[i][k] = content[i][k]
      BY <1>1, <3>1
    <3>3. QED
      BY <2>1, <2>3, <3>2
  <2>4. QED
    BY <2>2, <2>3
<1>4. CASE Create
  <2>1. PICK e \in Available : content' = [content EXCEPT ![e] = <<>>]
    BY <1>4 DEF Create
  <2>2. e # i
    BY <1>4, AvailableInodes DEF DiskInv
  <2>3. QED
    BY <1>2, <2>1, <2>2 DEF TypeOK
<1>5. CASE UNCHANGED content
  BY <1>2, <1>5
<1>6. QED
  BY <1>3, <1>4, <1>5
  DEF Next, Environment, Tick, vars, Rename, Unlink, Truncate, Stat, StatInode,
      ReadAvailable, Drain, Reopen, Rewind, ReadMore, SkipToEOF, diskVars

\* The text after a newline or a flush, and after a catch-up.
LEMMA TextEnds ==
  ASSUME TypeOK,
         \/ lines' = Append(lines, buf) /\ buf' = <<>>
         \/ lines' = lines /\ buf' = <<>>
  PROVE  /\ Ordered(Text) => Ordered(Text')
         /\ \A n : AllBefore(Text, n) => AllBefore(Text', n)
<1>1. lines \in Seq(Seq(Byte)) /\ buf \in Seq(Byte)
  BY DEF TypeOK
<1>2. Text' = Append(Append(lines, buf), <<>>) \/ Text' = Append(lines, <<>>)
  BY DEF Text
<1>3. QED
  BY <1>1, <1>2, LineEnds DEF Text

LEMMA FlushText ==
  ASSUME TypeOK, Flush
  PROVE  /\ Ordered(Text) => Ordered(Text')
         /\ \A n : AllBefore(Text, n) => AllBefore(Text', n)
  BY TextEnds DEF Flush

\* The text after a byte is read, if that byte is younger than the text.
LEMMA ByteText ==
  ASSUME TypeOK, Readable, TakeByte,
         Ordered(Text), AllBefore(Text, content[file][pos + 1].n)
  PROVE  /\ Ordered(Text')
         /\ \A n \in Nat : content[file][pos + 1].n < n =>
              (AllBefore(Text, n) => AllBefore(Text', n))
<1> DEFINE b == content[file][pos + 1]
<1>1. lines \in Seq(Seq(Byte)) /\ buf \in Seq(Byte) /\ b \in Byte
  BY NextByte DEF TypeOK
<1>2. CASE b.nl
  <2>1. lines' = Append(lines, buf) /\ buf' = <<>>
    BY <1>2 DEF TakeByte
  <2>2. QED
    BY <2>1, TextEnds
<1>3. CASE ~ b.nl
  <2>1. lines' = lines /\ buf' = Append(buf, b)
    BY <1>3 DEF TakeByte
  <2>2. Text' = Append(lines, Append(buf, b))
    BY <2>1 DEF Text
  <2>3. Ordered(Append(lines, buf)) /\ AllBefore(Append(lines, buf), b.n)
    BY DEF Text
  <2> HIDE DEF b
  <2>4. /\ Ordered(Append(lines, Append(buf, b)))
        /\ \A n \in Nat : b.n < n => AllBefore(Append(lines, Append(buf, b)), n)
    BY <1>1, <2>3, ByteExtends
  <2>5. Ordered(Text')
    BY <2>2, <2>4
  <2>6. \A n \in Nat : b.n < n => AllBefore(Text', n)
    BY <2>2, <2>4
  <2>7. QED
    BY <2>5, <2>6 DEF b
<1>4. QED
  BY <1>2, <1>3
-----------------------------------------------------------------------------
(* What is read, step by step.                                              *)

LEMMA NeverRewindsStep ==
  ASSUME TypeOK, DiskInv, RotatesAway, NeverRewinds, "truncate" \notin faults, [Next]_vars
  PROVE  NeverRewinds'
<1> DEFINE Keep == file # None => Len(content[file]) <= Len(content'[file])
                                  /\ Len(content[file]) \in Nat /\ Len(content'[file]) \in Nat
<1>1. Keep
  BY FilesGrow DEF TypeOK
<1>2. pos \in Nat /\ stat \in StatResult
  BY DEF TypeOK, StatResult
<1> HIDE DEF Keep
<1>3. CASE /\ UNCHANGED <<file, pos, pc, stat>>
           /\ path' = path \/ path' = None \/ path' # file
  BY <1>1, <1>2, <1>3 DEF NeverRewinds, Keep
<1>4. CASE Write \/ Rename \/ Unlink
  BY <1>3, <1>4 DEF Write, Rename, Unlink, tailVars
<1>5. CASE Create
  <2>1. path' # file
    BY <1>5, AvailableInodes DEF Create, DiskInv
  <2>2. QED
    BY <1>3, <1>5, <2>1 DEF Create, tailVars
<1>6. CASE Stat
  <2>1. stat'.size = (IF path = None THEN 0 ELSE Len(content[path])) /\ ~ stat'.truncate
        /\ pc' = (IF path = None THEN "drain" ELSE "inode")
    BY <1>6 DEF Stat, NoStat
  <2>2. UNCHANGED <<content, path, file, pos>>
    BY <1>6 DEF Stat, diskVars
  <2>3. pc' = "inode" /\ file # None /\ path = file => pos <= stat'.size
    BY <2>1 DEF NeverRewinds
  <2>4. QED
    BY <2>1, <2>2, <2>3 DEF NeverRewinds
<1>7. CASE StatInode
  <2>1. pc' # "inode" /\ UNCHANGED <<content, path, file, pos>>
    BY <1>7 DEF StatInode, diskVars
  <2>2. ASSUME file # None PROVE ~ stat'.truncate
    <3>1. CASE path = None
      BY <1>7, <3>1 DEF StatInode, NoStat
    <3>2. CASE path # None
      <4>1. stat'.truncate => path = inode /\ stat.size < pos
        BY <1>7, <3>2 DEF StatInode, TypeOK
      <4>2. file = inode
        BY <2>2 DEF DiskInv, InodesInUse
      <4>3. path = file => pos <= stat.size
        BY <1>7, <2>2 DEF StatInode, NeverRewinds
      <4>4. stat.size \in Nat
        BY <1>2 DEF StatResult
      <4>5. QED
        BY <1>2, <4>1, <4>2, <4>3, <4>4
    <3>3. QED
      BY <3>1, <3>2
  <2>3. QED
    BY <2>1, <2>2 DEF NeverRewinds
<1>8. CASE ReadAvailable
  <2>1. pos' = pos + 1 /\ pos + 1 <= Len(content[file])
    BY <1>8, NextByte DEF ReadAvailable, TakeByte
  <2>2. QED
    BY <1>8, <2>1 DEF ReadAvailable, NeverRewinds, diskVars
<1>9. ASSUME EndTick, UNCHANGED <<content, path, file, pos>> PROVE NeverRewinds'
  BY <1>9 DEF EndTick, NoStat, NeverRewinds
<1>10. CASE Drain
  BY <1>9, <1>10 DEF Drain, NeverRewinds, diskVars
<1>11. CASE Reopen
  <2>1. CASE stat.err \/ path = None
    BY <1>11, <2>1 DEF Reopen, EndTick, NeverRewinds
  <2>2. CASE ~ (stat.err \/ path = None)
    <3>1. file' = path /\ pos' = 0 /\ pc' = "more" /\ stat' = stat
          /\ UNCHANGED <<content, path>> /\ stat.rotate
      BY <1>11, <2>2 DEF Reopen, diskVars
    <3>2. Len(content[path]) \in Nat
      BY <2>2 DEF TypeOK
    <3>3. QED
      BY <3>1, <3>2 DEF NeverRewinds, RotatesAway
  <2>3. QED
    BY <2>1, <2>2
<1>12. CASE Rewind
  <2>1. file = None
    BY <1>12 DEF Rewind, NeverRewinds
  <2>2. QED
    BY <1>12, <2>1 DEF Rewind, EndTick, NeverRewinds
<1>13. CASE ReadMore
  BY <1>9, <1>13 DEF ReadMore, diskVars
<1>14. CASE SkipToEOF
  <2>1. pos' = Len(content[file]) /\ Len(content[file]) \in Nat
        /\ pc' = "idle" /\ UNCHANGED <<content, path, file, stat>>
    BY <1>14 DEF SkipToEOF, TypeOK, diskVars
  <2>2. QED
    BY <2>1 DEF NeverRewinds
<1>15. CASE UNCHANGED vars
  BY <1>3, <1>15 DEF vars, diskVars, tailVars
<1>16. QED
  BY <1>4, <1>5, <1>6, <1>7, <1>8, <1>10, <1>11, <1>12, <1>13, <1>14, <1>15
  DEF Next, Environment, Tick, Truncate

LEMMA OrderedStep ==
  ASSUME TypeOK, ReadInv, [Next]_vars
  PROVE  Ordered(Text')
<1>1. Ordered(Text)
  BY DEF ReadInv
<1>2. CASE UNCHANGED <<lines, buf>>
  BY <1>1, <1>2 DEF Text
<1>3. CASE Reopen \/ Rewind
  BY <1>1, <1>3, FlushText DEF Reopen, Rewind
<1>4. CASE ReadAvailable
  <2>1. Readable /\ TakeByte
    BY <1>4 DEF ReadAvailable
  <2>2. file # None /\ pos + 1 \in pos + 1 .. Len(content[file])
    BY <2>1, NextByte DEF Readable, TypeOK
  <2>3. AllBefore(Text, content[file][pos + 1].n)
    BY <2>2 DEF ReadInv, BehindThePath
  <2>4. QED
    BY <1>1, <2>1, <2>3, ByteText
<1>5. CASE SkipToEOF
  BY <1>1, <1>5, TextEnds DEF SkipToEOF
<1>6. QED
  BY <1>2, <1>3, <1>4, <1>5
  DEF Next, Environment, Tick, vars, tailVars, Write, Rename, Unlink, Create, Truncate,
      Stat, StatInode, Drain, ReadMore

LEMMA LaterByte ==
  ASSUME TypeOK, NEW n \in Nat, NEW m \in Nat, n <= m, AllBefore(Text, n)
  PROVE  AllBefore(Text, m)
<1> SUFFICES ASSUME NEW k \in 1 .. Len(Text), NEW i \in 1 .. Len(Text[k])
             PROVE  Text[k][i].n < m
  BY DEF AllBefore
<1> DEFINE B == Seq(Byte)
<1>1. Text \in Seq(B)
  BY FlushTypes DEF Text
<1> HIDE DEF B
<1>2. Text[k] \in B
  BY <1>1
<1>3. Text[k][i] \in Byte
  BY <1>2 DEF B
<1>4. Text[k][i].n \in Nat /\ Text[k][i].n < n
  BY <1>3 DEF Byte, AllBefore
<1>5. QED
  BY <1>4

\* Where the bytes of a file stand in the order of writing.
LEMMA BytesOfFile ==
  ASSUME TypeOK, DiskInv, NEW i \in Inodes
  PROVE  /\ Len(content[i]) \in Nat
         /\ \A k \in 1 .. Len(content[i]) :
              /\ content[i][k] \in Byte /\ content[i][k].n \in Nat
              /\ content[i][k].n <= written
              /\ content[i][k].n = content[i][1].n + (k - 1)
              /\ content[i][k].file = content[i][1].file
<1>1. content[i] \in Seq(Byte)
  BY DEF TypeOK
<1>2. \A k \in 1 .. Len(content[i]) : content[i][k] \in Byte
  BY <1>1
<1>3. \A k \in 1 .. Len(content[i]) : content[i][k].n \in Nat
  BY <1>2 DEF Byte
<1>4. QED
  BY <1>1, <1>2, <1>3 DEF DiskInv, FilesAreRuns, Run

LEMMA WriteBehind ==
  ASSUME TypeOK, DiskInv, BehindThePath, "truncate" \notin faults, Write
  PROVE  BehindThePath'
<1>1. UNCHANGED <<path, file, pos, lines, buf>> /\ written' = written + 1
      /\ written \in Nat /\ pos \in Nat
  BY DEF Write, tailVars, TypeOK
<1>2. Text' = Text
  BY <1>1 DEF Text
<1>3. AllBefore(Text, written + 1)
  BY DEF BehindThePath
<1>4. AllBefore(Text', written' + 1)
  BY <1>1, <1>2, <1>3, LaterByte
<1>5. [Next]_vars /\ ~ Create
  <2>1. files' = files /\ files \in Nat
    BY DEF Write, TypeOK
  <2>2. QED
    BY <2>1 DEF Next, Environment, Create
<1>6. ASSUME file # None, NEW k \in pos + 1 .. Len(content'[file])
      PROVE  AllBefore(Text, content'[file][k].n)
  <2>1. file \in Inodes
    BY <1>6 DEF TypeOK
  <2>2. /\ Len(content[file]) \in Nat /\ Len(content'[file]) \in Nat
        /\ \A l \in 1 .. Len(content[file]) : content'[file][l] = content[file][l]
        /\ \A l \in Len(content[file]) + 1 .. Len(content'[file]) :
             content'[file][l].n = written + 1
    BY <1>5, <2>1, FilesGrow
  <2>3. CASE k <= Len(content[file])
    <3>1. k \in pos + 1 .. Len(content[file]) /\ k \in 1 .. Len(content[file])
      BY <1>1, <2>2, <2>3
    <3>2. QED
      BY <1>6, <2>2, <3>1 DEF BehindThePath
  <2>4. CASE k > Len(content[file])
    BY <1>1, <1>3, <2>2, <2>4
  <2>5. QED
    BY <2>2, <2>3, <2>4
<1>7. ASSUME path # None, path # file, NEW k \in 1 .. Len(content'[path])
      PROVE  /\ AllBefore(Text, content'[path][k].n)
             /\ file # None =>
                  \A l \in 1 .. Len(content'[file]) : content'[file][l].n < content'[path][k].n
  <2>1. path \in Inodes /\ wfd = path
    BY <1>7 DEF TypeOK, DiskInv, InodesInUse
  <2>2. /\ Len(content[path]) \in Nat /\ Len(content'[path]) \in Nat
        /\ \A l \in 1 .. Len(content[path]) : content'[path][l] = content[path][l]
        /\ \A l \in Len(content[path]) + 1 .. Len(content'[path]) :
             content'[path][l].n = written + 1
    BY <1>5, <2>1, FilesGrow
  <2>3. file # None => content'[file] = content[file]
    BY <1>7, <2>1 DEF Write, TypeOK
  <2>4. CASE k <= Len(content[path])
    <3>1. k \in 1 .. Len(content[path])
      BY <2>2, <2>4
    <3>2. QED
      BY <1>7, <2>2, <2>3, <3>1 DEF BehindThePath
  <2>5. CASE k > Len(content[path])
    <3>1. content'[path][k].n = written + 1
      BY <2>2, <2>5
    <3>2. ASSUME file # None, NEW l \in 1 .. Len(content[file])
          PROVE  content[file][l].n < written + 1
      <4>1. content[file][l].n \in Nat /\ content[file][l].n <= written
        BY <3>2, BytesOfFile DEF TypeOK
      <4>2. QED
        BY <1>1, <4>1
    <3>3. QED
      BY <1>3, <2>3, <3>1, <3>2
  <2>6. QED
    BY <2>2, <2>4, <2>5
<1>8. QED
  BY <1>1, <1>2, <1>4, <1>6, <1>7 DEF BehindThePath

LEMMA CreateBehind ==
  ASSUME TypeOK, DiskInv, BehindThePath, Create
  PROVE  BehindThePath'
<1>1. PICK i \in Available :
        path' = i /\ content' = [content EXCEPT ![i] = <<>>]
  BY DEF Create
<1>2. i \in Inodes /\ i # file
  BY AvailableInodes DEF DiskInv
<1>3. content'[path'] = <<>>
  BY <1>1, <1>2 DEF TypeOK
<1>4. file # None => content'[file] = content[file]
  BY <1>1, <1>2 DEF TypeOK
<1>5. UNCHANGED <<file, pos, lines, buf, written>> /\ Text' = Text
  BY DEF Create, tailVars, Text
<1>6. QED
  BY <1>3, <1>4, <1>5 DEF BehindThePath

LEMMA ReadBehind ==
  ASSUME TypeOK, DiskInv, ReadInv, ReadAvailable
  PROVE  BehindThePath'
<1> DEFINE b == content[file][pos + 1]
<1>1. Readable /\ TakeByte /\ UNCHANGED <<content, path, file, written>>
  BY DEF ReadAvailable, diskVars
<1>2. pos' = pos + 1 /\ pos \in Nat /\ written \in Nat
  BY <1>1 DEF TakeByte, TypeOK
<1>3. file \in Inodes /\ file # None /\ pos + 1 \in 1 .. Len(content[file])
  BY <1>1, NextByte DEF Readable
<1>4. /\ Len(content[file]) \in Nat
      /\ \A k \in 1 .. Len(content[file]) :
           /\ content[file][k].n \in Nat
           /\ content[file][k].n = content[file][1].n + (k - 1)
  BY <1>3, BytesOfFile
<1>5. b.n \in Nat /\ b.n <= written
  BY <1>3, BytesOfFile
<1>6. pos + 1 \in pos + 1 .. Len(content[file])
  BY <1>2, <1>3
<1>7. BehindThePath /\ Ordered(Text)
  BY DEF ReadInv
<1>8. AllBefore(Text, b.n)
  BY <1>3, <1>6, <1>7 DEF BehindThePath
<1>9. \A n \in Nat : b.n < n => (AllBefore(Text, n) => AllBefore(Text', n))
  BY <1>1, <1>7, <1>8, ByteText
<1> HIDE DEF b
<1>10. AllBefore(Text', written + 1)
  <2>1. written + 1 \in Nat /\ b.n < written + 1
    BY <1>2, <1>5
  <2>2. QED
    BY <1>7, <1>9, <2>1 DEF BehindThePath
<1>11. ASSUME NEW k \in pos' + 1 .. Len(content[file])
       PROVE  AllBefore(Text', content[file][k].n)
  <2>1. k \in 1 .. Len(content[file]) /\ k \in pos + 1 .. Len(content[file])
        /\ k > pos + 1
    BY <1>2, <1>4
  <2>2. content[file][k].n = content[file][1].n + (k - 1) /\ content[file][k].n \in Nat
        /\ b.n = content[file][1].n + pos
    BY <1>2, <1>3, <1>4, <2>1 DEF b
  <2>3. content[file][1].n \in Nat
    BY <1>2, <1>3, <1>4
  <2>4. b.n < content[file][k].n
    BY <1>2, <2>1, <2>2, <2>3
  <2>5. AllBefore(Text, content[file][k].n)
    BY <1>3, <1>7, <2>1 DEF BehindThePath
  <2>6. QED
    BY <1>9, <2>2, <2>4, <2>5
<1>12. ASSUME path # None, path # file, NEW k \in 1 .. Len(content[path])
       PROVE  /\ AllBefore(Text', content[path][k].n)
              /\ \A l \in 1 .. Len(content[file]) : content[file][l].n < content[path][k].n
  <2>1. path \in Inodes
    BY <1>12 DEF TypeOK
  <2>2. content[path][k].n \in Nat
    BY <2>1, BytesOfFile
  <2>3. /\ AllBefore(Text, content[path][k].n)
        /\ \A l \in 1 .. Len(content[file]) : content[file][l].n < content[path][k].n
    BY <1>3, <1>7, <1>12 DEF BehindThePath
  <2>4. b.n < content[path][k].n
    BY <1>3, <2>3 DEF b
  <2>5. QED
    BY <1>9, <2>2, <2>3, <2>4
<1>13. QED
  BY <1>1, <1>10, <1>11, <1>12 DEF BehindThePath

LEMMA BehindThePathStep ==
  ASSUME TypeOK, DiskInv, RotatesAway, ReadInv, "truncate" \notin faults, [Next]_vars
  PROVE  BehindThePath'
<1>1. BehindThePath
  BY DEF ReadInv
<1>2. CASE UNCHANGED <<content, file, pos, lines, buf, written>>
           /\ (path' = path \/ path' = None)
  <2>1. Text' = Text
    BY <1>2 DEF Text
  <2>2. QED
    BY <1>1, <1>2, <2>1 DEF BehindThePath
<1>3. CASE Reopen
  <2>1. \A n : AllBefore(Text, n) => AllBefore(Text', n)
    BY <1>3, FlushText DEF Reopen
  <2>2. UNCHANGED <<content, path, written>>
    BY <1>3 DEF Reopen, diskVars
  <2>3. path # None => path # file
    BY <1>3 DEF Reopen, RotatesAway
  <2>4. path # None => \A k \in 1 .. Len(content[path]) : AllBefore(Text', content[path][k].n)
    BY <1>1, <2>1, <2>3 DEF BehindThePath
  <2>5. CASE stat.err \/ path = None
    <3>1. file' = None
      BY <1>3, <2>5 DEF Reopen
    <3>2. QED
      BY <1>1, <2>1, <2>2, <2>4, <3>1 DEF BehindThePath
  <2>6. CASE ~ (stat.err \/ path = None)
    <3>1. file' = path /\ pos' = 0
      BY <1>3, <2>6 DEF Reopen
    <3>2. QED
      BY <1>1, <2>1, <2>2, <2>4, <2>6, <3>1 DEF BehindThePath
  <2>7. QED
    BY <2>5, <2>6
<1>4. CASE Rewind
  <2>1. \A n : AllBefore(Text, n) => AllBefore(Text', n)
    BY <1>4, FlushText DEF Rewind
  <2>2. file = None
    BY <1>4 DEF Rewind, ReadInv, NeverRewinds
  <2>3. UNCHANGED <<content, path, file, written>>
    BY <1>4 DEF Rewind, diskVars
  <2>4. QED
    BY <1>1, <2>1, <2>2, <2>3 DEF BehindThePath
<1>5. CASE SkipToEOF
  <2>1. \A n : AllBefore(Text, n) => AllBefore(Text', n)
    BY <1>5, TextEnds DEF SkipToEOF
  <2>2. UNCHANGED <<content, path, file, written>> /\ pos' = Len(content[file])
        /\ Len(content[file]) \in Nat
    BY <1>5 DEF SkipToEOF, diskVars, TypeOK
  <2>3. pos' + 1 .. Len(content[file]) = {}
    BY <2>2
  <2>4. QED
    BY <1>1, <2>1, <2>2, <2>3 DEF BehindThePath
<1>6. QED
  BY <1>1, <1>2, <1>3, <1>4, <1>5, WriteBehind, CreateBehind, ReadBehind
  DEF Next, Environment, Tick, vars, diskVars, tailVars, Rename, Unlink, Truncate, Stat,
      StatInode, Drain, ReadMore

LEMMA LinesAreRunsStep ==
  ASSUME TypeOK, DiskInv, RotatesAway, ReadInv, "truncate" \notin faults, [Next]_vars
  PROVE  LinesAreRuns'
<1>1. LinesAreRuns
  BY DEF ReadInv
<1>2. lines \in Seq(Seq(Byte)) /\ buf \in Seq(Byte) /\ pos \in Nat
  BY DEF TypeOK
<1>3. Run(<<>>)
  BY DEF Run
<1>4. \A k \in 1 .. Len(Append(lines, buf)) : Run(Append(lines, buf)[k])
  <2>1. /\ Len(lines) \in Nat /\ Len(Append(lines, buf)) = Len(lines) + 1
        /\ Append(lines, buf)[Len(lines) + 1] = buf
        /\ \A k \in 1 .. Len(lines) : Append(lines, buf)[k] = lines[k]
    BY <1>2, TextShape
  <2> DEFINE T == Append(lines, buf)
  <2> HIDE DEF T
  <2>2. \A k \in 1 .. Len(T) : Run(T[k])
    <3> SUFFICES ASSUME NEW k \in 1 .. Len(T) PROVE Run(T[k])
      OBVIOUS
    <3>1. CASE k = Len(lines) + 1
      BY <1>1, <2>1, <3>1 DEF LinesAreRuns, T
    <3>2. CASE k \in 1 .. Len(lines)
      BY <1>1, <2>1, <3>2 DEF LinesAreRuns, T
    <3>3. QED
      BY <2>1, <3>1, <3>2 DEF T
  <2>3. QED
    BY <2>2 DEF T
<1>5. CASE UNCHANGED <<lines, buf, file, pos>>
  <2>1. file # None =>
          /\ Len(content[file]) <= Len(content'[file])
          /\ Len(content[file]) \in Nat /\ Len(content'[file]) \in Nat
          /\ \A k \in 1 .. Len(content[file]) : content'[file][k] = content[file][k]
    BY FilesGrow DEF TypeOK
  <2>2. buf # <<>> => pos \in 1 .. Len(content'[file]) /\ content'[file][pos] = content[file][pos]
    BY <1>1, <1>2, <2>1 DEF LinesAreRuns
  <2>3. QED
    BY <1>1, <1>5, <2>2 DEF LinesAreRuns, Run
<1>6. ASSUME buf' = <<>>, lines' = lines \/ lines' = Append(lines, buf)
      PROVE  LinesAreRuns'
  <2>1. \A k \in 1 .. Len(lines') : Run(lines'[k])
    BY <1>1, <1>4, <1>6 DEF LinesAreRuns
  <2>2. QED
    BY <1>3, <1>6, <2>1 DEF LinesAreRuns, Run
<1>7. CASE Reopen \/ Rewind
  BY <1>6, <1>7 DEF Reopen, Rewind, Flush
<1>8. CASE SkipToEOF
  BY <1>6, <1>8 DEF SkipToEOF
<1>9. CASE ReadAvailable
  <2> DEFINE b == content[file][pos + 1]
  <2>1. Readable /\ TakeByte /\ UNCHANGED <<content, file>>
    BY <1>9 DEF ReadAvailable, diskVars
  <2>2. CASE b.nl
    BY <1>6, <2>1, <2>2 DEF TakeByte
  <2>3. CASE ~ b.nl
    <3>1. lines' = lines /\ buf' = Append(buf, b) /\ pos' = pos + 1
      BY <2>1, <2>3 DEF TakeByte
    <3>2. file \in Inodes /\ file # None /\ pos + 1 \in 1 .. Len(content[file]) /\ b \in Byte
      BY <2>1, NextByte DEF Readable
    <3>3. \A k \in 1 .. Len(content[file]) :
            /\ content[file][k].n \in Nat
            /\ content[file][k].n = content[file][1].n + (k - 1)
            /\ content[file][k].file = content[file][1].file
      BY <3>2, BytesOfFile
    <3>4. b.n = content[file][1].n + pos /\ b.file = content[file][1].file
      BY <1>2, <3>2, <3>3
    <3>5. content[file][1].n \in Nat
      BY <1>2, <3>2, <3>3
    <3> HIDE DEF b
    <3>6. ASSUME buf # <<>>
          PROVE  b.n = buf[1].n + Len(buf) /\ b.file = buf[1].file
      <4>1. Len(buf) \in Nat /\ Len(buf) >= 1 /\ buf[1] \in Byte
        BY <1>2, <3>6
      <4>2. pos \in 1 .. Len(content[file]) /\ buf[Len(buf)] = content[file][pos]
        BY <1>1, <3>6 DEF LinesAreRuns
      <4>3. buf[Len(buf)].n = content[file][1].n + (pos - 1)
            /\ buf[Len(buf)].file = content[file][1].file
        BY <3>3, <4>2
      <4>4. buf[Len(buf)].n = buf[1].n + (Len(buf) - 1) /\ buf[Len(buf)].file = buf[1].file
        BY <1>1, <4>1 DEF LinesAreRuns, Run
      <4>5. buf[1].n \in Nat
        BY <4>1 DEF Byte
      <4>6. pos \in Nat
        BY <1>2
      <4>7. content[file][1].n + (pos - 1) = buf[1].n + (Len(buf) - 1)
            /\ content[file][1].file = buf[1].file
        BY <4>3, <4>4
      <4> DEFINE c == content[file][1].n
      <4> DEFINE f == buf[1].n
      <4> DEFINE m == Len(buf)
      <4>8. c \in Nat /\ f \in Nat /\ m \in Nat /\ b.n = c + pos /\ c + (pos - 1) = f + (m - 1)
        BY <3>4, <3>5, <4>1, <4>5, <4>7
      <4> HIDE DEF c, f, m
      <4>9. b.n = f + m
        BY <4>6, <4>8
      <4>10. QED
        BY <3>4, <4>7, <4>9 DEF f, m
    <3>7. Run(buf')
      BY <1>1, <1>2, <3>1, <3>2, <3>6, RunGrows DEF LinesAreRuns
    <3>8. buf'[Len(buf')] = b
      BY <1>2, <3>1
    <3>9. QED
      BY <1>1, <2>1, <3>1, <3>2, <3>7, <3>8 DEF LinesAreRuns, Run, b
  <2>4. QED
    BY <2>2, <2>3
<1>10. QED
  BY <1>5, <1>7, <1>8, <1>9
  DEF Next, Environment, Tick, vars, tailVars, Write, Rename, Unlink, Create, Truncate,
      Stat, StatInode, Drain, ReadMore
-----------------------------------------------------------------------------
LEMMA ReadInit == Init => ReadInv
<1> SUFFICES ASSUME Init PROVE ReadInv
  OBVIOUS
<1>1. lines = <<>> /\ buf = <<>> /\ path = file /\ pc = "idle" /\ stat = NoStat
  BY DEF Init
<1>2. Text = << <<>> >>
  BY <1>1 DEF Text
<1>3. Len(Text) = 1 /\ Text[1] = <<>> /\ Len(Text[1]) = 0
  BY <1>2
<1>4. Ordered(Text)
  BY <1>3 DEF Ordered
<1>5. \A n : AllBefore(Text, n)
  BY <1>3 DEF AllBefore
<1>6. BehindThePath
  BY <1>1, <1>5 DEF BehindThePath
<1>7. LinesAreRuns
  BY <1>1 DEF LinesAreRuns, Run
<1>8. pos <= Len(content[file])
  <2> DEFINE b == [n |-> 1, file |-> 1, nl |-> FALSE]
  <2>1. PICK half \in BOOLEAN, fromStart \in BOOLEAN :
          /\ content = [i \in Inodes |-> IF i = path /\ half THEN <<b>> ELSE <<>>]
          /\ pos = (IF half /\ ~ fromStart THEN 1 ELSE 0)
    BY DEF Init
  <2> HIDE DEF b
  <2>2. file \in Inodes /\ path = file
    BY FaultAssumption DEF Init
  <2>3. Len(<<b>>) = 1 /\ Len(<<>>) = 0
    OBVIOUS
  <2>4. CASE half
    <3>1. content[file] = <<b>> /\ pos \in {0, 1}
      BY <2>1, <2>2, <2>4
    <3>2. QED
      BY <2>3, <3>1
  <2>5. CASE ~ half
    <3>1. content[file] = <<>> /\ pos = 0
      BY <2>1, <2>2, <2>5
    <3>2. QED
      BY <2>3, <3>1
  <2>6. QED
    BY <2>4, <2>5
<1>9. NeverRewinds
  BY <1>1, <1>8 DEF NeverRewinds, NoStat
<1>10. QED
  BY <1>4, <1>6, <1>7, <1>9 DEF ReadInv

LEMMA TailInvStep == TailInv /\ [Next]_vars => TailInv'
<1> SUFFICES ASSUME TailInv, [Next]_vars PROVE TailInv'
  OBVIOUS
<1>1. TypeOK /\ DiskInv /\ RotatesAway
  BY DEF TailInv
<1>2. TypeOK'
  BY <1>1, TypeStep DEF DiskInv
<1>3. DiskInv' /\ RotatesAway'
  BY <1>1, DiskStep, RotateStep
<1>4. faults' = faults
  BY DEF faults, Next, Environment, Tick, vars, diskVars, Write, Rename, Unlink, Create,
         Truncate, Stat, StatInode, ReadAvailable, Drain, Reopen, Rewind, ReadMore,
         SkipToEOF
<1>5. ASSUME "truncate" \notin faults PROVE ReadInv'
  <2>1. ReadInv
    BY <1>5 DEF TailInv
  <2>2. NeverRewinds'
    BY <1>1, <1>5, <2>1, NeverRewindsStep DEF ReadInv
  <2>3. BehindThePath' /\ Ordered(Text') /\ LinesAreRuns'
    BY <1>1, <1>5, <2>1, BehindThePathStep, OrderedStep, LinesAreRunsStep
  <2>4. QED
    BY <2>2, <2>3 DEF ReadInv, Ordered
<1>6. QED
  BY <1>2, <1>3, <1>4, <1>5 DEF TailInv

LEMMA TailInvariant == Spec => []TailInv
<1>1. Init => TailInv
  BY TypeInit, DiskInit, ReadInit DEF TailInv
<1>2. QED
  BY <1>1, TailInvStep, PTL DEF Spec

\* Type correctness of the tailer and of the file system under it.
THEOREM TailTypeCorrect == Spec => []TypeOK
<1>1. TailInv => TypeOK
  BY DEF TailInv
<1>2. QED
  BY <1>1, TailInvariant, PTL

\* For every log that nobody truncates in place, however often it is renamed,
\* removed or skipped between any two system calls of a tick, and whichever
\* inode number a new file gets: no byte is returned twice or out of order.
THEOREM ReadsOnceInOrder == Spec => []ReadOnceInOrder
<1>1. TailInv => ReadOnceInOrder
  BY DEF TailInv, ReadInv, Ordered, ReadOnceInOrder
<1>2. QED
  BY <1>1, TailInvariant, PTL

\* For the same logs: every line returned is a run of consecutive bytes of one
\* file, so that neither a rotation nor a catch-up joins two of them.
THEOREM LinesAreNeverJoined == Spec => []LinesAreNotJoined
<1>1. ASSUME TailInv, "truncate" \notin faults,
             NEW k \in 1 .. Len(lines), NEW j \in 1 .. Len(lines[k]) - 1
      PROVE  /\ lines[k][j + 1].n = lines[k][j].n + 1
             /\ lines[k][j + 1].file = lines[k][j].file
  <2> DEFINE B == Seq(Byte)
  <2>1. lines \in Seq(B)
    BY <1>1 DEF TailInv, TypeOK
  <2> HIDE DEF B
  <2>2. lines[k] \in B
    BY <2>1
  <2> DEFINE s == lines[k]
  <2>3. s \in Seq(Byte)
    BY <2>2 DEF B
  <2>4. Run(s)
    BY <1>1 DEF TailInv, ReadInv, LinesAreRuns
  <2> HIDE DEF s
  <2>5. Len(s) \in Nat /\ j \in 1 .. Len(s) - 1
    BY <2>3 DEF s
  <2>6. j \in 1 .. Len(s) /\ j + 1 \in 1 .. Len(s) /\ 1 \in 1 .. Len(s)
    BY <2>5
  <2>7. s[1] \in Byte
    BY <2>3, <2>6
  <2>8. s[1].n \in Nat
    BY <2>7 DEF Byte
  <2>9. s[j].n = s[1].n + (j - 1) /\ s[j + 1].n = s[1].n + ((j + 1) - 1)
        /\ s[j].file = s[1].file /\ s[j + 1].file = s[1].file
    BY <2>4, <2>6 DEF Run
  <2>10. QED
    BY <2>5, <2>8, <2>9 DEF s
<1>2. TailInv => LinesAreNotJoined
  BY <1>1 DEF LinesAreNotJoined
<1>3. QED
  BY <1>2, TailInvariant, PTL
=============================================================================
