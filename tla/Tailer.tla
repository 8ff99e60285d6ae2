------------------------------- MODULE Tailer -------------------------------
(***************************************************************************)
(* internal/watch/tailer.go: one Tailer following one path, and the file   *)
(* system under it.                                                        *)
(*                                                                         *)
(* Tick is a sequence of system calls (stat, stat for the inode, reads up  *)
(* to EOF, close and open, reads again); the writer of the log, and        *)
(* whoever rotates it, act between any two of them.  A byte is its number  *)
(* in the order written, the file it was written to (the first, second...  *)
(* at the path) and a flag for newline, so that a line that was read says  *)
(* which bytes it came from.  The \r of CRLF logs is data.       *)
(***************************************************************************)
EXTENDS Integers, Sequences

CONSTANTS
  Inodes,     \* inode numbers of the file system
  None,       \* no such file, or no open descriptor
  Scenarios,  \* what happens to the log: faults, see FaultKinds, and the
              \* bound on the files created at the path
  MaxBytes    \* bound on the bytes the writer writes

FaultKinds ==
  {"rename",     \* the file is moved aside; its writer keeps writing to it
   "remove",     \* the file is unlinked
   "reuse",      \* a new file may get the inode number of a freed one
   "truncate",   \* the file is truncated in place (copytruncate)
   "skip"}       \* the user asks for a catch-up (Watcher.SkipToEOF)

ASSUME FaultAssumption ==
  /\ Scenarios \subseteq [faults : SUBSET FaultKinds, files : Nat]
  /\ Inodes # {} /\ None \notin Inodes

VARIABLES
  scenario,  \* what this log is exposed to
  content,   \* bytes of each inode
  path,      \* inode at the path, or None
  aside,     \* inode the last rename moved away, or None
  wfd,       \* inode the writer has open
  used,      \* inode numbers given out so far
  written,   \* bytes written so far
  files,     \* files created so far
  \* The tailer:
  file,      \* its open descriptor: an inode, or None
  inode,     \* t.inode
  pos,       \* t.pos, which is also the descriptor's offset
  buf,       \* partial line
  pc, stat,  \* progress of Tick, and what its stats returned
  lines      \* every line returned so far

diskVars == <<scenario, content, path, aside, wfd, used, written, files>>
tailVars == <<file, inode, pos, buf, pc, stat, lines>>
vars == <<diskVars, tailVars>>

faults == scenario.faults

Byte == [n : Nat, file : Nat, nl : BOOLEAN]
NoStat == [err |-> TRUE, size |-> 0, rotate |-> FALSE, truncate |-> FALSE]

-----------------------------------------------------------------------------
(* The file system and the writer.                                          *)

\* One byte reaches the file the writer has open, wherever that file is now.
Write ==
  /\ written < MaxBytes
  /\ \E nl \in BOOLEAN :
       content' = [content EXCEPT ![wfd] =
                     Append(@, [n |-> written + 1, file |-> files, nl |-> nl])]
  /\ written' = written + 1
  /\ UNCHANGED <<scenario, path, aside, wfd, used, files, tailVars>>

Rename ==
  /\ "rename" \in faults
  /\ path # None
  /\ aside' = path
  /\ path' = None
  /\ UNCHANGED <<scenario, content, wfd, used, written, files, tailVars>>

Unlink ==
  /\ "remove" \in faults
  /\ path # None
  /\ path' = None
  /\ UNCHANGED <<scenario, content, aside, wfd, used, written, files, tailVars>>

\* The writer opens a new file at the path and writes there from now on.  An
\* inode number is free once nothing links to it and nobody has it open; which
\* one a file gets that nobody had before makes no difference.
Available ==
  LET new  == Inodes \ used
      free == used \ {aside, file}
  IN (IF new = {} THEN {} ELSE {CHOOSE i \in new : TRUE})
       \union (IF "reuse" \in faults THEN free ELSE {})

Create ==
  /\ path = None
  /\ files < scenario.files
  /\ \E i \in Available :
       /\ path' = i
       /\ wfd' = i
       /\ used' = used \union {i}
       /\ content' = [content EXCEPT ![i] = <<>>]
  /\ files' = files + 1
  /\ UNCHANGED <<scenario, aside, written, tailVars>>

Truncate ==
  /\ "truncate" \in faults
  /\ path # None
  /\ content' = [content EXCEPT ![path] = <<>>]
  /\ UNCHANGED <<scenario, path, aside, wfd, used, written, files, tailVars>>

-----------------------------------------------------------------------------
(* Tick.                                                                    *)

\* readAvailable: a loop of reads up to EOF that cuts at newlines.  A read
\* returns at least one byte if there is one; how many they return does not
\* tell in what is read, so each of them returns one here.  Reading past the
\* end of a file that shrank returns nothing.
Readable == file # None /\ pos < Len(content[file])

\* Mutant of TakeByte: the position is not advanced.
TakeByteInPlace ==
  LET b == content[file][pos + 1]
  IN /\ lines' = IF b.nl THEN Append(lines, buf) ELSE lines
     /\ buf' = IF b.nl THEN <<>> ELSE Append(buf, b)
     /\ UNCHANGED pos

TakeByte ==
  LET b == content[file][pos + 1]
  IN /\ lines' = IF b.nl THEN Append(lines, buf) ELSE lines
     /\ buf' = IF b.nl THEN <<>> ELSE Append(buf, b)
     /\ pos' = pos + 1

ReadAvailable ==
  /\ pc \in {"drain", "more"}
  /\ Readable
  /\ TakeByte
  /\ UNCHANGED <<diskVars, file, inode, pc, stat>>

EndTick == pc' = "idle" /\ stat' = NoStat

\* os.Stat(t.path)
Stat ==
  /\ pc = "idle"
  /\ stat' = [NoStat EXCEPT !.err = (path = None), !.rotate = (path = None),
                            !.size = IF path = None THEN 0 ELSE Len(content[path])]
  /\ pc' = IF path = None THEN "drain" ELSE "inode"
  /\ UNCHANGED <<diskVars, file, inode, pos, buf, lines>>

\* inodeOf(nil, t.path): a second stat.  A file that vanished in between is
\* an error that ends the tick.
StatInode ==
  /\ pc = "inode"
  /\ \/ /\ path = None
        /\ pc' = "idle"
        /\ stat' = NoStat
     \/ /\ path # None
        /\ pc' = "drain"
        /\ stat' = [stat EXCEPT !.rotate = (path # inode),
                                !.truncate = (path = inode /\ stat.size < pos)]
  /\ UNCHANGED <<diskVars, file, inode, pos, buf, lines>>

\* Mutant of Drain: a rotated file is not read to its end.
DrainUnlessRotated ==
  /\ pc = "drain"
  /\ stat.rotate \/ ~ Readable
  /\ IF stat.rotate \/ stat.truncate
     THEN pc' = "switch" /\ UNCHANGED stat
     ELSE EndTick
  /\ UNCHANGED <<diskVars, file, inode, pos, buf, lines>>

\* The old descriptor is read to its end before anything else.
Drain ==
  /\ pc = "drain"
  /\ ~ Readable
  /\ IF stat.rotate \/ stat.truncate
     THEN pc' = "switch" /\ UNCHANGED stat
     ELSE EndTick
  /\ UNCHANGED <<diskVars, file, inode, pos, buf, lines>>

\* Mutant of Flush: the partial line is kept for the next file.
FlushNothing == UNCHANGED <<lines, buf>>

\* The partial line of the old context will not be completed: flush it.
Flush ==
  /\ lines' = IF buf = <<>> THEN lines ELSE Append(lines, buf)
  /\ buf' = <<>>

\* Mutant of Reopen: the inode is stored before the error is looked at.
ReopenStoresFirst ==
  /\ pc = "switch"
  /\ stat.rotate
  /\ Flush
  /\ inode' = path
  /\ file' = path
  /\ pos' = 0
  /\ EndTick
  /\ UNCHANGED diskVars

\* Close the old descriptor and, if the path existed at the stat, open what
\* is there now (which fails if it is gone again).
Reopen ==
  /\ pc = "switch"
  /\ stat.rotate
  /\ Flush
  /\ IF stat.err \/ path = None
     THEN /\ file' = None
          /\ EndTick
          /\ UNCHANGED <<inode, pos>>
     ELSE /\ file' = path
          /\ inode' = path
          /\ pos' = 0
          /\ pc' = "more"
          /\ UNCHANGED stat
  /\ UNCHANGED diskVars

\* Mutant of Rewind: the descriptor is rewound, t.pos is not.
RewindKeepsPos ==
  /\ pc = "switch"
  /\ stat.truncate
  /\ Flush
  /\ IF file = None THEN EndTick ELSE pc' = "more" /\ UNCHANGED stat
  /\ UNCHANGED <<diskVars, file, inode, pos>>

\* Seek to the start; on a nil descriptor Seek fails and the tick ends.
Rewind ==
  /\ pc = "switch"
  /\ stat.truncate
  /\ Flush
  /\ IF file = None
     THEN EndTick /\ UNCHANGED pos
     ELSE pc' = "more" /\ pos' = 0 /\ UNCHANGED stat
  /\ UNCHANGED <<diskVars, file, inode>>

ReadMore ==
  /\ pc = "more"
  /\ ~ Readable
  /\ EndTick
  /\ UNCHANGED <<diskVars, file, inode, pos, buf, lines>>

\* skipToEOF runs on the goroutine that ticks, so between two ticks.
SkipToEOF ==
  /\ "skip" \in faults
  /\ pc = "idle"
  /\ file # None
  /\ pos' = Len(content[file])
  /\ buf' = <<>>
  /\ UNCHANGED <<diskVars, file, inode, pc, stat, lines>>

-----------------------------------------------------------------------------
\* NewTailer on a file that holds nothing yet or half a line, read from its
\* start or from its end.
Init ==
  /\ scenario \in Scenarios
  /\ path = CHOOSE i \in Inodes : TRUE
  /\ wfd = path /\ used = {path}
  /\ file = path /\ inode = path
  /\ \E half \in BOOLEAN, fromStart \in BOOLEAN :
       /\ content = [i \in Inodes |->
            IF i = path /\ half THEN <<[n |-> 1, file |-> 1, nl |-> FALSE]>> ELSE <<>>]
       /\ written = (IF half THEN 1 ELSE 0)
       /\ pos = (IF half /\ ~ fromStart THEN 1 ELSE 0)
  /\ aside = None
  /\ files = 1
  /\ buf = <<>>
  /\ pc = "idle"
  /\ stat = NoStat
  /\ lines = <<>>

Environment == Write \/ Rename \/ Unlink \/ Create \/ Truncate
Tick == Stat \/ StatInode \/ ReadAvailable \/ Drain \/ Reopen \/ Rewind \/ ReadMore

Next == Environment \/ Tick \/ SkipToEOF

\* The watcher ticks on every file event and on a two-second timer.  Nothing
\* is assumed of the writer or of the user.
Spec == Init /\ [][Next]_vars /\ WF_vars(Tick)

-----------------------------------------------------------------------------
TypeOK ==
  /\ scenario \in Scenarios
  /\ content \in [Inodes -> Seq(Byte)]
  /\ {path, aside, file} \subseteq Inodes \union {None}
  /\ {wfd, inode} \subseteq Inodes
  /\ used \subseteq Inodes
  /\ {written, files, pos} \subseteq Nat
  /\ buf \in Seq(Byte)
  /\ lines \in Seq(Seq(Byte))
  /\ pc \in {"idle", "inode", "drain", "switch", "more"}
  /\ stat \in [err : BOOLEAN, size : Nat, rotate : BOOLEAN, truncate : BOOLEAN]

\* The lines returned, and the partial line after them.
Text == Append(lines, buf)

\* No byte of the log is returned twice and none out of order, whatever is
\* renamed, removed or skipped between the system calls of a tick.  It does
\* not hold of a file truncated in place: the stat reports it shorter than
\* what was read, it grows past that before the drain reads on from the old
\* position, and the rewind then reads those bytes again.
ReadOnceInOrder ==
  "truncate" \notin faults =>
    \A k \in 1 .. Len(Text) : \A l \in k .. Len(Text) :
      \A i \in 1 .. Len(Text[k]), j \in 1 .. Len(Text[l]) :
        k < l \/ i < j => Text[k][i].n < Text[l][j].n

\* A line that is returned is one run of consecutive bytes of one file: a
\* rotation flushes the partial line before the next file's bytes arrive, a
\* catch-up drops it, and no byte inside a line is missed.  (Not claimed of a
\* file that was truncated and grew back past the read position between two
\* ticks, which its size cannot show.)
LinesAreNotJoined ==
  "truncate" \notin faults =>
    \A k \in 1 .. Len(lines) : \A j \in 1 .. Len(lines[k]) - 1 :
      /\ lines[k][j + 1].n = lines[k][j].n + 1
      /\ lines[k][j + 1].file = lines[k][j].file

\* The bytes of complete lines of the file a tailer has open.
Complete(i) ==
  {content[i][p].n : p \in {p \in 1 .. Len(content[i]) :
     /\ ~ content[i][p].nl
     /\ \E q \in p + 1 .. Len(content[i]) : content[i][q].nl}}
Returned == UNION {{lines[k][j].n : j \in 1 .. Len(lines[k])} : k \in 1 .. Len(lines)}

\* A complete line written to the file at the path while the tailer has that
\* file open is returned, even if the file is renamed or removed right after.
\* (First: bytes before the position the tail started from are not returned.)
AttachedLinesArrive ==
  {"skip", "truncate"} \intersect faults = {} =>
    \A n \in 2 .. MaxBytes :
      (file # None /\ path = file /\ n \in Complete(file)) ~> (n \in Returned)

\* tailer.go:124-125, "New file may not exist yet (e.g. mid-rotation); leave
\* file nil and the next Tick will retry": a tailer without a descriptor gets
\* one when there is a file at the path, unless that file goes away again.
RetriesUntilOpen == (file = None /\ path # None) ~> (file # None \/ path = None)

\* Once the writer and whoever rotates leave the file alone, the tailer ends
\* up at the end of the file at the path: no truncation, rename or catch-up
\* leaves it without a descriptor, on an old one, or beyond the end, as long
\* as no new file gets an old one's inode number.
ConvergesToEnd ==
  "reuse" \notin faults =>
    <>[](pc = "idle" /\ path # None =>
           file = path /\ pos = Len(content[path]))
=============================================================================
