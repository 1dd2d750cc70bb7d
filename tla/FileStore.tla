------------------------------- MODULE FileStore --------------------------------
(***************************************************************************)
(* What FatFs promises of open files: each file is a sequence of bytes, a  *)
(* handle has a position in it, and a call on one file leaves the others   *)
(* alone.  out is the last call: its name op, file f, argument arg, the    *)
(* answer res and the bytes data it read.                                  *)
(***************************************************************************)
EXTENDS Integers, Sequences

CONSTANTS File, FSizeMax

VARIABLES
  content,   \* of each file: its bytes, or NoContent
  mode,      \* of each handle: {} when it is closed
  pos,
  full,      \* the volume has no room for more
  out

vars == <<content, mode, pos, full, out>>

NoContent == <<-1>>

Init == mode = [f \in File |-> {}] /\ pos = [f \in File |-> 0]

\* A new or emptied file begins empty; "SEEKEND" sets the position to the end.
Open(f, m) ==
  /\ mode[f] = {} /\ mode'[f] = m \cap {"READ", "WRITE"}
  /\ content[f] # NoContent => "CREATE_NEW" \notin m
  /\ content[f] = NoContent => m \cap {"CREATE_NEW", "CREATE_ALWAYS", "OPEN_ALWAYS"} # {}
  /\ content'[f] = IF content[f] = NoContent \/ "CREATE_ALWAYS" \in m THEN <<>> ELSE content[f]
  /\ pos'[f] = IF "SEEKEND" \in m THEN Len(content'[f]) ELSE 0

Read(f, n) ==
  LET left == Len(content[f]) - pos[f]
      k == IF n < left THEN n ELSE left
  IN  /\ "READ" \in mode[f]
      /\ out'.data = SubSeq(content[f], pos[f] + 1, pos[f] + k)
      /\ pos'[f] = pos[f] + k
      /\ content'[f] = content[f] /\ mode'[f] = mode[f]

\* n bytes of value v are written, fewer only at the largest size of a file or
\* when the volume is full.
Write(f, n, v) ==
  LET len == Len(content[f])
  IN  /\ "WRITE" \in mode[f] /\ pos'[f] \in pos[f] .. pos[f] + n
      /\ pos'[f] < pos[f] + n => full' \/ pos'[f] = FSizeMax
      /\ pos'[f] <= FSizeMax
      /\ content'[f] = [i \in 1 .. IF pos'[f] > len THEN pos'[f] ELSE len |->
                          IF i \in pos[f] + 1 .. pos'[f] THEN v ELSE content[f][i]]
      /\ mode'[f] = mode[f]

\* A file open for writing grows to the position, with any bytes.
Seek(f, ofs) ==
  LET len == Len(content[f])
  IN  /\ mode[f] # {} /\ pos'[f] <= ofs
      /\ pos'[f] < ofs => pos'[f] >= len /\ (full' \/ "WRITE" \notin mode[f])
      /\ IF pos'[f] <= len THEN content'[f] = content[f]
         ELSE /\ "WRITE" \in mode[f] /\ Len(content'[f]) = pos'[f]
              /\ SubSeq(content'[f], 1, len) = content[f]
      /\ mode'[f] = mode[f]

Truncate(f) ==
  /\ "WRITE" \in mode[f]
  /\ content'[f] = SubSeq(content[f], 1, pos[f])
  /\ pos'[f] = pos[f] /\ mode'[f] = mode[f]

\* Whatever the answer.
Release(f) == mode'[f] = {} /\ pos'[f] = 0 /\ content'[f] = content[f]

\* The answer is an error although the file was created, unless it is O_SYNC.
Creat(f, o_sync) ==
  /\ content[f] = NoContent /\ content'[f] = <<>>
  /\ mode'[f] = {} /\ pos'[f] = 0
  /\ out'.res = IF o_sync THEN "FR_OK" ELSE "FR_DISK_ERR"

\* f_sync, and every call that fails.
Nothing(f) == mode'[f] = mode[f] /\ pos'[f] = pos[f] /\ content'[f] = content[f]

Does(f, c) ==
  IF c.op = "creat" /\ c.res \in {"FR_OK", "FR_DISK_ERR"} THEN Creat(f, c.arg)
  ELSE IF c.op = "release" THEN Release(f)
  ELSE IF c.res # "FR_OK" \/ c.op = "sync" THEN Nothing(f)
  ELSE CASE c.op = "open"     -> Open(f, c.arg)
         [] c.op = "read"     -> Read(f, c.arg)
         [] c.op = "write"    -> Write(f, c.arg, c.val)
         [] c.op = "seek"     -> Seek(f, c.arg)
         [] c.op = "truncate" -> Truncate(f)

Next ==
  /\ Does(out'.f, out')
  /\ \A g \in File \ {out'.f} :
       content'[g] = content[g] /\ mode'[g] = mode[g] /\ pos'[g] = pos[g]

Spec == Init /\ [][Next]_vars

================================================================================
