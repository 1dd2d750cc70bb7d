-------------------------------- MODULE FatNaming -------------------------------
(***************************************************************************)
(* Names in FatFs (src/fs/ff.c), character by character: the 8.3 form and  *)
(* the case flags create_name derives, the numbers gen_numname appends,    *)
(* the long-name entries and their comparison.  FatDirectory takes names   *)
(* as given and models where the entries are; here the directory is the    *)
(* set of its files and the names are what matters.                        *)
(*                                                                         *)
(* A character is its code in the code page 437, every code of which has a *)
(* Unicode character.                                                      *)
(***************************************************************************)
EXTENDS Integers, Sequences, FiniteSets, SequencesExt

CONSTANTS
  BODY, EXT,      \* characters of a short name (8 and 3)
  CH,             \* characters of a long-name entry (13)
  MAX_LFN,        \* characters of a long name (255)
  HASH_AFTER,     \* numbers that are used as they are (5)
  MAX_NUM,        \* numbers that are tried (99)
  Hash(_, _),     \* the CRC of a long name that starts from a number; whatever it is
  ExCvt,          \* upper case of the codes from 128 on, for short names
  Wupper,         \* the same for long names (ff_wtoupper)
  Names,          \* path components given to the calls
  MaxFiles        \* bound: files in the directory

ASSUME NamingAssumption ==
  /\ {BODY, EXT, CH, MAX_LFN, HASH_AFTER, MAX_NUM} \subseteq Nat \ {0}
  /\ Names \subseteq Seq(33 .. 255 \cup {32})

VARIABLES
  dir,    \* files: short name, case flags, long-name entries, name as created
  res     \* answer of the last call

vars == <<dir, res>>

SPACE == 32
DOT == 46
TILDE == 126
PAD == 65535
DDEM == 229
RDDEM == 5
Forbidden == {42, 58, 60, 62, 124, 34, 63, 127}     \* * : < > | " ? DEL
Replaced == {43, 44, 59, 61, 91, 93}                \* + , ; = [ ]
Upper == 65 .. 90
Lower == 97 .. 122
IsUpper(c) == c \in Upper
IsLower(c) == c \in Lower

UpperOf(table, c) ==
  IF IsLower(c) THEN c - 32 ELSE IF c >= 128 THEN table[c] ELSE c
ff_wtoupper(c) == UpperOf(Wupper, c)

--------------------------------------------------------------------------------
(***************************************************************************)
(* create_name.                                                            *)
(***************************************************************************)
IsDots(n) == n \in {<<DOT>>, <<DOT, DOT>>}
Invalid(n) == Len(n) > MAX_LFN \/ \E i \in DOMAIN n : n[i] \in Forbidden

\* Without the spaces and dots at the end.
Trimmed(n) ==
  LET ends == {i \in DOMAIN n : n[i] \notin {SPACE, DOT}} \cup {0}
  IN  SubSeq(n, 1, CHOOSE i \in ends : \A j \in ends : j <= i)

\* Position of the last dot, 0 if there is none.
LastDot(n) ==
  LET dots == {i \in DOMAIN n : n[i] = DOT} \cup {0}
  IN  CHOOSE i \in dots : \A j \in dots : j <= i

Leading(n) == CHOOSE i \in 0 .. Len(n) - 1 :
                n[i + 1] # SPACE /\ \A j \in 1 .. i : n[j] = SPACE

\* A part of the short name: what is left of src in at most max characters,
\* and the flags it raises.
Placed(src, max) ==
  LET kept == SelectSeq(src, LAMBDA c : c \notin {SPACE, DOT})
  IN  SubSeq(kept, 1, IF Len(kept) < max THEN Len(kept) ELSE max)

Flags(src, placed) ==
  LET some(S) == \E i \in DOMAIN placed : placed[i] \in S
  IN  [put |-> [i \in DOMAIN placed |->
                  IF placed[i] \in Replaced THEN 95 ELSE UpperOf(ExCvt, placed[i])],
       loss |-> Len(placed) < Len(src) \/ some(Replaced),
       lfn |-> some(128 .. 255) \/ (some(Upper) /\ some(Lower)),
       lower |-> some(Lower)]

Part(src, max) == Flags(src, Placed(src, max))

\* Mutant: the case of the extension is not recorded.
CaseFlags_body(body, ext) == [body |-> body.lower, ext |-> FALSE]

\* Parts that are all lower case, recorded in the entry.
CaseFlags(body, ext) == [body |-> body.lower, ext |-> ext.lower]
NoFlags == [body |-> FALSE, ext |-> FALSE]

First(b) == IF b # <<>> /\ b[1] = DDEM THEN [b EXCEPT ![1] = RDDEM] ELSE b

Assembled(t, loss, body, ext) ==
  LET lfn == loss \/ body.lfn \/ ext.lfn
  IN  [lfnbuf |-> t, sfn |-> [body |-> First(body.put), ext |-> ext.put],
       loss |-> loss, lfn |-> lfn,
       ntres |-> IF lfn THEN NoFlags ELSE CaseFlags(body, ext)]

\* The name t without its lead spaces; its last dot is at di.
Divided(t, lead, body, ext) ==
  Assembled(t, lead > 0 \/ t[lead + 1] = DOT \/ body.loss \/ ext.loss, body, ext)

FromTrimmed(t, lead, di) ==
  Divided(t, lead, Part(SubSeq(t, lead + 1, IF di = 0 THEN Len(t) ELSE di - 1), BODY),
          Part(IF di = 0 THEN <<>> ELSE SubSeq(t, di + 1, Len(t)), EXT))

Named(t) == FromTrimmed(t, Leading(t), LastDot(t))

\* For a name that is neither invalid nor dots, and not empty when trimmed.
create_name(n) == Named(Trimmed(n))

--------------------------------------------------------------------------------
(***************************************************************************)
(* Short names with a number.                                              *)
(***************************************************************************)
Hashed(lfn, seq) ==
  IF seq <= HASH_AFTER THEN seq ELSE Hash(lfn, seq) % 65536

\* Hexadecimal digits of v, at most n.
Digits(v, n) ==
  LET width == CHOOSE w \in 1 .. 4 : v < 16 ^ w /\ \A u \in 1 .. w - 1 : v >= 16 ^ u
      k == IF width < n THEN width ELSE n
      digit(d) == IF d < 10 THEN 48 + d ELSE 55 + d
  IN  [i \in 1 .. k |-> digit((v \div (16 ^ (k - i))) % 16)]

gen_numname(sfn, lfn, seq) ==
  LET tail == <<TILDE>> \o Digits(Hashed(lfn, seq), BODY - 1)
      room == BODY - Len(tail)
  IN  [sfn EXCEPT !.body = SubSeq(@, 1, IF Len(@) < room THEN Len(@) ELSE room) \o tail]

--------------------------------------------------------------------------------
(***************************************************************************)
(* Long-name entries.                                                      *)
(***************************************************************************)
Padded(q, n) == q \o [i \in 1 .. n - Len(q) |-> SPACE]

sum_sfn(sfn) ==
  FoldLeft(LAMBDA sum, c : ((sum \div 2) + 128 * (sum % 2) + c) % 256, 0,
           Padded(sfn.body, BODY) \o Padded(sfn.ext, EXT))

\* Mutant: an entry that is exactly full is not the last.
put_lfn_full(lfn, ord, sum) ==
  [ord |-> ord, last |-> Len(lfn) < ord * CH, sum |-> sum,
   chars |-> [i \in 1 .. CH |->
                LET k == (ord - 1) * CH + i
                IN  IF k <= Len(lfn) THEN lfn[k] ELSE IF k = Len(lfn) + 1 THEN 0 ELSE PAD]]

put_lfn(lfn, ord, sum) ==
  [ord |-> ord, last |-> Len(lfn) <= ord * CH, sum |-> sum,
   chars |-> [i \in 1 .. CH |->
                LET k == (ord - 1) * CH + i
                IN  IF k <= Len(lfn) THEN lfn[k] ELSE IF k = Len(lfn) + 1 THEN 0 ELSE PAD]]

\* Characters of an entry before its terminator.
Length(e) == IF \E i \in 1 .. CH : e.chars[i] = 0
             THEN (CHOOSE i \in 1 .. CH : e.chars[i] = 0) - 1 ELSE CH

\* What lies behind the end of lfnbuf never matches: the entry before it, whose
\* characters are all set, is compared with the terminator.
cmp_lfn(lfn, e) ==
  LET at(k) == IF k <= Len(lfn) THEN ff_wtoupper(lfn[k]) ELSE 0
      base == (e.ord - 1) * CH
      n == Length(e)
  IN  /\ \A i \in 1 .. n : ff_wtoupper(e.chars[i]) = at(base + i)
      /\ n < CH => at(base + n + 1) = 0 /\ \A i \in n + 2 .. CH : e.chars[i] = PAD
      /\ e.last /\ n = CH => at(base + CH + 1) = 0

pick_lfn(buf, e) == SubSeq(e.chars, 1, Length(e)) \o buf

\* The entries of a name are numbered down to 1, the last one marked, and carry
\* the checksum of the short name that follows them.
Complete(f) ==
  /\ f.lfns # <<>> /\ f.lfns[1].last
  /\ \A i \in DOMAIN f.lfns : f.lfns[i].ord = Len(f.lfns) - i + 1
                              /\ f.lfns[i].sum = sum_sfn(f.sfn)

--------------------------------------------------------------------------------
(***************************************************************************)
(* The directory.                                                          *)
(***************************************************************************)
Matches(f, fn) ==
  \/ Complete(f) /\ \A i \in DOMAIN f.lfns : cmp_lfn(fn.lfnbuf, f.lfns[i])
  \/ ~fn.loss /\ f.sfn = fn.sfn

\* dir_find ends at one of these, the first in the directory.
FoundAs(fn) == {f \in dir : Matches(f, fn)}
Found(n) == FoundAs(create_name(n))

\* Mutant: the first number is taken for granted.
Untaken_first(fn) == {1}

\* The short name of a new file: numbers are tried until one is not taken.
Untaken(fn) ==
  LET taken(k) == \E f \in dir : f.sfn = gen_numname(fn.sfn, fn.lfnbuf, k)
  IN  {k \in 1 .. MAX_NUM : ~taken(k) /\ \A j \in 1 .. k - 1 : taken(j)}

ShortName(fn) ==
  IF fn.loss THEN gen_numname(fn.sfn, fn.lfnbuf, CHOOSE k \in Untaken(fn) : TRUE) ELSE fn.sfn

Entries(fn, sfn, n) ==
  [sfn |-> sfn, ntres |-> fn.ntres, as |-> fn.lfnbuf,
   lfns |-> [i \in 1 .. n |-> put_lfn(fn.lfnbuf, n - i + 1, sum_sfn(sfn))]]

dir_register(fn) ==
  Entries(fn, ShortName(fn), IF fn.lfn THEN (Len(fn.lfnbuf) + CH - 1) \div CH ELSE 0)

\* The name shown for a file.
get_fileinfo(f) ==
  LET first(b) == IF b # <<>> /\ b[1] = RDDEM THEN [b EXCEPT ![1] = DDEM] ELSE b
      down(q, flag) == [i \in DOMAIN q |-> IF IsUpper(q[i]) /\ flag THEN q[i] + 32 ELSE q[i]]
  IN  IF Complete(f) THEN FoldLeft(pick_lfn, <<>>, f.lfns)
      ELSE down(first(f.sfn.body), f.ntres.body)
           \o IF f.sfn.ext = <<>> THEN <<>> ELSE <<DOT>> \o down(f.sfn.ext, f.ntres.ext)

Usable(n) == ~Invalid(n) /\ ~IsDots(n) /\ Trimmed(n) # <<>>

Init == dir = {} /\ res = "FR_OK"

Open(fn) ==
  \/ FoundAs(fn) # {} /\ res' = "FR_EXIST" /\ UNCHANGED dir
  \/ /\ FoundAs(fn) = {} /\ fn.loss /\ Untaken(fn) = {}
     /\ res' = "FR_DENIED" /\ UNCHANGED dir
  \/ /\ FoundAs(fn) = {} /\ (fn.loss => Untaken(fn) # {})
     /\ res' = "FR_OK" /\ dir' = dir \cup {dir_register(fn)}

Create(n) ==
  /\ Cardinality(dir) < MaxFiles
  /\ \/ ~Usable(n) /\ res' = "FR_INVALID_NAME" /\ UNCHANGED dir
     \/ Usable(n) /\ Open(create_name(n))

Unlink(f) == dir' = dir \ {f} /\ res' = "FR_OK"

Next == (\E n \in Names : Create(n)) \/ (\E f \in dir : Unlink(f))

Spec == Init /\ [][Next]_vars

--------------------------------------------------------------------------------
(***************************************************************************)
(* Properties.                                                             *)
(***************************************************************************)
\* No two files have one short name, and every short name is one that other
\* systems accept: no lower case, no space, no dot, and a body.
ShortNamesSound ==
  \A f \in dir :
    /\ \A g \in dir : f.sfn = g.sfn => f = g
    /\ Len(f.sfn.body) \in 1 .. BODY /\ Len(f.sfn.ext) \in 0 .. EXT
    /\ \A q \in {f.sfn.body, f.sfn.ext} : \A i \in DOMAIN q :
         ~IsLower(q[i]) /\ q[i] \notin {SPACE, DOT} \cup Forbidden \cup Replaced

\* A file is listed under the name it was created with, every letter in its
\* case, whether the name is in long-name entries or in a short name with flags.
ShownAsGiven == \A f \in dir : get_fileinfo(f) = f.as

Folded(n) == [i \in DOMAIN n |-> ff_wtoupper(n[i])]

\* Both tables agree on the upper case of every character.
Plain(n) == \A i \in DOMAIN n : n[i] >= 128 => ExCvt[n[i]] = Wupper[n[i]]

\* A name leads to the file created under it, in upper or lower case, and to no
\* other, wherever the files are in the directory.  Only names with characters
\* that the short name loses (an accent, which ExCvt takes away and ff_wtoupper
\* keeps) may lead to two.
Unambiguous ==
  \A n \in {n \in Names : Usable(n) /\ Plain(n)} :
    /\ Cardinality(Found(n)) <= 1
    /\ \A f \in dir : Folded(Trimmed(n)) = Folded(f.as) => Found(n) = {f}

================================================================================
