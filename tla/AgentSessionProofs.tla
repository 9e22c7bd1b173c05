------------------------- MODULE AgentSessionProofs -------------------------
(***************************************************************************)
(* Theorems about AgentSession, for any set of requests, calls and human   *)
(* calls, any number of calls per response and any rows rolled back.       *)
(***************************************************************************)
EXTENDS AgentSession, SequenceTheorems, TLAPS

-----------------------------------------------------------------------------
(***************************************************************************)
(* The log: what rows at its end do to the sets that are read from it.     *)
(***************************************************************************)

(* The rows of s stand at the end of m, behind those of l.                 *)
LEMMA Concatenated ==
  ASSUME NEW l \in Seq(Entries), NEW s \in Seq(Entries)
  PROVE  /\ l \o s \in Seq(Entries)
         /\ Len(l) \in Nat /\ Len(s) \in Nat /\ Len(l \o s) = Len(l) + Len(s)
         /\ \A i \in 1..Len(l) : (l \o s)[i] = l[i]
         /\ \A i \in 1..Len(s) : (l \o s)[Len(l) + i] = s[i]
<1>1. /\ l \o s \in Seq(Entries)
      /\ Len(l \o s) = Len(l) + Len(s)
      /\ \A i \in 1 .. Len(l) + Len(s) :
           (l \o s)[i] = IF i <= Len(l) THEN l[i] ELSE s[i - Len(l)]
  BY ConcatProperties, Zenon
<1>2. Len(l) \in Nat /\ Len(s) \in Nat
  BY LenProperties
<1> QED
  BY <1>1, <1>2

(* A row behind those of l is a row of s.                                  *)
LEMMA EitherPart ==
  ASSUME NEW l \in Seq(Entries), NEW s \in Seq(Entries), NEW i \in 1..Len(l \o s)
  PROVE  \/ i \in 1..Len(l)
         \/ i - Len(l) \in 1..Len(s) /\ (l \o s)[i] = s[i - Len(l)]
<1>1. /\ Len(l) \in Nat /\ Len(s) \in Nat /\ Len(l \o s) = Len(l) + Len(s)
      /\ \A j \in 1..Len(s) : (l \o s)[Len(l) + j] = s[j]
  BY Concatenated
<1>2. CASE i > Len(l)
  <2>1. i - Len(l) \in 1..Len(s) /\ Len(l) + (i - Len(l)) = i
    BY <1>1, <1>2
  <2> QED
    BY <1>1, <2>1
<1> QED
  BY <1>1, <1>2

(* The shapes of the rows.                                                 *)
LEMMA EntryTypes ==
  /\ User \in Entries /\ Assistant \in Entries
  /\ \A c \in Calls : Call(c) \in Entries
  /\ \A c \in Calls, s \in {"in_progress", "completed"} : Output(c, s) \in Entries
  BY DEF Entries

LEMMA RowShapes ==
  /\ \A c : /\ Call(c) # User /\ Call(c) # Assistant
            /\ Call(c).type = "call" /\ Call(c).call = c
  /\ \A c, s : /\ Output(c, s) # User /\ Output(c, s) # Assistant
               /\ Output(c, s).type = "output" /\ Output(c, s).call = c
               /\ Output(c, s).status = s
               /\ \A d : Output(c, s) # Call(d)
  /\ User.type = "user" /\ Assistant.type = "assistant"
  BY DEF User, Assistant, Call, Output

(* What was pending after n rows still was once more rows have come.       *)
LEMMA PendingAtPrefix ==
  ASSUME NEW l \in Seq(Entries), NEW s \in Seq(Entries), NEW n \in 0..Len(l)
  PROVE  PendingAt(l \o s, n) = PendingAt(l, n)
<1> DEFINE m == l \o s
<1>1. Len(l) \in Nat /\ \A i \in 1..Len(l) : m[i] = l[i]
  BY Concatenated
<1> HIDE DEF m
<1>2. \A i \in 1..n : m[i] = l[i] /\ \A j \in (i+1)..n : m[j] = l[j]
  BY <1>1
<1>3. PendingAt(m, n) = PendingAt(l, n)
  BY <1>2 DEF PendingAt
<1> QED
  BY <1>3 DEF m

(* Every output of l follows the row of its call, unless that is in gone.  *)
Sound(l, gone) ==
  \A j \in 1..Len(l) : l[j].type = "output" =>
    l[j].call \in PendingAt(l, j - 1) \/ Call(l[j].call) \in gone

LEMMA SoundIs == OutputsHaveCalls <=> Sound(log, lost)
  BY DEF OutputsHaveCalls, Sound

(* A logged call without an output is pending.                             *)
LEMMA UnsettledIsPending ==
  ASSUME NEW l \in Seq(Entries), NEW c \in Logged(l), c \notin Settled(l)
  PROVE  c \in Pending(l)
<1>1. Len(l) \in Nat
  BY LenProperties
<1>2. c \in Calls
  BY DEF Logged
<1>3. PICK i \in 1..Len(l) : l[i] = Call(c)
  BY DEF Logged
<1>4. ASSUME NEW j \in (i+1)..Len(l), l[j] = Output(c, "completed")
      PROVE  FALSE
  <2>1. j \in 1..Len(l)
    BY <1>1
  <2>2. l[j].type = "output" /\ l[j].call = c
    BY <1>4, RowShapes
  <2> QED
    BY <2>1, <2>2, <1>2 DEF Settled
<1> QED
  BY <1>2, <1>3, <1>4 DEF Pending, PendingAt

(* Pending, asking and settled calls are calls; a pending one is logged    *)
(* and one that asks has an output.                                        *)
LEMMA SetsOfCalls ==
  ASSUME NEW l
  PROVE  /\ Logged(l) \subseteq Calls /\ Settled(l) \subseteq Calls
         /\ Pending(l) \subseteq Logged(l) /\ Questioned(l) \subseteq Settled(l)
         /\ Awaiting(l) = Pending(l) \cap Questioned(l)
<1>1. Questioned(l) \subseteq Settled(l)
  BY RowShapes DEF Questioned, Settled
<1> QED
  BY <1>1 DEF Logged, Settled, Pending, PendingAt, Awaiting

-----------------------------------------------------------------------------
(* Rows that are no outputs log their calls, which are then pending, and   *)
(* change nothing else.                                                    *)
LEMMA RowsWithoutOutput ==
  ASSUME NEW l \in Seq(Entries), NEW s \in Seq(Entries),
         \A i \in 1..Len(s) : s[i].type # "output"
  PROVE  /\ Logged(l \o s) = Logged(l) \cup Logged(s)
         /\ Settled(l \o s) = Settled(l)
         /\ Questioned(l \o s) = Questioned(l)
         /\ Pending(l \o s) = Pending(l) \cup Logged(s)
         /\ \A gone : Sound(l, gone) => Sound(l \o s, gone)
<1> DEFINE m == l \o s
<1>1. /\ m \in Seq(Entries)
      /\ Len(l) \in Nat /\ Len(s) \in Nat /\ Len(m) = Len(l) + Len(s)
      /\ \A i \in 1..Len(l) : m[i] = l[i]
      /\ \A i \in 1..Len(s) : m[Len(l) + i] = s[i]
  BY Concatenated
<1>2. \A i \in 1..Len(m) : \/ i \in 1..Len(l)
                           \/ i - Len(l) \in 1..Len(s) /\ m[i] = s[i - Len(l)]
  BY EitherPart
<1>3. \A n \in 0..Len(l) : PendingAt(m, n) = PendingAt(l, n)
  BY PendingAtPrefix
<1> HIDE DEF m
<1>4. \A i \in 1..Len(l) : i \in 1..Len(m)
  BY <1>1
<1>5. \A i \in 1..Len(s) : Len(l) + i \in 1..Len(m)
  BY <1>1
<1>6. \A i \in 1..Len(m) : m[i].type = "output" => i \in 1..Len(l) /\ m[i] = l[i]
  BY <1>1, <1>2
<1>7. Logged(m) = Logged(l) \cup Logged(s)
  <2>1. ASSUME NEW c \in Logged(m)
        PROVE  c \in Logged(l) \cup Logged(s)
    <3>1. PICK i \in 1..Len(m) : m[i] = Call(c) /\ c \in Calls
      BY DEF Logged
    <3> QED
      BY <1>1, <1>2, <3>1 DEF Logged
  <2>2. Logged(l) \subseteq Logged(m)
    BY <1>1, <1>4 DEF Logged
  <2>3. Logged(s) \subseteq Logged(m)
    BY <1>1, <1>5 DEF Logged
  <2> QED
    BY <2>1, <2>2, <2>3
<1>8. Settled(m) = Settled(l)
  BY <1>1, <1>4, <1>6 DEF Settled
<1>9. Questioned(m) = Questioned(l)
  <2>1. \A c \in Calls, i \in 1..Len(m) :
          m[i] = Output(c, "in_progress") => i \in 1..Len(l) /\ m[i] = l[i]
    BY <1>6, RowShapes
  <2> QED
    BY <1>1, <1>4, <2>1 DEF Questioned
<1>10. Pending(m) = Pending(l) \cup Logged(s)
  <2>1. ASSUME NEW c \in Pending(l)
        PROVE  c \in Pending(m)
    <3>1. PICK i \in 1..Len(l) : /\ l[i] = Call(c) /\ c \in Calls
                                 /\ \A j \in (i+1)..Len(l) : l[j] # Output(c, "completed")
      BY DEF Pending, PendingAt
    <3>2. ASSUME NEW j \in (i+1)..Len(m), m[j] = Output(c, "completed")
          PROVE  FALSE
      <4>1. j \in 1..Len(m)
        BY <1>1
      <4>2. j \in 1..Len(l) /\ m[j] = l[j]
        BY <1>6, <3>2, <4>1, RowShapes
      <4> QED
        BY <1>1, <3>1, <3>2, <4>2
    <3> QED
      BY <1>1, <1>4, <3>1, <3>2 DEF Pending, PendingAt
  <2>2. ASSUME NEW c \in Logged(s)
        PROVE  c \in Pending(m)
    <3>1. PICK i \in 1..Len(s) : s[i] = Call(c) /\ c \in Calls
      BY DEF Logged
    <3>2. \A j \in (Len(l) + i + 1)..Len(m) : m[j] # Output(c, "completed")
      <4> SUFFICES ASSUME NEW j \in (Len(l) + i + 1)..Len(m), m[j] = Output(c, "completed")
                   PROVE  FALSE
        OBVIOUS
      <4>1. j \in 1..Len(m) /\ j \notin 1..Len(l)
        BY <1>1
      <4> QED
        BY <1>6, <4>1, RowShapes
    <3> QED
      BY <1>1, <1>5, <3>1, <3>2 DEF Pending, PendingAt
  <2>3. ASSUME NEW c \in Pending(m)
        PROVE  c \in Pending(l) \cup Logged(s)
    <3>1. PICK i \in 1..Len(m) : /\ m[i] = Call(c) /\ c \in Calls
                                 /\ \A j \in (i+1)..Len(m) : m[j] # Output(c, "completed")
      BY DEF Pending, PendingAt
    <3>2. CASE i \in 1..Len(l)
      <4>1. \A j \in (i+1)..Len(l) : j \in (i+1)..Len(m) /\ m[j] = l[j]
        BY <1>1, <3>2
      <4> QED
        BY <1>1, <3>1, <3>2, <4>1 DEF Pending, PendingAt
    <3>3. CASE i - Len(l) \in 1..Len(s) /\ m[i] = s[i - Len(l)]
      BY <3>1, <3>3 DEF Logged
    <3> QED
      BY <1>2, <3>2, <3>3
  <2> QED
    BY <2>1, <2>2, <2>3
<1>11. ASSUME NEW gone, Sound(l, gone), NEW j \in 1..Len(m), m[j].type = "output"
       PROVE  m[j].call \in PendingAt(m, j - 1) \/ Call(m[j].call) \in gone
  <2>1. j \in 1..Len(l) /\ m[j] = l[j]
    BY <1>6, <1>11
  <2>2. j - 1 \in 0..Len(l)
    BY <1>1, <2>1
  <2> QED
    BY <1>3, <1>11, <2>1, <2>2 DEF Sound
<1>12. \A gone : Sound(l, gone) => Sound(m, gone)
  BY <1>11 DEF Sound
<1> QED
  BY <1>7, <1>8, <1>9, <1>10, <1>12 DEF m

(* An output settles its call: one in progress asks, a completed one ends  *)
(* the wait.                                                               *)
LEMMA OutputRow ==
  ASSUME NEW l \in Seq(Entries), NEW c \in Calls, NEW st \in {"in_progress", "completed"}
  PROVE  /\ Logged(l \o <<Output(c, st)>>) = Logged(l)
         /\ Settled(l \o <<Output(c, st)>>) = Settled(l) \cup {c}
         /\ Questioned(l \o <<Output(c, st)>>) =
              Questioned(l) \cup (IF st = "in_progress" THEN {c} ELSE {})
         /\ Pending(l \o <<Output(c, st)>>) =
              Pending(l) \ (IF st = "completed" THEN {c} ELSE {})
         /\ \A gone : Sound(l, gone) /\ (c \in Pending(l) \/ Call(c) \in gone)
                        => Sound(l \o <<Output(c, st)>>, gone)
<1> DEFINE e == Output(c, st)
           s == <<e>>
           m == l \o s
           n == Len(l) + 1
<1>1. /\ s \in Seq(Entries) /\ Len(s) = 1 /\ s[1] = e
  BY EntryTypes
<1> HIDE DEF s
<1>2. /\ m \in Seq(Entries)
      /\ Len(l) \in Nat /\ Len(m) = n
      /\ \A i \in 1..Len(l) : m[i] = l[i]
      /\ m[n] = e
  BY <1>1, Concatenated
<1>3. \A k \in 0..Len(l) : PendingAt(m, k) = PendingAt(l, k)
  BY <1>1, PendingAtPrefix
<1>4. e.type = "output" /\ e.call = c /\ \A d : e # Call(d)
  BY RowShapes
<1>5. /\ e = Output(c, "in_progress") <=> st = "in_progress"
      /\ e = Output(c, "completed") <=> st = "completed"
      /\ \A d, t : e = Output(d, t) => d = c
  BY RowShapes
<1> HIDE DEF e, m
<1>6. 1..Len(m) = 1..Len(l) \cup {n}
  BY <1>2
<1>7. Logged(m) = Logged(l)
  BY <1>2, <1>4, <1>6 DEF Logged
<1>8. Settled(m) = Settled(l) \cup {c}
  BY <1>2, <1>4, <1>6 DEF Settled
<1>9. Questioned(m) = Questioned(l) \cup (IF st = "in_progress" THEN {c} ELSE {})
  BY <1>2, <1>5, <1>6 DEF Questioned
<1>10. Pending(m) = Pending(l) \ (IF st = "completed" THEN {c} ELSE {})
  <2>1. ASSUME NEW d \in Pending(l), d # c \/ st # "completed"
        PROVE  d \in Pending(m)
    <3>1. PICK i \in 1..Len(l) : /\ l[i] = Call(d) /\ d \in Calls
                                 /\ \A j \in (i+1)..Len(l) : l[j] # Output(d, "completed")
      BY DEF Pending, PendingAt
    <3>2. e # Output(d, "completed")
      BY <1>5, <2>1
    <3>3. \A j \in (i+1)..Len(m) : m[j] # Output(d, "completed")
      BY <1>2, <3>1, <3>2
    <3> QED
      BY <1>2, <1>6, <3>1, <3>3 DEF Pending, PendingAt
  <2>2. ASSUME NEW d \in Pending(m)
        PROVE  d \in Pending(l) /\ (d # c \/ st # "completed")
    <3>1. PICK i \in 1..Len(m) : /\ m[i] = Call(d) /\ d \in Calls
                                 /\ \A j \in (i+1)..Len(m) : m[j] # Output(d, "completed")
      BY DEF Pending, PendingAt
    <3>2. i \in 1..Len(l)
      BY <1>2, <1>4, <1>6, <3>1
    <3>3. n \in (i+1)..Len(m) /\ \A j \in (i+1)..Len(l) : j \in (i+1)..Len(m) /\ m[j] = l[j]
      BY <1>2, <3>2
    <3> QED
      BY <1>2, <1>5, <3>1, <3>2, <3>3 DEF Pending, PendingAt
  <2> QED
    BY <2>1, <2>2
<1>11. ASSUME NEW gone, Sound(l, gone), c \in Pending(l) \/ Call(c) \in gone,
              NEW j \in 1..Len(m), m[j].type = "output"
       PROVE  m[j].call \in PendingAt(m, j - 1) \/ Call(m[j].call) \in gone
  <2>1. CASE j \in 1..Len(l)
    <3>1. j - 1 \in 0..Len(l)
      BY <1>2, <2>1
    <3> QED
      BY <1>2, <1>3, <1>11, <2>1, <3>1 DEF Sound
  <2>2. CASE j = n
    <3>1. j - 1 = Len(l) /\ Len(l) \in 0..Len(l)
      BY <1>2, <2>2
    <3> QED
      BY <1>2, <1>3, <1>4, <1>11, <2>2, <3>1 DEF Pending
  <2> QED
    BY <1>6, <2>1, <2>2
<1>12. \A gone : Sound(l, gone) /\ (c \in Pending(l) \/ Call(c) \in gone) => Sound(m, gone)
  BY <1>11 DEF Sound
<1> QED
  BY <1>7, <1>8, <1>9, <1>10, <1>12 DEF m, s, e

-----------------------------------------------------------------------------
(***************************************************************************)
(* What a step does to the sets: nothing, issue the calls of a response    *)
(* (some rows of which may be gone), or give a call an output (which may   *)
(* be gone).                                                               *)
(***************************************************************************)
SameRows ==
  /\ Logged(log') = Logged(log) /\ Settled(log') = Settled(log)
  /\ Pending(log') = Pending(log) /\ Questioned(log') = Questioned(log)

Kept ==
  /\ log' \in Seq(Entries) /\ lost' \subseteq Entries /\ lost \subseteq lost'
  /\ OutputsHaveCalls'

Quiet == Kept /\ SameRows /\ Issued' = Issued /\ Ran' = Ran

Issues(S) ==
  /\ Kept
  /\ \E K \in SUBSET S : /\ Logged(log') = Logged(log) \cup K
                         /\ Pending(log') = Pending(log) \cup K
  /\ Settled(log') = Settled(log) /\ Questioned(log') = Questioned(log)
  /\ Issued' = Issued \cup S /\ Ran' = Ran

OutputKept(c, st) ==
  /\ Logged(log') = Logged(log) /\ Settled(log') = Settled(log) \cup {c}
  /\ Questioned(log') = Questioned(log) \cup (IF st = "in_progress" THEN {c} ELSE {})
  /\ Pending(log') = Pending(log) \ (IF st = "completed" THEN {c} ELSE {})

Outputs(c, st) ==
  /\ Kept
  /\ \/ OutputKept(c, st)
     \/ SameRows /\ lost' # {}
  /\ Issued' = Issued /\ Ran' = Ran \cup {c}

LEMMA NoRows ==
  ASSUME TypeOK, OutputsHaveCalls, log' = log, lost' = lost
  PROVE  Quiet
<1>1. OutputsHaveCalls'
  BY DEF OutputsHaveCalls
<1>2. Issued' = Issued /\ Ran' = Ran
  BY DEF Issued, Ran, LostOutput
<1> QED
  BY <1>1, <1>2 DEF Quiet, Kept, SameRows, TypeOK

LEMMA SoundGrows ==
  ASSUME NEW l, NEW gone, NEW more, Sound(l, gone), gone \subseteq more
  PROVE  Sound(l, more)
  BY DEF Sound

LEMMA EmptyRows ==
  ASSUME NEW l \in Seq(Entries)
  PROVE  l \o << >> = l
  BY ConcatEmptySeq

(* A message, or a reasoning item, committed or rolled back.               *)
LEMMA MessageRows ==
  ASSUME TypeOK, OutputsHaveCalls, NEW e \in {User, Assistant}, Commit(e)
  PROVE  Quiet
<1>1. log \in Seq(Entries) /\ lost \subseteq Entries /\ e \in Entries
  BY EntryTypes DEF TypeOK
<1>2. Sound(log, lost)
  BY SoundIs
<1>3. e.type # "output" /\ e.type # "call"
  BY RowShapes
<1>4. /\ \A c : e # Call(c)
      /\ \A c, s : e # Output(c, s)
  BY RowShapes
<1>5. CASE Write(<<e>>, {})
  <2> DEFINE s == <<e>>
  <2>1. s \in Seq(Entries) /\ Len(s) = 1 /\ s[1] = e
    BY <1>1
  <2>2. log' = log \o s /\ lost' = lost
    BY <1>5 DEF Write
  <2> HIDE DEF s
  <2>3. \A i \in 1..Len(s) : s[i].type # "output"
    BY <1>3, <2>1
  <2>4. Logged(s) = {}
    BY <1>4, <2>1 DEF Logged
  <2>5. SameRows /\ Sound(log', lost')
    <3>1. /\ Logged(log') = Logged(log) \cup {} /\ Settled(log') = Settled(log)
          /\ Questioned(log') = Questioned(log) /\ Pending(log') = Pending(log) \cup {}
          /\ Sound(log', lost')
      BY <1>1, <1>2, <2>1, <2>2, <2>3, <2>4, RowsWithoutOutput
    <3> QED
      BY <3>1 DEF SameRows
  <2>6. log' \in Seq(Entries)
    BY <1>1, <2>1, <2>2, Concatenated
  <2>7. Issued' = Issued /\ Ran' = Ran
    BY <2>2, <2>5 DEF Issued, Ran, LostOutput, SameRows
  <2>8. OutputsHaveCalls'
    BY <2>5 DEF Sound, OutputsHaveCalls
  <2> QED
    BY <1>1, <2>2, <2>5, <2>6, <2>7, <2>8 DEF Quiet, Kept
<1>6. CASE Write(<< >>, {e})
  <2>1. log' = log /\ lost' = lost \cup {e}
    BY <1>1, <1>6, EmptyRows DEF Write
  <2>2. Issued' = Issued /\ Ran' = Ran
    BY <1>4, <2>1 DEF Issued, Ran, LostOutput
  <2>3. OutputsHaveCalls'
    BY <2>1 DEF OutputsHaveCalls
  <2> QED
    BY <1>1, <2>1, <2>2, <2>3 DEF Quiet, Kept, SameRows
<1> QED
  BY <1>5, <1>6 DEF Commit

(* The output of a call that is pending, or whose row is gone.             *)
LEMMA OutputRows ==
  ASSUME TypeOK, OutputsHaveCalls, NEW c \in Calls, NEW st \in {"in_progress", "completed"},
         c \in Pending(log) \/ Call(c) \in lost, Commit(Output(c, st))
  PROVE  Outputs(c, st)
<1> DEFINE e == Output(c, st)
<1>1. log \in Seq(Entries) /\ lost \subseteq Entries /\ e \in Entries
  BY EntryTypes DEF TypeOK
<1>2. Sound(log, lost)
  BY SoundIs
<1>3. CASE Write(<<e>>, {})
  <2>1. log' = log \o <<e>> /\ lost' = lost
    BY <1>3 DEF Write
  <2>2. OutputKept(c, st) /\ Sound(log', lost')
    BY <1>1, <1>2, <2>1, OutputRow DEF OutputKept
  <2>3. <<e>> \in Seq(Entries)
    BY <1>1
  <2>4. log' \in Seq(Entries)
    BY <1>1, <2>1, <2>3, Concatenated
  <2>5. Issued' = Issued /\ Ran' = Ran \cup {c}
    BY <2>1, <2>2 DEF Issued, Ran, LostOutput, OutputKept
  <2>6. OutputsHaveCalls'
    BY <2>2 DEF Sound, OutputsHaveCalls
  <2> QED
    BY <1>1, <2>1, <2>2, <2>4, <2>5, <2>6 DEF Outputs, Kept
<1>4. CASE Write(<< >>, {e})
  <2>1. log' = log /\ lost' = lost \cup {e}
    BY <1>1, <1>4, EmptyRows DEF Write
  <2>2. /\ \A d : e # Call(d)
        /\ \A d, s : e = Output(d, s) => d = c
    BY RowShapes
  <2> HIDE DEF e
  <2>3. Issued' = Issued
    BY <2>1, <2>2 DEF Issued
  <2>4. Ran' = Ran \cup {c}
    BY <2>1, <2>2 DEF Ran, LostOutput, e
  <2>5. OutputsHaveCalls'
    BY <2>1 DEF OutputsHaveCalls
  <2> QED
    BY <1>1, <2>1, <2>3, <2>4, <2>5 DEF Outputs, Kept, SameRows
<1> QED
  BY <1>3, <1>4 DEF Commit

(* A running call may have its first output.                               *)
LEMMA RunningMayEnd ==
  ASSUME TypeOK, RunningUnsettled, NEW c \in running
  PROVE  c \in Calls /\ (c \in Pending(log) \/ Call(c) \in lost)
<1>1. c \in Issued /\ c \notin Settled(log)
  BY DEF RunningUnsettled, Ran
<1> QED
  BY <1>1, UnsettledIsPending, SetsOfCalls DEF Issued, TypeOK

-----------------------------------------------------------------------------
(* The rows of a response are no outputs, and its calls' rows those kept.  *)
LEMMA ItemsOfResponse ==
  ASSUME NEW S \in SUBSET Calls, NEW k \in Orders(S), NEW said \in Said
  PROVE  LET items == said \o [i \in 1..Len(k) |-> Call(k[i])]
         IN /\ items \in Seq(Entries)
            /\ \A i \in 1..Len(items) : items[i].type # "output"
            /\ Logged(items) = CallsOf(k)
            /\ CallsOf(k) \subseteq S
<1> DEFINE rows == [i \in 1..Len(k) |-> Call(k[i])]
           items == said \o rows
<1>1. PICK n \in 0..Parallel : k \in [1..n -> S]
  BY DEF Orders
<1>2. n \in Nat /\ Len(k) = n /\ DOMAIN k = 1..n
  BY <1>1, BoundsAssumption
<1>3. \A i \in 1..n : k[i] \in S /\ Call(k[i]) \in Entries
  BY <1>1, <1>2, EntryTypes
<1>4. /\ rows \in Seq(Entries) /\ Len(rows) = n
      /\ \A i \in 1..n : rows[i] = Call(k[i])
  BY <1>2, <1>3
<1>5. /\ said \in Seq(Entries) /\ \A i \in 1..Len(said) : said[i] = Assistant
  <2>1. CASE said = << >>
    BY <2>1
  <2>2. CASE said = <<Assistant>>
    BY <2>2, EntryTypes
  <2> QED
    BY <2>1, <2>2 DEF Said
<1> HIDE DEF rows
<1>6. /\ items \in Seq(Entries)
      /\ Len(said) \in Nat /\ Len(items) = Len(said) + n
      /\ \A i \in 1..Len(said) : items[i] = said[i]
      /\ \A i \in 1..n : items[Len(said) + i] = rows[i]
  BY <1>4, <1>5, Concatenated
<1>7. ASSUME NEW i \in 1..Len(items)
      PROVE  items[i] = Assistant \/ \E j \in 1..n : items[i] = Call(k[j])
  <2>1. \/ i \in 1..Len(said)
        \/ i - Len(said) \in 1..Len(rows) /\ items[i] = rows[i - Len(said)]
    BY <1>4, <1>5, EitherPart
  <2> QED
    BY <1>4, <1>5, <1>6, <2>1
<1> HIDE DEF items
<1>8. \A i \in 1..Len(items) : items[i].type # "output"
  BY <1>7, RowShapes
<1>9. CallsOf(k) = {k[i] : i \in 1..n} /\ CallsOf(k) \subseteq S
  BY <1>2, <1>3 DEF CallsOf
<1>10. ASSUME NEW c \in Logged(items)
       PROVE  c \in CallsOf(k)
  <2>1. PICK i \in 1..Len(items) : items[i] = Call(c)
    BY DEF Logged
  <2>2. PICK j \in 1..n : Call(c) = Call(k[j])
    BY <1>7, <2>1, RowShapes
  <2>3. Call(c).call = Call(k[j]).call
    BY <2>2
  <2> QED
    BY <1>9, <2>3, RowShapes
<1>11. ASSUME NEW j \in 1..n
       PROVE  k[j] \in Logged(items)
  <2>1. Len(said) + j \in 1..Len(items)
    BY <1>2, <1>6
  <2> QED
    BY <1>3, <1>4, <1>6, <2>1 DEF Logged
<1>12. Logged(items) = CallsOf(k)
  BY <1>9, <1>10, <1>11
<1> QED
  BY <1>6, <1>8, <1>9, <1>12 DEF items, rows

LEMMA ResponseRows ==
  ASSUME TypeOK, OutputsHaveCalls, NEW S \in Batches, NEW k \in Orders(S), NEW said \in Said,
         AppendOutput(S, k, said)
  PROVE  Issues(S)
<1>1. log \in Seq(Entries) /\ lost \subseteq Entries
  BY DEF TypeOK
<1>2. Sound(log, lost) /\ S \in SUBSET Calls
  BY SoundIs DEF Batches
<1> DEFINE items == said \o [i \in 1..Len(k) |-> Call(k[i])]
           gone == {Call(c) : c \in S \ CallsOf(k)}
<1>3. /\ items \in Seq(Entries)
      /\ \A i \in 1..Len(items) : items[i].type # "output"
      /\ Logged(items) = CallsOf(k) /\ CallsOf(k) \subseteq S
  BY <1>2, ItemsOfResponse
<1>4. log' = log \o items /\ lost' = lost \cup gone
  BY DEF AppendOutput, Write
<1>5. \A c : Call(c) \in gone <=> c \in S \ CallsOf(k)
  BY RowShapes
<1>6. \A c, s : Output(c, s) \notin gone
  BY RowShapes
<1>7. gone \subseteq Entries
  BY <1>2, EntryTypes
<1> HIDE DEF items, gone
<1>8. log' \in Seq(Entries)
  BY <1>1, <1>3, <1>4, Concatenated
<1>9. /\ Logged(log') = Logged(log) \cup CallsOf(k) /\ Settled(log') = Settled(log)
      /\ Questioned(log') = Questioned(log) /\ Pending(log') = Pending(log) \cup CallsOf(k)
      /\ Sound(log', lost)
  BY <1>1, <1>2, <1>3, <1>4, RowsWithoutOutput
<1>10. OutputsHaveCalls'
  <2>1. Sound(log', lost')
    BY <1>4, <1>9, SoundGrows
  <2> QED
    BY <2>1 DEF Sound, OutputsHaveCalls
<1>11. Issued' = Issued \cup S
  BY <1>2, <1>3, <1>4, <1>5, <1>9 DEF Issued
<1>12. Ran' = Ran
  BY <1>4, <1>6, <1>9 DEF Ran, LostOutput
<1> QED
  BY <1>1, <1>3, <1>4, <1>7, <1>8, <1>9, <1>10, <1>11, <1>12 DEF Issues, Kept

-----------------------------------------------------------------------------
(***************************************************************************)
(* The queue of finished tasks.                                            *)
(***************************************************************************)
LEMMA EmptyQueue ==
  ASSUME NEW r, ready[r] = << >>
  PROVE  Returned(r) = {} /\ Failed(r) = {}
  BY DEF Returned, Failed

LEMMA EmptiedQueue ==
  ASSUME NEW r, ready'[r] = << >>
  PROVE  Returned(r)' = {} /\ Failed(r)' = {}
  BY DEF Returned, Failed

LEMMA SameQueue ==
  ASSUME NEW r, ready'[r] = ready[r]
  PROVE  Returned(r)' = Returned(r) /\ Failed(r)' = Failed(r)
  BY DEF Returned, Failed

LEMMA ResultQueued ==
  ASSUME TypeOK, NEW r \in Requests, NEW c \in Calls, NEW ok \in BOOLEAN,
         ready' = [ready EXCEPT ![r] = Append(@, [call |-> c, ok |-> ok])]
  PROVE  /\ ready' \in [Requests -> Seq(Results)]
         /\ ready'[r] # << >>
         /\ Returned(r)' = Returned(r) \cup (IF ok THEN {c} ELSE {})
         /\ Failed(r)' = Failed(r) \cup (IF ok THEN {} ELSE {c})
         /\ \A s \in Requests : s # r => ready'[s] = ready[s]
<1> DEFINE x == [call |-> c, ok |-> ok]
           q == ready[r]
           q2 == Append(q, x)
<1>1. x \in Results /\ x.call = c /\ x.ok = ok
  BY DEF Results
<1>2. q \in Seq(Results) /\ ready \in [Requests -> Seq(Results)]
  BY DEF TypeOK
<1> HIDE DEF x, q
<1>3. /\ q2 \in Seq(Results) /\ q2 # << >>
      /\ Len(q) \in Nat /\ DOMAIN q = 1..Len(q) /\ DOMAIN q2 = 1..Len(q) + 1
      /\ \A i \in 1..Len(q) : q2[i] = q[i]
      /\ q2[Len(q) + 1] = x
  BY <1>1, <1>2
<1>4. ready'[r] = q2 /\ \A s \in Requests : s # r => ready'[s] = ready[s]
  BY <1>2 DEF x, q
<1>5. ready' \in [Requests -> Seq(Results)]
  BY <1>2, <1>3 DEF x, q
<1> HIDE DEF q2
<1>6. DOMAIN q2 = DOMAIN q \cup {Len(q) + 1} /\ \A i \in DOMAIN q : q2[i] = q[i]
  BY <1>3
<1>7. /\ Returned(r) = {q[k].call : k \in {i \in DOMAIN q : q[i].ok}}
      /\ Failed(r) = {q[k].call : k \in {i \in DOMAIN q : ~q[i].ok}}
  BY DEF Returned, Failed, q
<1>8. /\ Returned(r)' = {q2[k].call : k \in {i \in DOMAIN q2 : q2[i].ok}}
      /\ Failed(r)' = {q2[k].call : k \in {i \in DOMAIN q2 : ~q2[i].ok}}
  BY <1>4 DEF Returned, Failed
<1>9. Returned(r)' = Returned(r) \cup (IF ok THEN {c} ELSE {})
  BY <1>1, <1>3, <1>6, <1>7, <1>8
<1>10. Failed(r)' = Failed(r) \cup (IF ok THEN {} ELSE {c})
  BY <1>1, <1>3, <1>6, <1>7, <1>8
<1> QED
  BY <1>3, <1>4, <1>5, <1>9, <1>10

LEMMA HeadTaken ==
  ASSUME TypeOK, NEW r \in Requests, ready[r] # << >>, Head(ready[r]).ok,
         ready' = [ready EXCEPT ![r] = Tail(@)]
  PROVE  /\ ready' \in [Requests -> Seq(Results)]
         /\ Head(ready[r]).call \in Returned(r)
         /\ Returned(r) = Returned(r)' \cup {Head(ready[r]).call}
         /\ Failed(r)' = Failed(r)
         /\ \A s \in Requests : s # r => ready'[s] = ready[s]
<1> DEFINE q == ready[r]
           q2 == Tail(q)
<1>1. q \in Seq(Results) /\ ready \in [Requests -> Seq(Results)] /\ q # << >>
  BY DEF TypeOK
<1> HIDE DEF q
<1>2. /\ Len(q) \in Nat \ {0} /\ DOMAIN q = 1..Len(q) /\ Head(q) = q[1]
      /\ q2 \in Seq(Results) /\ DOMAIN q2 = 1..Len(q) - 1
      /\ \A i \in 1..Len(q) - 1 : q2[i] = q[i + 1]
  BY <1>1
<1>3. ready' = [ready EXCEPT ![r] = q2] /\ ready'[r] = q2 /\ Head(q).ok
  BY <1>1 DEF q
<1> HIDE DEF q2
<1>4. \A i \in DOMAIN q : i = 1 \/ (i - 1 \in DOMAIN q2 /\ q2[i - 1] = q[i])
  BY <1>2
<1>5. \A i \in DOMAIN q2 : i + 1 \in DOMAIN q /\ q2[i] = q[i + 1]
  BY <1>2
<1>6. 1 \in DOMAIN q /\ q[1].ok
  BY <1>2, <1>3
<1>7. /\ Returned(r) = {q[k].call : k \in {i \in DOMAIN q : q[i].ok}}
      /\ Failed(r) = {q[k].call : k \in {i \in DOMAIN q : ~q[i].ok}}
  BY DEF Returned, Failed, q
<1>8. /\ Returned(r)' = {q2[k].call : k \in {i \in DOMAIN q2 : q2[i].ok}}
      /\ Failed(r)' = {q2[k].call : k \in {i \in DOMAIN q2 : ~q2[i].ok}}
  BY <1>3 DEF Returned, Failed
<1>9. Returned(r) = Returned(r)' \cup {q[1].call}
  <2>1. Returned(r) \subseteq Returned(r)' \cup {q[1].call}
    BY <1>4, <1>7, <1>8
  <2>2. Returned(r)' \cup {q[1].call} \subseteq Returned(r)
    BY <1>5, <1>6, <1>7, <1>8
  <2> QED
    BY <2>1, <2>2
<1>10. Failed(r)' = Failed(r)
  <2>1. Failed(r) \subseteq Failed(r)'
    BY <1>4, <1>6, <1>7, <1>8
  <2>2. Failed(r)' \subseteq Failed(r)
    BY <1>5, <1>7, <1>8
  <2> QED
    BY <2>1, <2>2
<1> QED
  BY <1>1, <1>2, <1>3, <1>9, <1>10 DEF q

-----------------------------------------------------------------------------
(***************************************************************************)
(* The invariant, action by action.                                        *)
(***************************************************************************)

(* A request that ends holds nothing.                                      *)
LEMMA EndStep ==
  ASSUME IInv, Kept, Issued \subseteq Issued', Ran' = Ran,
         NEW r \in Requests, NEW how \in Ended, End(r, how),
         running' = running, asked' = asked, deserted' \subseteq Calls, early' = early
  PROVE  IInv'
<1> USE DEF End
<1>0. IInv /\ TypeOK
  BY DEF IInv
<1>1. TypeOK'
  BY <1>0 DEF TypeOK, Kept, Ended, Live
<1>2. \A s \in Requests :
        /\ s # r => Returned(s)' = Returned(s) /\ Failed(s)' = Failed(s)
        /\ Returned(r)' = {} /\ Failed(r)' = {}
  BY <1>0, EmptiedQueue, SameQueue DEF TypeOK
<1>3. OutputsHaveCalls'
  BY DEF Kept
<1>4. RunningUnsettled'
  BY <1>0 DEF IInv, RunningUnsettled
<1>5. AskedSettled'
  BY <1>0, <1>2 DEF IInv, AskedSettled
<1>6. RoundsOwned'
  BY <1>0, <1>2 DEF IInv, RoundsOwned, TypeOK, Ended
<1>7. InputTracked'
  BY <1>0, <1>2 DEF IInv, InputTracked, TypeOK, Ended
<1> QED
  BY <1>1, <1>3, <1>4, <1>5, <1>6, <1>7 DEF IInv

(* A request that has not begun holds nothing, and still does not when it  *)
(* goes to the model or ends.                                              *)
LEMMA NewHoldsNothing ==
  ASSUME IInv, NEW r \in Requests, pc[r] = "new"
  PROVE  /\ tasks[r] = {} /\ ready[r] = << >> /\ pending[r] = {} /\ input[r] = {}
         /\ Returned(r) = {} /\ Failed(r) = {}
<1>1. tasks[r] = {} /\ ready[r] = << >>
  BY DEF IInv, RoundsOwned
<1> QED
  BY <1>1, EmptyQueue DEF IInv, RoundsOwned, InputTracked

LEMMA BeginStep ==
  ASSUME IInv, Kept, Issued' = Issued, Ran' = Ran,
         NEW r \in Requests, pc[r] = "new",
         NEW to \in {"model"} \cup Ended, pc' = [pc EXCEPT ![r] = to],
         input' = input \/ input' = [input EXCEPT ![r] = {}],
         UNCHANGED <<pending, tasks, ready, running, asked, deserted>>, early' \subseteq Calls
  PROVE  IInv'
<1>0. IInv /\ TypeOK
  BY DEF IInv
<1>1. input' = input
  <2>1. input[r] = {} /\ input = [q \in Requests |-> input[q]]
    BY <1>0, NewHoldsNothing DEF TypeOK
  <2> QED
    BY <2>1
<1>2. TypeOK'
  BY <1>0, <1>1 DEF TypeOK, Kept, Ended, Live
<1>3. \A s \in Requests : Returned(s)' = Returned(s) /\ Failed(s)' = Failed(s)
  BY SameQueue
<1>4. OutputsHaveCalls'
  BY DEF Kept
<1>5. RunningUnsettled'
  BY <1>0 DEF IInv, RunningUnsettled
<1>6. AskedSettled'
  BY <1>0, <1>3 DEF IInv, AskedSettled
<1>7. RoundsOwned'
  BY <1>0, <1>3, NewHoldsNothing DEF IInv, RoundsOwned, TypeOK, Ended
<1>8. InputTracked'
  BY <1>0, <1>1, <1>3, NewHoldsNothing DEF IInv, InputTracked, TypeOK, Ended
<1> QED
  BY <1>2, <1>4, <1>5, <1>6, <1>7, <1>8 DEF IInv

(* A response's calls are new, so no other request has them.               *)
LEMMA ResponseStep ==
  ASSUME IInv, NEW r \in Requests, NEW S \in Batches, pc[r] = "model", Issues(S),
         input' = [input EXCEPT ![r] = @ \cup S],
         tasks' = [tasks EXCEPT ![r] = S],
         \/ /\ running' = running \cup S
            /\ pc' = [pc EXCEPT ![r] = "tools"]
         \/ /\ running' = running
            /\ pc' = [pc EXCEPT ![r] = "yield"],
         UNCHANGED <<pending, ready, asked, deserted, early>>
  PROVE  IInv'
<1>0. IInv /\ TypeOK /\ Kept /\ Issued' = Issued \cup S /\ Ran' = Ran
  BY DEF IInv, Issues
<1>1. S \subseteq Calls /\ S \cap Issued = {}
  BY DEF Batches
<1>2. S \cap Ran = {}
  BY <1>0, <1>1 DEF IInv, RunningUnsettled
<1>3. \A s \in Requests : Returned(s)' = Returned(s) /\ Failed(s)' = Failed(s)
  BY SameQueue
<1>4. tasks[r] = {} /\ ready[r] = << >> /\ pending[r] = {} /\ input[r] = {}
      /\ Returned(r) = {} /\ Failed(r) = {}
  <2>1. tasks[r] = {} /\ ready[r] = << >>
    BY DEF IInv, RoundsOwned
  <2> QED
    BY <2>1, EmptyQueue DEF IInv, RoundsOwned, InputTracked
<1>5. /\ tasks'[r] = S /\ input'[r] = S /\ pc'[r] \in {"tools", "yield"}
      /\ \A s \in Requests : s # r =>
           tasks'[s] = tasks[s] /\ input'[s] = input[s] /\ pc'[s] = pc[s]
  BY <1>0, <1>4 DEF TypeOK
<1>6. /\ running \subseteq running' /\ running' \subseteq running \cup S
      /\ pc'[r] = "yield" => running' = running
      /\ pc'[r] = "tools" => running' = running \cup S
  BY <1>0 DEF TypeOK
<1>7. TypeOK'
  BY <1>0, <1>1 DEF TypeOK, Kept, Live
<1>8. OutputsHaveCalls'
  BY <1>0 DEF Kept
<1>9. RunningUnsettled'
  BY <1>0, <1>2, <1>6 DEF IInv, RunningUnsettled
<1>10. AskedSettled'
  BY <1>0, <1>3 DEF IInv, AskedSettled
<1>11. RoundsOwned'
  <2>1. S \cap running = {}
    BY <1>1 DEF IInv, RunningUnsettled
  <2>2. \A s \in Requests : tasks[s] \cap S = {}
    BY <1>1 DEF IInv, RoundsOwned
  <2> QED
    BY <1>0, <1>2, <1>3, <1>4, <1>5, <1>6, <2>1, <2>2 DEF IInv, RoundsOwned
<1>12. InputTracked'
  BY <1>0, <1>3, <1>5, <1>6 DEF IInv, InputTracked
<1> QED
  BY <1>7, <1>8, <1>9, <1>10, <1>11, <1>12 DEF IInv

LEMMA CreateStep ==
  ASSUME IInv, NEW r \in Requests, CreateTasks(r)
  PROVE  IInv'
<1> USE DEF CreateTasks
<1>0. IInv /\ TypeOK /\ Quiet
  BY NoRows DEF IInv, history
<1>1. \A s \in Requests : Returned(s)' = Returned(s) /\ Failed(s)' = Failed(s)
  BY SameQueue
<1>2. tasks[r] \subseteq Issued \ Ran
  BY DEF IInv, RoundsOwned
<1>3. TypeOK'
  BY <1>0 DEF TypeOK, Live, history
<1>4. OutputsHaveCalls'
  BY <1>0 DEF Quiet, Kept
<1>5. RunningUnsettled'
  BY <1>0, <1>2 DEF IInv, RunningUnsettled, Quiet
<1>6. AskedSettled'
  BY <1>0, <1>1 DEF IInv, AskedSettled, Quiet
<1>7. RoundsOwned'
  BY <1>0, <1>1, <1>2 DEF IInv, RoundsOwned, TypeOK, Quiet
<1>8. InputTracked'
  BY <1>0, <1>1 DEF IInv, InputTracked, TypeOK
<1> QED
  BY <1>3, <1>4, <1>5, <1>6, <1>7, <1>8 DEF IInv

(* A task ends with an output, whose request still holds it.               *)
LEMMA RunStep ==
  ASSUME IInv, NEW r \in Requests, NEW c \in Calls, RunToolCall(r, c)
  PROVE  IInv'
<1> USE DEF RunToolCall
<1>0. IInv /\ TypeOK /\ c \in tasks[r] /\ c \in running
  BY DEF IInv
<1>1. FirstStatus(c) \in {"in_progress", "completed"}
  BY DEF FirstStatus
<1>2. Outputs(c, FirstStatus(c))
  BY <1>0, <1>1, RunningMayEnd, OutputRows DEF IInv
<1>3. Kept /\ Issued' = Issued /\ Ran' = Ran \cup {c} /\ c \in Issued
  BY <1>0, <1>2 DEF Outputs, IInv, RunningUnsettled
<1>4. /\ ready' \in [Requests -> Seq(Results)] /\ ready'[r] # << >>
      /\ Returned(r)' = Returned(r) \cup {c} /\ Failed(r)' = Failed(r)
      /\ \A s \in Requests : s # r => ready'[s] = ready[s]
  <2>1. TRUE \in BOOLEAN
    OBVIOUS
  <2>2. /\ ready' \in [Requests -> Seq(Results)] /\ ready'[r] # << >>
        /\ Returned(r)' = Returned(r) \cup (IF TRUE THEN {c} ELSE {})
        /\ Failed(r)' = Failed(r) \cup (IF TRUE THEN {} ELSE {c})
        /\ \A s \in Requests : s # r => ready'[s] = ready[s]
    BY <1>0, <2>1, ResultQueued, Zenon
  <2> QED
    BY <2>2
<1>5. \A s \in Requests : s # r => Returned(s)' = Returned(s) /\ Failed(s)' = Failed(s)
  BY <1>4, SameQueue
<1>6. pc[r] = "tools"
  BY <1>0 DEF IInv, RoundsOwned
<1>7. /\ pending' = [pending EXCEPT ![r] = @ \cup {c}] /\ input' = input
      \/ /\ pending' = pending /\ input' = [input EXCEPT ![r] = @ \ {c}]
  OBVIOUS
<1>8. /\ pending' \in [Requests -> SUBSET Calls] /\ input' \in [Requests -> SUBSET Calls]
      /\ \A s \in Requests : pending[s] \subseteq pending'[s] /\ input'[s] \subseteq input[s]
      /\ pending'[r] \subseteq pending[r] \cup {c}
      /\ c \in pending'[r] \/ c \notin input'[r]
      /\ \A s \in Requests : s # r => pending'[s] = pending[s]
  BY <1>0, <1>7 DEF TypeOK
<1>9. TypeOK'
  BY <1>0, <1>3, <1>4, <1>8 DEF TypeOK, Kept
<1>10. OutputsHaveCalls'
  BY <1>3 DEF Kept
<1>11. RunningUnsettled'
  BY <1>0, <1>3 DEF IInv, RunningUnsettled
<1>12. AskedSettled'
  BY <1>0, <1>3, <1>4, <1>5 DEF IInv, AskedSettled
<1>13. RoundsOwned'
  BY <1>0, <1>3, <1>4, <1>5, <1>6, <1>8 DEF IInv, RoundsOwned
<1>14. InputTracked'
  <2>1. \A s \in Requests : s # r => c \notin tasks[s]
    BY <1>0 DEF IInv, RoundsOwned
  <2> QED
    BY <1>0, <1>4, <1>5, <1>8, <2>1 DEF IInv, InputTracked
<1> QED
  BY <1>9, <1>10, <1>11, <1>12, <1>13, <1>14 DEF IInv

LEMMA RaiseStep ==
  ASSUME IInv, NEW r \in Requests, NEW c \in Calls, ToolRaises(r, c)
  PROVE  IInv'
<1> USE DEF ToolRaises
<1>0. IInv /\ TypeOK /\ Quiet /\ c \in tasks[r] /\ c \in running
  BY NoRows DEF IInv, history
<1>1. /\ ready' \in [Requests -> Seq(Results)] /\ ready'[r] # << >>
      /\ Returned(r)' = Returned(r) /\ Failed(r)' = Failed(r) \cup {c}
      /\ \A s \in Requests : s # r => ready'[s] = ready[s]
  <2>1. FALSE \in BOOLEAN
    OBVIOUS
  <2>2. /\ ready' \in [Requests -> Seq(Results)] /\ ready'[r] # << >>
        /\ Returned(r)' = Returned(r) \cup (IF FALSE THEN {c} ELSE {})
        /\ Failed(r)' = Failed(r) \cup (IF FALSE THEN {} ELSE {c})
        /\ \A s \in Requests : s # r => ready'[s] = ready[s]
    BY <1>0, <2>1, ResultQueued, Zenon
  <2> QED
    BY <2>2
<1>2. \A s \in Requests : s # r => Returned(s)' = Returned(s) /\ Failed(s)' = Failed(s)
  BY <1>1, SameQueue
<1>3. pc[r] = "tools"
  BY <1>0 DEF IInv, RoundsOwned
<1>4. TypeOK'
  BY <1>0, <1>1 DEF TypeOK, history
<1>5. OutputsHaveCalls'
  BY <1>0 DEF Quiet, Kept
<1>6. RunningUnsettled'
  BY <1>0 DEF IInv, RunningUnsettled, Quiet
<1>7. AskedSettled'
  BY <1>0, <1>1, <1>2 DEF IInv, AskedSettled, Quiet
<1>8. RoundsOwned'
  BY <1>0, <1>1, <1>2, <1>3 DEF IInv, RoundsOwned, Quiet
<1>9. InputTracked'
  <2>1. \A s \in Requests : s # r => c \notin tasks[s]
    BY <1>0 DEF IInv, RoundsOwned
  <2> QED
    BY <1>0, <1>1, <1>2, <2>1 DEF IInv, InputTracked
<1> QED
  BY <1>4, <1>5, <1>6, <1>7, <1>8, <1>9 DEF IInv

(* An orphan belongs to no round.                                          *)
LEMMA OrphanStep ==
  ASSUME IInv, NEW c \in Calls, RunOrphan(c) \/ OrphanRaises(c)
  PROVE  IInv'
<1>0. IInv /\ TypeOK /\ c \in running /\ \A r \in Requests : c \notin tasks[r]
  BY DEF IInv, RunOrphan, OrphanRaises, Orphans
<1>1. /\ running' = running \ {c}
      /\ UNCHANGED <<pc, input, pending, tasks, ready, asked, deserted, early>>
  BY DEF RunOrphan, OrphanRaises, history
<1>2. Kept /\ Issued' = Issued /\ Ran \subseteq Ran' /\ Ran' \subseteq Ran \cup {c}
  <2>1. CASE RunOrphan(c)
    <3>1. FirstStatus(c) \in {"in_progress", "completed"}
      BY DEF FirstStatus
    <3>2. Outputs(c, FirstStatus(c))
      BY <1>0, <2>1, <3>1, RunningMayEnd, OutputRows DEF IInv, RunOrphan
    <3> QED
      BY <3>2 DEF Outputs
  <2>2. CASE OrphanRaises(c)
    BY <1>0, <2>2, NoRows DEF IInv, OrphanRaises, history, Quiet
  <2> QED
    BY <2>1, <2>2
<1>3. \A s \in Requests : Returned(s)' = Returned(s) /\ Failed(s)' = Failed(s)
  BY <1>1, SameQueue
<1>4. TypeOK'
  BY <1>0, <1>1, <1>2 DEF TypeOK, Kept
<1>5. OutputsHaveCalls'
  BY <1>2 DEF Kept
<1>6. RunningUnsettled'
  BY <1>0, <1>1, <1>2 DEF IInv, RunningUnsettled
<1>7. AskedSettled'
  BY <1>0, <1>1, <1>2, <1>3 DEF IInv, AskedSettled
<1>8. RoundsOwned'
  BY <1>0, <1>1, <1>2, <1>3 DEF IInv, RoundsOwned
<1>9. InputTracked'
  BY <1>0, <1>1, <1>3 DEF IInv, InputTracked
<1> QED
  BY <1>4, <1>5, <1>6, <1>7, <1>8, <1>9 DEF IInv

LEMMA AwaitStep ==
  ASSUME IInv, NEW r \in Requests, AwaitTask(r)
  PROVE  IInv'
<1> USE DEF AwaitTask
<1>0. IInv /\ TypeOK /\ Quiet
  BY NoRows DEF IInv, history
<1>1. /\ ready' \in [Requests -> Seq(Results)]
      /\ Head(ready[r]).call \in Returned(r)
      /\ Returned(r)' \subseteq Returned(r) /\ Failed(r)' = Failed(r)
      /\ \A s \in Requests : s # r => ready'[s] = ready[s]
  BY <1>0, HeadTaken
<1>2. \A s \in Requests : s # r => Returned(s)' = Returned(s) /\ Failed(s)' = Failed(s)
  BY <1>1, SameQueue
<1>3. TypeOK'
  BY <1>0, <1>1 DEF TypeOK, HumanInputRequired, history
<1>4. OutputsHaveCalls'
  BY <1>0 DEF Quiet, Kept
<1>5. RunningUnsettled'
  BY <1>0 DEF IInv, RunningUnsettled, Quiet
<1>6. AskedSettled'
  BY <1>0, <1>1, <1>2 DEF IInv, AskedSettled, Quiet, HumanInputRequired
<1>7. RoundsOwned'
  BY <1>0, <1>1, <1>2 DEF IInv, RoundsOwned, Quiet
<1>8. InputTracked'
  BY <1>0, <1>1, <1>2 DEF IInv, InputTracked
<1> QED
  BY <1>3, <1>4, <1>5, <1>6, <1>7, <1>8 DEF IInv

(* A round that goes back to the model: all its calls are completed.       *)
LEMMA FinishStep ==
  ASSUME IInv, NEW r \in Requests, FinishRound(r), ~MustBreak(r)
  PROVE  IInv'
<1> USE DEF FinishRound, RoundOver, MustBreak
<1>0. IInv /\ TypeOK /\ Quiet
  BY NoRows DEF IInv, history
<1>1. /\ pc' = [pc EXCEPT ![r] = "model"] /\ tasks' = [tasks EXCEPT ![r] = {}]
      /\ UNCHANGED <<input, pending, ready, running, asked, deserted, early>>
  BY DEF history
<1>2. \A s \in Requests : Returned(s)' = Returned(s) /\ Failed(s)' = Failed(s)
  BY <1>1, SameQueue
<1>3. Failed(r) = {} /\ Returned(r) = {} /\ pending[r] = {}
  BY EmptyQueue
<1>4. input[r] = {}
  BY <1>0, <1>3 DEF IInv, InputTracked
<1>5. TypeOK'
  BY <1>0, <1>1 DEF TypeOK, Live, Quiet, Kept
<1>6. OutputsHaveCalls'
  BY <1>0 DEF Quiet, Kept
<1>7. RunningUnsettled'
  BY <1>0, <1>1 DEF IInv, RunningUnsettled, Quiet
<1>8. AskedSettled'
  BY <1>0, <1>1, <1>2 DEF IInv, AskedSettled, Quiet
<1>9. RoundsOwned'
  BY <1>0, <1>1, <1>2, <1>3 DEF IInv, RoundsOwned, TypeOK, Quiet
<1>10. InputTracked'
  BY <1>0, <1>1, <1>2, <1>3, <1>4 DEF IInv, InputTracked, TypeOK
<1> QED
  BY <1>5, <1>6, <1>7, <1>8, <1>9, <1>10 DEF IInv

LEMMA RestartStep ==
  ASSUME IInv, Restart
  PROVE  IInv'
<1> USE DEF Restart
<1>0. IInv /\ TypeOK /\ Quiet
  BY NoRows DEF IInv, history
<1>1. \A s \in Requests : ready'[s] = << >> /\ Returned(s)' = {} /\ Failed(s)' = {}
  BY EmptiedQueue
<1>2. TypeOK'
  BY <1>0 DEF TypeOK, Live, Ended, Quiet, Kept
<1>3. OutputsHaveCalls'
  BY <1>0 DEF Quiet, Kept
<1>4. RunningUnsettled'
  BY <1>0 DEF IInv, RunningUnsettled, Quiet
<1>5. AskedSettled'
  BY <1>0, <1>1 DEF IInv, AskedSettled, Quiet
<1>6. RoundsOwned'
  BY <1>0, <1>1 DEF RoundsOwned, Live
<1>7. InputTracked'
  BY <1>0, <1>1 DEF InputTracked
<1> QED
  BY <1>2, <1>3, <1>4, <1>5, <1>6, <1>7 DEF IInv

(* A request is taken in, refused, or fails before it has begun.           *)
LEMMA ClientInv ==
  ASSUME IInv, NEW r \in Requests, ClientStep(r)
  PROVE  IInv'
<1>0. IInv /\ TypeOK /\ OutputsHaveCalls
  BY DEF IInv
<1>1. CASE LoadFails(r) \/ RefusePrompt(r)
           \/ \E c \in HumanCalls : RefuseAnswer(r, c) \/ AnswerFails(r, c)
  <2>1. /\ pc[r] = "new" /\ \E to \in Ended : pc' = [pc EXCEPT ![r] = to]
        /\ UNCHANGED <<log, input, pending, tasks, ready, running, asked, history>>
    BY <1>1 DEF LoadFails, RefusePrompt, RefuseAnswer, AnswerFails, Ended
  <2>2. Quiet
    BY <1>0, <2>1, NoRows DEF history
  <2> QED
    BY <1>0, <2>1, <2>2, BeginStep DEF Quiet, TypeOK, history
<1>2. CASE AcceptPrompt(r)
  <2>1. Quiet
    BY <1>0, <1>2, MessageRows DEF AcceptPrompt
  <2> QED
    BY <1>0, <1>2, <2>1, BeginStep DEF AcceptPrompt, Quiet, TypeOK
<1>3. ASSUME NEW c \in HumanCalls, AcceptAnswer(r, c)
      PROVE  IInv'
  <2>1. c \in Calls /\ c \in Pending(log) /\ c \in Ran
    BY <1>0, <1>3, HumanCallsAssumption DEF AcceptAnswer, Answerable, IInv, AskedSettled
  <2>2. Commit(Output(c, "completed"))
    BY <1>3 DEF AcceptAnswer
  <2>3. Outputs(c, "completed")
    BY <1>0, <2>1, <2>2, OutputRows
  <2>4. Kept /\ Issued' = Issued /\ Ran' = Ran
    BY <2>1, <2>3 DEF Outputs
  <2>5. /\ pc[r] = "new" /\ early' \subseteq Calls
        /\ UNCHANGED <<pending, tasks, ready, running, asked, deserted>>
        /\ \E to \in {"model"} \cup Ended : pc' = [pc EXCEPT ![r] = to]
        /\ input' = input \/ input' = [input EXCEPT ![r] = {}]
    BY <1>0, <1>3, <2>1 DEF AcceptAnswer, LastPending, Ended, TypeOK
  <2> QED
    BY <1>0, <2>4, <2>5, BeginStep
<1> QED
  BY <1>1, <1>2, <1>3 DEF ClientStep

(* A request is aborted: what is left of it runs on, without it.           *)
LEMMA AbortStep ==
  ASSUME IInv, NEW r \in Requests, Abort(r)
  PROVE  IInv'
<1>1. TypeOK /\ Quiet
  BY NoRows DEF IInv, Abort
<1>2. deserted' \subseteq Calls
  BY <1>1 DEF Abort, TypeOK
<1>3. "aborted" \in Ended
  BY DEF Ended
<1>4. /\ End(r, "aborted") /\ running' = running /\ asked' = asked /\ early' = early
  BY DEF Abort
<1> QED
  BY <1>1, <1>2, <1>3, <1>4, EndStep DEF Quiet

LEMMA ResponseInv ==
  ASSUME IInv, NEW r \in Requests, Response(r)
  PROVE  IInv'
<1>0. IInv /\ TypeOK /\ OutputsHaveCalls
  BY DEF IInv
<1>1. PICK S \in Batches : \E k \in Orders(S), said \in Said :
        \/ ModelCalls(r, S, k, said)
        \/ ModelSpeaksAndCalls(r, S, k, said)
        \/ AppendOutputFails(r, S, k, said)
  BY DEF Response
<1>2. PICK k \in Orders(S), said \in Said :
        \/ ModelCalls(r, S, k, said)
        \/ ModelSpeaksAndCalls(r, S, k, said)
        \/ AppendOutputFails(r, S, k, said)
  BY <1>1
<1>3. pc[r] = "model" /\ AppendOutput(S, k, said)
  BY <1>2 DEF ModelCalls, ModelSpeaksAndCalls, AppendOutputFails
<1>4. Issues(S)
  BY <1>0, <1>3, ResponseRows
<1>5. CASE ModelCalls(r, S, k, said) \/ ModelSpeaksAndCalls(r, S, k, said)
  BY <1>0, <1>3, <1>4, <1>5, ResponseStep DEF ModelCalls, ModelSpeaksAndCalls
<1>6. CASE AppendOutputFails(r, S, k, said)
  <2>1. Kept /\ Issued \subseteq Issued' /\ Ran' = Ran
    BY <1>4 DEF Issues
  <2>2. deserted' \subseteq Calls /\ "aborted" \in Ended
    BY <1>0, <1>6 DEF AppendOutputFails, Batches, TypeOK, Ended
  <2> QED
    BY <1>0, <1>6, <2>1, <2>2, EndStep DEF AppendOutputFails
<1> QED
  BY <1>2, <1>5, <1>6

LEMMA ServiceInv ==
  ASSUME IInv, NEW r \in Requests, ServiceStep(r)
  PROVE  IInv'
<1>0. IInv /\ TypeOK /\ OutputsHaveCalls
  BY DEF IInv
<1>1. CASE ModelAnswers(r)
  <2>1. Quiet
    BY <1>0, <1>1, MessageRows DEF ModelAnswers
  <2>2. "served" \in Ended /\ deserted' \subseteq Calls
    BY <1>0, <1>1 DEF Ended, ModelAnswers, TypeOK
  <2> QED
    BY <1>0, <1>1, <2>1, <2>2, EndStep DEF ModelAnswers, Quiet
<1>2. CASE Response(r)
  BY <1>0, <1>2, ResponseInv
<1>3. CASE ModelFails(r) \/ AwaitRaises(r)
  BY <1>0, <1>3, AbortStep DEF ModelFails, AwaitRaises
<1>4. CASE CreateTasks(r)
  BY <1>0, <1>4, CreateStep
<1>5. CASE AwaitTask(r)
  BY <1>0, <1>5, AwaitStep
<1>6. CASE FinishRound(r) /\ ~MustBreak(r)
  BY <1>0, <1>6, FinishStep
<1>7. CASE FinishRound(r) /\ MustBreak(r)
  <2>1. End(r, "served") /\ UNCHANGED <<log, running, asked, lost, deserted, early>>
    BY <1>7 DEF FinishRound, history
  <2>2. Quiet
    BY <1>0, <2>1, NoRows
  <2>3. "served" \in Ended /\ deserted' \subseteq Calls
    BY <1>0, <2>1 DEF Ended, TypeOK
  <2> QED
    BY <1>0, <2>1, <2>2, <2>3, EndStep DEF Quiet
<1> QED
  BY <1>1, <1>2, <1>3, <1>4, <1>5, <1>6, <1>7 DEF ServiceStep

LEMMA InvStep ==
  ASSUME IInv, [Next]_vars
  PROVE  IInv'
<1>1. ASSUME NEW r \in Requests, ClientStep(r) \/ ServiceStep(r) \/ Disconnect(r)
      PROVE  IInv'
  BY <1>1, ClientInv, ServiceInv, AbortStep DEF Disconnect
<1>2. ASSUME NEW c \in Calls, ToolStep(c)
      PROVE  IInv'
  BY <1>2, RunStep, RaiseStep, OrphanStep DEF ToolStep
<1>3. CASE Restart
  BY <1>3, RestartStep
<1>4. CASE UNCHANGED vars
  <2>1. \A r \in Requests : Returned(r)' = Returned(r) /\ Failed(r)' = Failed(r)
    BY <1>4, SameQueue DEF vars
  <2>2. TypeOK /\ Quiet
    BY <1>4, NoRows DEF IInv, vars, history
  <2> QED
    BY <1>4, <2>1, <2>2
    DEF vars, history, IInv, TypeOK, Quiet, Kept, RunningUnsettled, AskedSettled,
        RoundsOwned, InputTracked
<1> QED
  BY <1>1, <1>2, <1>3, <1>4 DEF Next

LEMMA NothingLogged ==
  ASSUME log = << >>
  PROVE  /\ Logged(log) = {} /\ Settled(log) = {}
         /\ Pending(log) = {} /\ Questioned(log) = {}
  BY DEF Logged, Settled, Pending, PendingAt, Questioned

LEMMA InvInit ==
  ASSUME Init
  PROVE  IInv
<1>1. /\ Logged(log) = {} /\ Settled(log) = {}
  BY NothingLogged DEF Init
<1>2. Issued = {} /\ Ran = {}
  BY <1>1 DEF Init, Issued, Ran, LostOutput
<1>3. \A r \in Requests : Returned(r) = {} /\ Failed(r) = {}
  BY EmptyQueue DEF Init
<1>4. TypeOK /\ OutputsHaveCalls
  BY DEF Init, TypeOK, OutputsHaveCalls
<1> QED
  BY <1>2, <1>3, <1>4 DEF Init, IInv, RunningUnsettled, AskedSettled, RoundsOwned, InputTracked

(* The inductive invariant: whose each call is, where each output came     *)
(* from, and what is missing in each input_list, whatever the requests,    *)
(* stray tasks and other Sessions do.                                      *)
THEOREM Invariance == Spec => []IInv
<1>1. IInv /\ [Next]_vars => IInv'
  BY InvStep
<1>2. Init => IInv
  BY InvInit
<1> QED
  BY <1>1, <1>2, PTL DEF Spec

(* The log and the memory of the requests stay well formed.                *)
THEOREM TypeCorrect == Spec => []TypeOK
<1>1. IInv => TypeOK
  BY DEF IInv
<1> QED
  BY <1>1, Invariance, PTL

(* Every output follows its call, with no completed output between them:   *)
(* the loader's KeyError comes only to a session that lost a call's row.   *)
THEOREM OutputsAlwaysHaveCalls == Spec => []OutputsHaveCalls
<1>1. IInv => OutputsHaveCalls
  BY DEF IInv
<1> QED
  BY <1>1, Invariance, PTL

(* The model never sees a call without its output, through approvals,      *)
(* resumed turns, aborted requests and rows rolled back.                   *)
THEOREM InputAlwaysComplete == Spec => []ModelInputComplete
<1>1. ASSUME IInv
      PROVE  ModelInputComplete
  <2>1. ASSUME NEW r \in Requests, pc[r] = "model"
        PROVE  input[r] = {}
    BY <1>1, <2>1 DEF IInv, InputTracked, RoundsOwned
  <2> QED
    BY <2>1 DEF ModelInputComplete
<1> QED
  BY <1>1, Invariance, PTL

-----------------------------------------------------------------------------
(***************************************************************************)
(* The life of each call.                                                  *)
(***************************************************************************)

(* What a step of the service does to the log.                             *)
AnswerOf(c) ==
  c \in HumanCalls /\ c \in asked /\ c \in Pending(log) /\ c \in Questioned(log)

ResultOf(c) == c \in running /\ c \in Calls

LogStep ==
  \/ Quiet
  \/ \E S \in Batches : Issues(S)
  \/ \E c : AnswerOf(c) /\ Outputs(c, "completed")
  \/ \E c : ResultOf(c) /\ Outputs(c, FirstStatus(c))

LEMMA StepRows ==
  ASSUME IInv, [Next]_vars
  PROVE  LogStep
<1>0. TypeOK /\ OutputsHaveCalls /\ RunningUnsettled
  BY DEF IInv
<1>1. UNCHANGED <<log, lost>> => Quiet
  BY <1>0, NoRows
<1>2. ASSUME NEW r \in Requests, ClientStep(r)
      PROVE  LogStep
  <2>1. CASE AcceptPrompt(r)
    <3>1. Quiet
      BY <1>0, <2>1, MessageRows DEF AcceptPrompt
    <3> QED
      BY <3>1 DEF LogStep
  <2>2. ASSUME NEW c \in HumanCalls, AcceptAnswer(r, c)
        PROVE  LogStep
    <3>1. c \in Calls /\ AnswerOf(c) /\ Commit(Output(c, "completed"))
      BY <2>2, HumanCallsAssumption DEF AcceptAnswer, Answerable, AnswerOf
    <3>2. Outputs(c, "completed")
      BY <1>0, <3>1, OutputRows DEF AnswerOf
    <3> QED
      BY <3>1, <3>2 DEF LogStep
  <2>3. CASE UNCHANGED <<log, lost>>
    BY <1>1, <2>3 DEF LogStep
  <2> QED
    BY <1>2, <2>1, <2>2, <2>3
    DEF ClientStep, LoadFails, RefusePrompt, RefuseAnswer, AnswerFails, history
<1>3. ASSUME NEW r \in Requests, ServiceStep(r) \/ Disconnect(r)
      PROVE  LogStep
  <2>1. CASE ModelAnswers(r)
    <3>1. Quiet
      BY <1>0, <2>1, MessageRows DEF ModelAnswers
    <3> QED
      BY <3>1 DEF LogStep
  <2>2. CASE Response(r)
    <3>1. \E S \in Batches : \E k \in Orders(S), said \in Said : AppendOutput(S, k, said)
      BY <2>2 DEF Response, ModelCalls, ModelSpeaksAndCalls, AppendOutputFails
    <3> QED
      BY <1>0, <3>1, ResponseRows DEF LogStep
  <2>3. CASE UNCHANGED <<log, lost>>
    BY <1>1, <2>3 DEF LogStep
  <2> QED
    BY <1>3, <2>1, <2>2, <2>3
    DEF ServiceStep, Disconnect, ModelFails, CreateTasks, AwaitTask, AwaitRaises,
        FinishRound, Abort, history
<1>4. ASSUME NEW c \in Calls, ToolStep(c)
      PROVE  LogStep
  <2>1. CASE (\E r \in Requests : RunToolCall(r, c)) \/ RunOrphan(c)
    <3>1. ResultOf(c) /\ Commit(Output(c, FirstStatus(c)))
      BY <2>1 DEF RunToolCall, RunOrphan, Orphans, ResultOf
    <3>2. FirstStatus(c) \in {"in_progress", "completed"}
      BY DEF FirstStatus
    <3>3. Outputs(c, FirstStatus(c))
      BY <1>0, <3>1, <3>2, RunningMayEnd, OutputRows DEF ResultOf
    <3> QED
      BY <3>1, <3>3 DEF LogStep
  <2>2. CASE (\E r \in Requests : ToolRaises(r, c)) \/ OrphanRaises(c)
    BY <1>1, <2>2 DEF LogStep, ToolRaises, OrphanRaises, history
  <2> QED
    BY <1>4, <2>1, <2>2 DEF ToolStep
<1>5. CASE Restart \/ UNCHANGED vars
  BY <1>1, <1>5 DEF LogStep, Restart, vars, history
<1> QED
  BY <1>2, <1>3, <1>4, <1>5 DEF Next

(* A pending call with an output asks for a human, and only calls of tools *)
(* that ask for one do.                                                    *)
PendingAwaits == Pending(log) \cap Settled(log) \subseteq Questioned(log)
QuestionedHuman == Questioned(log) \subseteq HumanCalls

StageInv == IInv /\ PendingAwaits /\ QuestionedHuman

LEMMA StageInvInit ==
  ASSUME Init
  PROVE  StageInv
<1>1. Pending(log) = {} /\ Questioned(log) = {}
  BY NothingLogged DEF Init
<1> QED
  BY <1>1, InvInit DEF StageInv, PendingAwaits, QuestionedHuman

LEMMA StageInvStep ==
  ASSUME StageInv, [Next]_vars
  PROVE  StageInv'
<1>0. IInv /\ IInv' /\ PendingAwaits /\ QuestionedHuman
  BY InvStep DEF StageInv
<1>1. CASE SameRows
  BY <1>0, <1>1 DEF SameRows, StageInv, PendingAwaits, QuestionedHuman
<1>2. ASSUME NEW S \in Batches, Issues(S)
      PROVE  StageInv'
  <2>1. S \cap Settled(log) = {}
    BY <1>0 DEF Batches, IInv, RunningUnsettled, Ran
  <2> QED
    BY <1>0, <1>2, <2>1 DEF Issues, StageInv, PendingAwaits, QuestionedHuman
<1>3. ASSUME NEW c, AnswerOf(c), OutputKept(c, "completed")
      PROVE  StageInv'
  BY <1>0, <1>3 DEF OutputKept, StageInv, PendingAwaits, QuestionedHuman
<1>4. ASSUME NEW c, ResultOf(c), OutputKept(c, FirstStatus(c))
      PROVE  StageInv'
  BY <1>0, <1>4 DEF OutputKept, FirstStatus, StageInv, PendingAwaits, QuestionedHuman
<1> QED
  BY <1>0, <1>1, <1>2, <1>3, <1>4, StepRows DEF LogStep, Quiet, Outputs

(* Every step of the service is a step of the life of calls, or none.      *)
LEMMA LifecycleStep ==
  ASSUME StageInv, [Next]_vars
  PROVE  [Lifecycle!Next]_([c \in Calls |-> Stage(c)])
<1>0. IInv /\ PendingAwaits /\ QuestionedHuman
  BY DEF StageInv
<1>1. /\ Pending(log) \subseteq Logged(log) /\ Pending(log') \subseteq Logged(log')
      /\ Awaiting(log) = Pending(log) \cap Questioned(log)
      /\ Awaiting(log') = Pending(log') \cap Questioned(log')
      /\ Logged(log) \subseteq Calls
      /\ Questioned(log) \subseteq Settled(log)
  BY SetsOfCalls
<1>2. CASE SameRows
  <2>1. \A c \in Calls : Stage(c)' = Stage(c)
    BY <1>1, <1>2 DEF SameRows, Stage
  <2> QED
    BY <2>1
<1>3. ASSUME NEW S \in Batches, Issues(S)
      PROVE  [Lifecycle!Next]_([c \in Calls |-> Stage(c)])
  <2>1. PICK K \in SUBSET S : /\ Logged(log') = Logged(log) \cup K
                              /\ Pending(log') = Pending(log) \cup K
    BY <1>3 DEF Issues
  <2>2. K \subseteq Calls /\ K \cap Issued = {}
    BY DEF Batches
  <2>3. K \cap Logged(log) = {} /\ K \cap Settled(log) = {}
    BY <1>0, <2>2 DEF Issued, Ran, IInv, RunningUnsettled
  <2>4. Questioned(log') = Questioned(log)
    BY <1>3 DEF Issues
  <2>5. \A c \in Calls : Stage(c)' = IF c \in K THEN "requested" ELSE Stage(c)
    BY <1>1, <2>1, <2>3, <2>4 DEF Stage
  <2>6. CASE K = {}
    BY <2>5, <2>6
  <2>7. CASE K # {}
    <3>1. \A c \in K : Stage(c) = "none"
      BY <2>3 DEF Stage
    <3>2. Lifecycle!Issue(K)
      BY <2>2, <2>5, <2>7, <3>1 DEF Lifecycle!Issue
    <3> QED
      BY <2>2, <3>2 DEF Lifecycle!Next
  <2> QED
    BY <2>6, <2>7
<1>4. ASSUME NEW c, AnswerOf(c), OutputKept(c, "completed")
      PROVE  Lifecycle!Next
  <2>1. c \in Calls /\ c \in HumanCalls /\ c \in Awaiting(log) /\ c \in Logged(log)
    BY <1>1, <1>4, HumanCallsAssumption DEF AnswerOf
  <2>2. Stage(c) = "awaiting"
    BY <1>1, <2>1 DEF Stage
  <2>3. \A d \in Calls : Stage(d)' = IF d = c THEN "completed" ELSE Stage(d)
    BY <1>1, <1>4, <2>1 DEF OutputKept, Stage
  <2>4. Lifecycle!Complete(c)
    BY <2>1, <2>2, <2>3 DEF Lifecycle!Complete
  <2> QED
    BY <2>1, <2>4 DEF Lifecycle!Next
<1>5. ASSUME NEW c, ResultOf(c), OutputKept(c, FirstStatus(c))
      PROVE  [Lifecycle!Next]_([d \in Calls |-> Stage(d)])
  <2>1. c \in Calls /\ c \notin Questioned(log) /\ c \notin Settled(log)
    BY <1>0, <1>1, <1>5 DEF ResultOf, IInv, RunningUnsettled, Ran
  <2>2. CASE c \notin Logged(log)
    <3>1. \A d \in Calls : Stage(d)' = Stage(d)
      BY <1>1, <1>5, <2>1, <2>2 DEF OutputKept, Stage
    <3> QED
      BY <3>1
  <2>3. CASE c \in Logged(log)
    <3>1. c \in Pending(log)
      BY <1>0, <2>1, <2>3, UnsettledIsPending DEF IInv, TypeOK
    <3>2. Stage(c) = "requested"
      BY <1>1, <2>1, <2>3, <3>1 DEF Stage
    <3>3. CASE c \in HumanCalls
      <4>1. \A d \in Calls : Stage(d)' = IF d = c THEN "awaiting" ELSE Stage(d)
        BY <1>1, <1>5, <2>3, <3>1, <3>3 DEF OutputKept, Stage, FirstStatus
      <4>2. Lifecycle!AskHuman(c)
        BY <2>1, <3>2, <3>3, <4>1 DEF Lifecycle!AskHuman
      <4> QED
        BY <2>1, <4>2 DEF Lifecycle!Next
    <3>4. CASE c \notin HumanCalls
      <4>1. \A d \in Calls : Stage(d)' = IF d = c THEN "completed" ELSE Stage(d)
        BY <1>1, <1>5, <2>3, <3>1, <3>4 DEF OutputKept, Stage, FirstStatus
      <4>2. Lifecycle!Complete(c)
        BY <2>1, <3>2, <3>4, <4>1 DEF Lifecycle!Complete
      <4> QED
        BY <2>1, <4>2 DEF Lifecycle!Next
    <3> QED
      BY <3>3, <3>4
  <2> QED
    BY <2>2, <2>3
<1> QED
  BY <1>0, <1>2, <1>3, <1>4, <1>5, StepRows DEF LogStep, Quiet, Outputs

(* The service implements ToolCallLifecycle: however requests, tasks,      *)
(* disconnections, deaths of the process and lost rows interleave, a call  *)
(* of the log is issued once, one that needs a human is completed only     *)
(* from the wait for one, and a completed call stays completed.            *)
THEOREM LifecycleKept == Spec => ImplementsLifecycle
<1>1. ASSUME Init
      PROVE  Lifecycle!Init
  <2>1. Logged(log) = {}
    BY <1>1, NothingLogged DEF Init
  <2> QED
    BY <2>1 DEF Lifecycle!Init, Stage
<1>2. Init => StageInv
  BY StageInvInit
<1>3. StageInv /\ [Next]_vars => StageInv'
  BY StageInvStep
<1>4. StageInv /\ [Next]_vars => [Lifecycle!Next]_([c \in Calls |-> Stage(c)])
  BY LifecycleStep
<1> QED
  BY <1>1, <1>2, <1>3, <1>4, PTL DEF Spec, ImplementsLifecycle, Lifecycle!Spec

-----------------------------------------------------------------------------
(***************************************************************************)
(* Where every call is.  A call is spoken of by the calls the model issued *)
(* and those that ran: whether their rows are in the table or were rolled  *)
(* back makes no difference to the requests.                               *)
(***************************************************************************)

(* A running task belongs to a round, or its own was deserted.             *)
TasksHeld == \A c \in running : c \in deserted \/ \E r \in Requests : c \in tasks[r]

(* A call that has not run is run, about to be run, failed or deserted.    *)
Accounted ==
  \A c \in Issued \ Ran :
    \/ c \in running
    \/ \E r \in Requests : pc[r] = "yield" /\ c \in tasks[r]
    \/ \E r \in Requests : c \in Failed(r)
    \/ c \in deserted

(* A call that asks was put to the client, is about to be, or is deserted. *)
PutToHuman ==
  \A c \in Questioned(log) : c \in asked \cup deserted \/ \E r \in Requests : c \in Returned(r)

(* Only an aborted request deserts its calls.                              *)
Aborted == \E r \in Requests : pc[r] = "aborted"
DesertedAborted == deserted # {} => Aborted

Placed == TasksHeld /\ Accounted /\ PutToHuman

AccountInv == StageInv /\ Placed /\ DesertedAborted

(* Nothing moves but requests that own nothing.                            *)
LEMMA PlacedKept ==
  ASSUME Placed, UNCHANGED <<tasks, ready, running, asked, deserted>>,
         \A s \in Requests : pc[s] = "yield" => pc'[s] = "yield",
         Issued' \ Ran' \subseteq Issued \ Ran, Questioned(log') \subseteq Questioned(log)
  PROVE  Placed'
<1>1. \A s \in Requests : Returned(s)' = Returned(s) /\ Failed(s)' = Failed(s)
  BY SameQueue
<1>2. TasksHeld'
  BY DEF Placed, TasksHeld
<1>3. Accounted'
  BY <1>1 DEF Placed, Accounted
<1>4. PutToHuman'
  BY <1>1 DEF Placed, PutToHuman
<1> QED
  BY <1>2, <1>3, <1>4 DEF Placed

(* A request leaves its round: nothing of it is left, or it is deserted.   *)
LEMMA RoundLeft ==
  ASSUME IInv, Placed, NEW r \in Requests,
         \/ tasks[r] \subseteq deserted'
         \/ pc[r] # "yield" /\ tasks[r] \cap running = {} /\ ready[r] = << >>,
         deserted \subseteq deserted', running' = running, asked' = asked,
         \A s \in Requests : s # r => /\ pc'[s] = pc[s] /\ tasks'[s] = tasks[s]
                                      /\ ready'[s] = ready[s],
         Issued' \ Ran' \subseteq (Issued \ Ran) \cup deserted',
         Questioned(log') = Questioned(log)
  PROVE  Placed'
<1>1. \A s \in Requests : s # r => Returned(s)' = Returned(s) /\ Failed(s)' = Failed(s)
  BY SameQueue
<1>2. Returned(r) \cup Failed(r) \subseteq tasks[r]
  BY DEF IInv, RoundsOwned
<1>3. ready[r] = << >> => Returned(r) = {} /\ Failed(r) = {}
  BY EmptyQueue
<1>4. TasksHeld'
  BY DEF Placed, TasksHeld
<1>5. Accounted'
  <2>1. ASSUME NEW c \in Issued \ Ran
        PROVE  \/ c \in running
               \/ \E s \in Requests : pc'[s] = "yield" /\ c \in tasks'[s]
               \/ \E s \in Requests : c \in Failed(s)'
               \/ c \in deserted'
    <3>1. CASE c \in running \/ c \in deserted
      BY <3>1
    <3>2. ASSUME NEW s \in Requests, (pc[s] = "yield" /\ c \in tasks[s]) \/ c \in Failed(s)
          PROVE  \/ \E q \in Requests : pc'[q] = "yield" /\ c \in tasks'[q]
                 \/ \E q \in Requests : c \in Failed(q)'
                 \/ c \in deserted'
      <4>1. CASE s # r
        BY <1>1, <3>2, <4>1
      <4>2. CASE s = r
        BY <1>2, <1>3, <3>2, <4>2
      <4> QED
        BY <4>1, <4>2
    <3> QED
      BY <3>1, <3>2 DEF Placed, Accounted
  <2> QED
    BY <2>1 DEF Accounted
<1>6. PutToHuman'
  BY <1>1, <1>2, <1>3 DEF Placed, PutToHuman
<1> QED
  BY <1>4, <1>5, <1>6 DEF Placed

(* A response issues calls: they run, or their tasks are about to be       *)
(* created.                                                                *)
LEMMA PlacedResponse ==
  ASSUME IInv, Placed, NEW r \in Requests, pc[r] = "model",
         NEW S \in Batches, Issues(S),
         UNCHANGED <<ready, asked, deserted>>,
         tasks' = [tasks EXCEPT ![r] = S],
         \/ /\ running' = running \cup S
            /\ pc' = [pc EXCEPT ![r] = "tools"]
         \/ /\ running' = running
            /\ pc' = [pc EXCEPT ![r] = "yield"]
  PROVE  Placed'
<1>1. /\ Issued' = Issued \cup S /\ Ran' = Ran /\ Questioned(log') = Questioned(log)
  BY DEF Issues
<1>2. TypeOK /\ tasks[r] = {}
  BY DEF IInv, RoundsOwned
<1>3. /\ tasks'[r] = S
      /\ \A s \in Requests : s # r => tasks'[s] = tasks[s] /\ pc'[s] = pc[s]
      /\ \/ running' = running \cup S
         \/ pc'[r] = "yield" /\ running' = running
  BY <1>2 DEF TypeOK
<1>4. \A s \in Requests : Returned(s)' = Returned(s) /\ Failed(s)' = Failed(s)
  BY SameQueue
<1>5. TasksHeld'
  BY <1>2, <1>3 DEF Placed, TasksHeld
<1>6. Accounted'
  BY <1>1, <1>2, <1>3, <1>4 DEF Placed, Accounted
<1>7. PutToHuman'
  BY <1>1, <1>4 DEF Placed, PutToHuman
<1> QED
  BY <1>5, <1>6, <1>7 DEF Placed

LEMMA PlacedCreate ==
  ASSUME IInv, Placed, NEW r \in Requests, CreateTasks(r)
  PROVE  Placed'
<1> USE DEF CreateTasks
<1>1. TypeOK /\ Quiet
  BY NoRows DEF IInv, history
<1>2. \A s \in Requests : Returned(s)' = Returned(s) /\ Failed(s)' = Failed(s)
  BY SameQueue
<1>3. \A s \in Requests : s # r => pc'[s] = pc[s]
  BY <1>1 DEF TypeOK
<1>4. TasksHeld'
  BY DEF Placed, TasksHeld, history
<1>5. Accounted'
  BY <1>1, <1>2, <1>3 DEF Placed, Accounted, Quiet, history
<1>6. PutToHuman'
  BY <1>2 DEF Placed, PutToHuman, history
<1> QED
  BY <1>4, <1>5, <1>6 DEF Placed

(* A task ends: its result, or its exception, is queued.                   *)
LEMMA PlacedResult ==
  ASSUME IInv, Placed, NEW r \in Requests, NEW c \in Calls,
         RunToolCall(r, c) \/ ToolRaises(r, c)
  PROVE  Placed'
<1>1. TypeOK /\ OutputsHaveCalls /\ RunningUnsettled /\ c \in tasks[r] /\ c \in running
  BY DEF IInv, RunToolCall, ToolRaises
<1>2. /\ running' = running \ {c}
      /\ UNCHANGED <<pc, tasks, asked, deserted>>
  BY DEF RunToolCall, ToolRaises, history
<1>3. PICK ok \in BOOLEAN :
        /\ ready' = [ready EXCEPT ![r] = Append(@, [call |-> c, ok |-> ok])]
        /\ Issued' = Issued /\ Ran \subseteq Ran' /\ (ok => c \in Ran')
        /\ Questioned(log') \subseteq Questioned(log) \cup (IF ok THEN {c} ELSE {})
  <2>1. CASE RunToolCall(r, c)
    <3>1. FirstStatus(c) \in {"in_progress", "completed"}
      BY DEF FirstStatus
    <3>2. Outputs(c, FirstStatus(c))
      BY <1>1, <2>1, <3>1, RunningMayEnd, OutputRows DEF RunToolCall
    <3>3. /\ Issued' = Issued /\ Ran \subseteq Ran' /\ c \in Ran'
          /\ Questioned(log') \subseteq Questioned(log) \cup {c}
      BY <3>2 DEF Outputs, OutputKept, SameRows
    <3> QED
      BY <2>1, <3>3 DEF RunToolCall
  <2>2. CASE ToolRaises(r, c)
    <3>1. Quiet
      BY <1>1, <2>2, NoRows DEF ToolRaises, history
    <3> QED
      BY <2>2, <3>1 DEF ToolRaises, Quiet, SameRows
  <2> QED
    BY <2>1, <2>2
<1>4. /\ Returned(r)' = Returned(r) \cup (IF ok THEN {c} ELSE {})
      /\ Failed(r)' = Failed(r) \cup (IF ok THEN {} ELSE {c})
      /\ \A s \in Requests : s # r => ready'[s] = ready[s]
  BY <1>1, <1>3, ResultQueued
<1>5. \A s \in Requests : Returned(s) \subseteq Returned(s)' /\ Failed(s) \subseteq Failed(s)'
  BY <1>4, SameQueue
<1>6. TasksHeld'
  BY <1>2 DEF Placed, TasksHeld
<1>7. Accounted'
  BY <1>2, <1>3, <1>4, <1>5 DEF Placed, Accounted
<1>8. PutToHuman'
  BY <1>2, <1>3, <1>4, <1>5 DEF Placed, PutToHuman
<1> QED
  BY <1>6, <1>7, <1>8 DEF Placed

(* The task of a deserted call ends.                                       *)
LEMMA PlacedOrphan ==
  ASSUME IInv, Placed, NEW c \in Calls, RunOrphan(c) \/ OrphanRaises(c)
  PROVE  Placed'
<1>1. /\ TypeOK /\ OutputsHaveCalls /\ RunningUnsettled
      /\ c \in running /\ \A r \in Requests : c \notin tasks[r]
  BY DEF IInv, RunOrphan, OrphanRaises, Orphans
<1>2. c \in deserted
  BY <1>1 DEF Placed, TasksHeld
<1>3. /\ running' = running \ {c}
      /\ UNCHANGED <<pc, tasks, ready, asked, deserted>>
  BY DEF RunOrphan, OrphanRaises, history
<1>4. /\ Issued' = Issued /\ Ran \subseteq Ran'
      /\ Questioned(log') \subseteq Questioned(log) \cup {c}
  <2>1. CASE RunOrphan(c)
    <3>1. FirstStatus(c) \in {"in_progress", "completed"}
      BY DEF FirstStatus
    <3>2. Outputs(c, FirstStatus(c))
      BY <1>1, <2>1, <3>1, RunningMayEnd, OutputRows DEF RunOrphan
    <3> QED
      BY <3>2 DEF Outputs, OutputKept, SameRows
  <2>2. CASE OrphanRaises(c)
    <3>1. Quiet
      BY <1>1, <2>2, NoRows DEF OrphanRaises, history
    <3> QED
      BY <3>1 DEF Quiet, SameRows
  <2> QED
    BY <2>1, <2>2
<1>5. \A s \in Requests : Returned(s)' = Returned(s) /\ Failed(s)' = Failed(s)
  BY <1>3, SameQueue
<1>6. TasksHeld'
  BY <1>3 DEF Placed, TasksHeld
<1>7. Accounted'
  BY <1>2, <1>3, <1>4, <1>5 DEF Placed, Accounted
<1>8. PutToHuman'
  BY <1>2, <1>3, <1>4, <1>5 DEF Placed, PutToHuman
<1> QED
  BY <1>6, <1>7, <1>8 DEF Placed

(* A result is awaited: if it asks for human input, the client is told.    *)
LEMMA PlacedAwait ==
  ASSUME StageInv, Placed, NEW r \in Requests, AwaitTask(r)
  PROVE  Placed'
<1> USE DEF AwaitTask
<1>1. TypeOK /\ Quiet /\ QuestionedHuman
  BY NoRows DEF StageInv, IInv, history
<1>2. /\ Returned(r) = Returned(r)' \cup {Head(ready[r]).call}
      /\ Failed(r)' = Failed(r)
      /\ \A s \in Requests : s # r => ready'[s] = ready[s]
  BY <1>1, HeadTaken
<1>3. \A s \in Requests : s # r => Returned(s)' = Returned(s) /\ Failed(s)' = Failed(s)
  BY <1>2, SameQueue
<1>4. TasksHeld'
  BY DEF Placed, TasksHeld, history
<1>5. Accounted'
  BY <1>1, <1>2, <1>3 DEF Placed, Accounted, Quiet, history
<1>6. PutToHuman'
  <2>1. ASSUME NEW c \in Questioned(log), NEW s \in Requests, c \in Returned(s)
        PROVE  c \in asked' \/ \E q \in Requests : c \in Returned(q)'
    <3>1. c \in HumanCalls
      BY <1>1 DEF QuestionedHuman
    <3> QED
      BY <1>2, <1>3, <2>1, <3>1 DEF HumanInputRequired
  <2> QED
    BY <2>1 DEF Placed, PutToHuman, history
<1> QED
  BY <1>4, <1>5, <1>6 DEF Placed

(* An aborted request stays one, through restarts too, and what a step     *)
(* deserts is a round whose request it aborts.                             *)
LEMMA AbortedStays ==
  ASSUME TypeOK, [Next]_vars, Aborted
  PROVE  Aborted'
<1>1. PICK s \in Requests : pc[s] = "aborted"
  BY DEF Aborted
<1> SUFFICES pc'[s] = "aborted"
  BY DEF Aborted
<1>2. ASSUME NEW r \in Requests, ClientStep(r)
      PROVE  pc'[s] = "aborted"
  BY <1>1, <1>2
  DEF ClientStep, LoadFails, AcceptPrompt, RefusePrompt, AcceptAnswer, RefuseAnswer,
      AnswerFails, TypeOK
<1>3. ASSUME NEW r \in Requests, ServiceStep(r) \/ Disconnect(r)
      PROVE  pc'[s] = "aborted"
  <2>1. CASE Response(r)
    BY <1>1, <2>1
    DEF Response, ModelCalls, ModelSpeaksAndCalls, AppendOutputFails, End, TypeOK
  <2> QED
    BY <1>1, <1>3, <2>1
    DEF ServiceStep, Disconnect, ModelAnswers, ModelFails, CreateTasks, AwaitTask, AwaitRaises,
        FinishRound, RoundOver, Abort, End, Live, TypeOK
<1>4. ASSUME NEW c \in Calls, ToolStep(c)
      PROVE  pc'[s] = "aborted"
  BY <1>1, <1>4 DEF ToolStep, RunToolCall, ToolRaises, RunOrphan, OrphanRaises
<1>5. CASE Restart
  BY <1>1, <1>5 DEF Restart, Live
<1> QED
  BY <1>1, <1>2, <1>3, <1>4, <1>5 DEF Next, vars

LEMMA EndsAborted ==
  ASSUME TypeOK, NEW r \in Requests, End(r, "aborted")
  PROVE  Aborted'
  BY DEF End, Aborted, TypeOK

LEMMA PlacedClient ==
  ASSUME StageInv, Placed, NEW r \in Requests, ClientStep(r)
  PROVE  Placed' /\ deserted' = deserted
<1>0. TypeOK /\ OutputsHaveCalls
  BY DEF StageInv, IInv
<1>1. UNCHANGED <<tasks, ready, running, asked, deserted>>
  BY DEF ClientStep, LoadFails, AcceptPrompt, RefusePrompt, AcceptAnswer, RefuseAnswer,
         AnswerFails, history
<1>2. \A s \in Requests : pc[s] = "yield" => pc'[s] = "yield"
  BY <1>0 DEF ClientStep, LoadFails, AcceptPrompt, RefusePrompt, AcceptAnswer, RefuseAnswer,
              AnswerFails, TypeOK
<1>3. Issued' \ Ran' \subseteq Issued \ Ran /\ Questioned(log') \subseteq Questioned(log)
  <2>1. CASE AcceptPrompt(r)
    BY <1>0, <2>1, MessageRows DEF AcceptPrompt, Quiet, SameRows
  <2>2. ASSUME NEW c \in HumanCalls, AcceptAnswer(r, c)
        PROVE  Issued' \ Ran' \subseteq Issued \ Ran /\ Questioned(log') \subseteq Questioned(log)
    <3>1. c \in Calls /\ c \in Pending(log) /\ Commit(Output(c, "completed"))
      BY <2>2, HumanCallsAssumption DEF AcceptAnswer, Answerable
    <3>2. Outputs(c, "completed")
      BY <1>0, <3>1, OutputRows
    <3> QED
      BY <3>2 DEF Outputs, OutputKept, SameRows
  <2>3. CASE UNCHANGED <<log, lost>>
    BY <1>0, <2>3, NoRows DEF Quiet, SameRows
  <2> QED
    BY <2>1, <2>2, <2>3
    DEF ClientStep, LoadFails, RefusePrompt, RefuseAnswer, AnswerFails, history
<1> QED
  BY <1>1, <1>2, <1>3, PlacedKept

(* A request that ends: what a round leaves behind is deserted.            *)
LEMMA PlacedEnd ==
  ASSUME IInv, Placed, NEW r \in Requests, NEW how, End(r, how),
         \/ tasks[r] \subseteq deserted'
         \/ pc[r] # "yield" /\ tasks[r] \cap running = {} /\ ready[r] = << >>,
         deserted \subseteq deserted', running' = running, asked' = asked,
         Issued' \ Ran' \subseteq (Issued \ Ran) \cup deserted',
         Questioned(log') = Questioned(log)
  PROVE  Placed'
<1>1. \A s \in Requests : s # r => /\ pc'[s] = pc[s] /\ tasks'[s] = tasks[s]
                                   /\ ready'[s] = ready[s]
  BY DEF End, IInv, TypeOK
<1> QED
  BY <1>1, RoundLeft

LEMMA PlacedAbort ==
  ASSUME IInv, Placed, NEW r \in Requests, Abort(r)
  PROVE  Placed' /\ Aborted'
<1>1. TypeOK /\ Quiet
  BY NoRows DEF IInv, Abort
<1>2. /\ End(r, "aborted") /\ deserted' = deserted \cup tasks[r]
      /\ running' = running /\ asked' = asked
  BY DEF Abort
<1>3. Placed'
  BY <1>1, <1>2, PlacedEnd DEF Quiet, SameRows
<1> QED
  BY <1>1, <1>2, <1>3, EndsAborted

LEMMA PlacedService ==
  ASSUME StageInv, Placed, NEW r \in Requests, ServiceStep(r)
  PROVE  Placed' /\ (deserted' = deserted \/ Aborted')
<1>0. IInv /\ TypeOK /\ OutputsHaveCalls
  BY DEF StageInv, IInv
<1>1. pc[r] = "model" => tasks[r] = {} /\ ready[r] = << >>
  BY <1>0 DEF IInv, RoundsOwned
<1>2. CASE ModelAnswers(r)
  <2>1. Quiet
    BY <1>0, <1>2, MessageRows DEF ModelAnswers
  <2>2. pc[r] = "model" /\ End(r, "served") /\ UNCHANGED <<running, asked, deserted>>
    BY <1>2 DEF ModelAnswers
  <2> QED
    BY <1>0, <1>1, <2>1, <2>2, PlacedEnd DEF Quiet, SameRows
<1>3. CASE Response(r)
  <2>1. PICK S \in Batches : \E k \in Orders(S), said \in Said :
          \/ ModelCalls(r, S, k, said)
          \/ ModelSpeaksAndCalls(r, S, k, said)
          \/ AppendOutputFails(r, S, k, said)
    BY <1>3 DEF Response
  <2>2. PICK k \in Orders(S), said \in Said :
          \/ ModelCalls(r, S, k, said)
          \/ ModelSpeaksAndCalls(r, S, k, said)
          \/ AppendOutputFails(r, S, k, said)
    BY <2>1
  <2>3. pc[r] = "model" /\ AppendOutput(S, k, said)
    BY <2>2 DEF ModelCalls, ModelSpeaksAndCalls, AppendOutputFails
  <2>4. Issues(S)
    BY <1>0, <2>3, ResponseRows
  <2>5. CASE ModelCalls(r, S, k, said) \/ ModelSpeaksAndCalls(r, S, k, said)
    <3>1. /\ UNCHANGED <<ready, asked, deserted>>
          /\ tasks' = [tasks EXCEPT ![r] = S]
          /\ \/ /\ running' = running \cup S
                /\ pc' = [pc EXCEPT ![r] = "tools"]
             \/ /\ running' = running
                /\ pc' = [pc EXCEPT ![r] = "yield"]
      BY <2>5 DEF ModelCalls, ModelSpeaksAndCalls
    <3> QED
      BY <1>0, <2>3, <2>4, <3>1, PlacedResponse
  <2>6. CASE AppendOutputFails(r, S, k, said)
    <3>1. End(r, "aborted") /\ UNCHANGED <<running, asked>> /\ deserted' = deserted \cup S
      BY <2>6 DEF AppendOutputFails
    <3>2. /\ Issued' = Issued \cup S /\ Ran' = Ran /\ Questioned(log') = Questioned(log)
      BY <2>4 DEF Issues
    <3> QED
      BY <1>0, <1>1, <2>3, <3>1, <3>2, PlacedEnd, EndsAborted
  <2> QED
    BY <2>2, <2>5, <2>6
<1>4. CASE ModelFails(r) \/ AwaitRaises(r)
  BY <1>0, <1>4, PlacedAbort DEF ModelFails, AwaitRaises
<1>5. CASE CreateTasks(r)
  BY <1>0, <1>5, PlacedCreate DEF CreateTasks, history
<1>6. CASE AwaitTask(r)
  BY <1>6, PlacedAwait DEF AwaitTask, history
<1>7. CASE FinishRound(r)
  <2>1. /\ pc[r] = "tools" /\ tasks[r] \cap running = {} /\ ready[r] = << >>
        /\ UNCHANGED <<log, running, asked, lost, deserted, early>>
    BY <1>7 DEF FinishRound, RoundOver, history
  <2>2. Quiet
    BY <1>0, <2>1, NoRows
  <2>3. \A s \in Requests : s # r => /\ pc'[s] = pc[s] /\ tasks'[s] = tasks[s]
                                     /\ ready'[s] = ready[s]
    BY <1>0, <1>7 DEF FinishRound, End, TypeOK
  <2> QED
    BY <1>0, <2>1, <2>2, <2>3, RoundLeft DEF Quiet, SameRows
<1> QED
  BY <1>2, <1>3, <1>4, <1>5, <1>6, <1>7 DEF ServiceStep

LEMMA PlacedRestart ==
  ASSUME IInv, Placed, Restart
  PROVE  Placed' /\ (deserted' = deserted \/ Aborted')
<1> USE DEF Restart
<1>1. TypeOK /\ Quiet
  BY NoRows DEF IInv, history
<1>2. deserted' = deserted \cup UNION {tasks[r] : r \in Requests}
  OBVIOUS
<1>3. \A r \in Requests : tasks[r] \subseteq deserted'
  BY <1>2
<1>4. \A r \in Requests : Returned(r) \cup Failed(r) \subseteq tasks[r]
  BY DEF IInv, RoundsOwned
<1>5. TasksHeld'
  BY DEF TasksHeld
<1>6. Accounted'
  <2>1. ASSUME NEW c \in Issued \ Ran
        PROVE  c \in deserted'
    BY <1>2, <1>3, <1>4 DEF Placed, Accounted, TasksHeld
  <2> QED
    BY <1>1, <2>1 DEF Accounted, Quiet
<1>7. PutToHuman'
  BY <1>2, <1>3, <1>4 DEF Placed, PutToHuman
<1>8. CASE \A r \in Requests : tasks[r] = {}
  BY <1>5, <1>6, <1>7, <1>8 DEF Placed
<1>9. ASSUME NEW r \in Requests, tasks[r] # {}
      PROVE  Aborted'
  BY <1>9 DEF IInv, RoundsOwned, Live, Aborted
<1> QED
  BY <1>5, <1>6, <1>7, <1>8, <1>9 DEF Placed

LEMMA AccountInvStep ==
  ASSUME AccountInv, [Next]_vars
  PROVE  AccountInv'
<1>0. StageInv /\ StageInv' /\ IInv /\ TypeOK /\ Placed /\ DesertedAborted
  BY StageInvStep DEF AccountInv, StageInv, IInv
<1>1. Placed' /\ (deserted' = deserted \/ Aborted')
  <2>1. ASSUME NEW r \in Requests, ClientStep(r) \/ ServiceStep(r) \/ Disconnect(r)
        PROVE  Placed' /\ (deserted' = deserted \/ Aborted')
    BY <1>0, <2>1, PlacedClient, PlacedService, PlacedAbort DEF Disconnect
  <2>2. ASSUME NEW c \in Calls, ToolStep(c)
        PROVE  Placed' /\ deserted' = deserted
    <3>1. deserted' = deserted
      BY <2>2 DEF ToolStep, RunToolCall, ToolRaises, RunOrphan, OrphanRaises, history
    <3> QED
      BY <1>0, <2>2, <3>1, PlacedResult, PlacedOrphan DEF ToolStep
  <2>3. CASE Restart
    BY <1>0, <2>3, PlacedRestart
  <2>4. CASE UNCHANGED vars
    <3>1. Quiet
      BY <1>0, <2>4, NoRows DEF vars, history, IInv
    <3> QED
      BY <1>0, <2>4, <3>1, PlacedKept DEF vars, history, Quiet, SameRows
  <2> QED
    BY <2>1, <2>2, <2>3, <2>4 DEF Next
<1>2. DesertedAborted'
  BY <1>0, <1>1, AbortedStays DEF DesertedAborted
<1> QED
  BY <1>0, <1>1, <1>2 DEF AccountInv

LEMMA AccountInvInit ==
  ASSUME Init
  PROVE  AccountInv
<1>1. Logged(log) = {} /\ Questioned(log) = {}
  BY NothingLogged DEF Init
<1>2. Issued = {} /\ running = {} /\ deserted = {}
  BY <1>1 DEF Init, Issued
<1> QED
  BY <1>1, <1>2, StageInvInit
  DEF AccountInv, Placed, TasksHeld, Accounted, PutToHuman, DesertedAborted

(* No tool call is dropped: one without an output is held by a running     *)
(* task, by a request about to create its tasks, or by one about to meet   *)
(* its exception, unless its own request was aborted in its round or its   *)
(* output was rolled back.                                                 *)
THEOREM CallsAlwaysAccounted == Spec => []CallsAccounted
<1>1. AccountInv => CallsAccounted
  BY DEF AccountInv, Placed, Accounted, CallsAccounted, Issued, Ran
<1>2. Init => AccountInv
  BY AccountInvInit
<1>3. AccountInv /\ [Next]_vars => AccountInv'
  BY AccountInvStep
<1> QED
  BY <1>1, <1>2, <1>3, PTL DEF Spec

(* Every call that waits for a human was put to the client, or a live      *)
(* request is about to, unless its own request was aborted in its round.   *)
THEOREM HumanAlwaysAsked == Spec => []HumanAsked
<1>1. AccountInv => HumanAsked
  BY SetsOfCalls DEF AccountInv, Placed, PutToHuman, HumanAsked
<1>2. Init => AccountInv
  BY AccountInvInit
<1>3. AccountInv /\ [Next]_vars => AccountInv'
  BY AccountInvStep
<1> QED
  BY <1>1, <1>2, <1>3, PTL DEF Spec

-----------------------------------------------------------------------------
(***************************************************************************)
(* The turn, while no row was lost and no answer came early.               *)
(***************************************************************************)
Undisturbed == lost = {} /\ early = {}

(* What makes a request break off is a call that still waits for a human.  *)
PendingHeld == Undisturbed => \A r \in Requests : pending[r] \subseteq Awaiting(log)

TurnInv == AccountInv /\ PendingHeld /\ NoStall

LEMMA UndisturbedBefore ==
  ASSUME IInv, [Next]_vars, Undisturbed'
  PROVE  Undisturbed
<1>1. lost \subseteq lost'
  BY StepRows DEF LogStep, Quiet, Issues, Outputs, Kept
<1>2. early \subseteq early'
  <2>1. ASSUME NEW r \in Requests, ServiceStep(r)
        PROVE  early' = early
    <3>1. Response(r) => early' = early
      BY DEF Response, ModelCalls, ModelSpeaksAndCalls, AppendOutputFails
    <3> QED
      BY <2>1, <3>1
      DEF ServiceStep, ModelAnswers, ModelFails, CreateTasks, AwaitTask, AwaitRaises,
          FinishRound, Abort, history
  <2>2. ASSUME NEW r \in Requests, ClientStep(r)
        PROVE  early \subseteq early'
    BY <2>2
    DEF ClientStep, LoadFails, AcceptPrompt, RefusePrompt, AcceptAnswer, RefuseAnswer,
        AnswerFails, history
  <2>3. ASSUME NEW c \in Calls, ToolStep(c)
        PROVE  early' = early
    BY <2>3 DEF ToolStep, RunToolCall, ToolRaises, RunOrphan, OrphanRaises, history
  <2> QED
    BY <2>1, <2>2, <2>3 DEF Next, Disconnect, Abort, Restart, vars, history
<1> QED
  BY <1>1, <1>2 DEF Undisturbed

(* With no row lost, what the model issued is logged, and what ran has an  *)
(* output.                                                                 *)
LEMMA NothingLost ==
  ASSUME lost = {}
  PROVE  Issued = Logged(log) /\ Ran = Settled(log)
  BY DEF Issued, Ran, LostOutput

(* When no task runs and no request is live, every pending call waits for  *)
(* a human.                                                                *)
LEMMA QuiescentWaits ==
  ASSUME AccountInv, Quiescent, ~Aborted, lost = {}
  PROVE  Pending(log) \subseteq Awaiting(log)
<1>1. Placed /\ PendingAwaits /\ RoundsOwned /\ deserted = {}
  BY DEF AccountInv, StageInv, IInv, DesertedAborted
<1>2. running = {} /\ \A r \in Requests : pc[r] # "yield" /\ pc[r] # "tools"
  BY DEF Quiescent, Live
<1>3. \A r \in Requests : Failed(r) = {}
  BY <1>1, <1>2 DEF RoundsOwned
<1>4. Logged(log) \subseteq Settled(log)
  BY <1>1, <1>2, <1>3, NothingLost DEF Placed, Accounted
<1> QED
  BY <1>1, <1>4, SetsOfCalls DEF PendingAwaits

(* No step takes from a live request a call that it waits for, but an      *)
(* early answer.                                                           *)
LEMMA PendingHeldStep ==
  ASSUME StageInv, PendingHeld, [Next]_vars
  PROVE  PendingHeld'
<1> SUFFICES ASSUME Undisturbed', NEW s \in Requests
             PROVE  pending'[s] \subseteq Awaiting(log')
  BY DEF PendingHeld
<1>0. /\ IInv /\ TypeOK /\ OutputsHaveCalls /\ RunningUnsettled /\ RoundsOwned
      /\ Undisturbed /\ pending[s] \subseteq Awaiting(log)
  BY UndisturbedBefore DEF StageInv, IInv, PendingHeld
<1>1. /\ Awaiting(log) = Pending(log) \cap Questioned(log)
      /\ Awaiting(log') = Pending(log') \cap Questioned(log')
      /\ Questioned(log) \subseteq Settled(log)
  BY SetsOfCalls
<1>2. SameRows => Awaiting(log') = Awaiting(log)
  BY <1>1 DEF SameRows
<1>3. UNCHANGED <<log, lost>> => Awaiting(log') = Awaiting(log)
  BY <1>0, <1>2, NoRows DEF Quiet
<1>4. ASSUME NEW r \in Requests, ClientStep(r)
      PROVE  pending'[s] \subseteq Awaiting(log')
  <2>1. pending' = pending
    BY <1>4
    DEF ClientStep, LoadFails, AcceptPrompt, RefusePrompt, AcceptAnswer, RefuseAnswer, AnswerFails
  <2>2. CASE AcceptPrompt(r)
    BY <1>0, <1>2, <2>1, <2>2, MessageRows DEF AcceptPrompt, Quiet
  <2>3. ASSUME NEW c \in HumanCalls, AcceptAnswer(r, c)
        PROVE  pending'[s] \subseteq Awaiting(log')
    <3>1. c \in Calls /\ c \in Pending(log) /\ Commit(Output(c, "completed"))
      BY <2>3, HumanCallsAssumption DEF AcceptAnswer, Answerable
    <3>2. Outputs(c, "completed")
      BY <1>0, <3>1, OutputRows
    <3>3. Awaiting(log) \subseteq Awaiting(log') \cup {c}
      BY <1>1, <1>2, <3>2 DEF Outputs, OutputKept
    <3>4. c \notin pending[s]
      BY <1>0, <2>3 DEF AcceptAnswer, RoundsOwned, Undisturbed
    <3> QED
      BY <1>0, <2>1, <3>3, <3>4
  <2>4. CASE UNCHANGED <<log, lost>>
    BY <1>0, <1>3, <2>1, <2>4
  <2> QED
    BY <1>4, <2>2, <2>3, <2>4
    DEF ClientStep, LoadFails, RefusePrompt, RefuseAnswer, AnswerFails, history
<1>5. ASSUME NEW r \in Requests, ServiceStep(r) \/ Disconnect(r)
      PROVE  pending'[s] \subseteq Awaiting(log')
  <2>1. CASE ModelAnswers(r)
    <3>1. pending'[s] \subseteq pending[s]
      BY <1>0, <2>1 DEF ModelAnswers, End, TypeOK
    <3> QED
      BY <1>0, <1>2, <2>1, <3>1, MessageRows DEF ModelAnswers, Quiet
  <2>2. CASE Response(r)
    <3>1. PICK S \in Batches : \E k \in Orders(S), said \in Said :
            /\ AppendOutput(S, k, said)
            /\ pending' = pending \/ pending' = [pending EXCEPT ![r] = {}]
      BY <2>2 DEF Response, ModelCalls, ModelSpeaksAndCalls, AppendOutputFails, End
    <3>2. Issues(S) /\ pending'[s] \subseteq pending[s]
      BY <1>0, <3>1, ResponseRows DEF TypeOK
    <3> QED
      BY <1>0, <1>1, <3>2 DEF Issues
  <2>3. CASE UNCHANGED <<log, lost>>
    <3>1. CASE Response(r) \/ ModelAnswers(r)
      BY <2>1, <2>2, <3>1
    <3>2. CASE ~(Response(r) \/ ModelAnswers(r))
      <4>1. pending'[s] \subseteq pending[s]
        BY <1>0, <1>5, <3>2
        DEF ServiceStep, Disconnect, ModelFails, CreateTasks, AwaitTask, AwaitRaises,
            FinishRound, Abort, End, TypeOK
      <4> QED
        BY <1>0, <1>3, <2>3, <4>1
    <3> QED
      BY <3>1, <3>2
  <2> QED
    BY <1>5, <2>1, <2>2, <2>3
    DEF ServiceStep, Disconnect, ModelFails, CreateTasks, AwaitTask, AwaitRaises,
        FinishRound, Abort, history
<1>6. ASSUME NEW c \in Calls, ToolStep(c)
      PROVE  pending'[s] \subseteq Awaiting(log')
  <2>1. CASE (\E r \in Requests : RunToolCall(r, c)) \/ RunOrphan(c)
    <3>1. c \in running /\ Commit(Output(c, FirstStatus(c)))
      BY <2>1 DEF RunToolCall, RunOrphan, Orphans
    <3>2. FirstStatus(c) \in {"in_progress", "completed"}
      BY DEF FirstStatus
    <3>3. c \in Pending(log) /\ c \notin Settled(log)
      BY <1>0, <3>1, RunningMayEnd DEF Undisturbed, RunningUnsettled, Ran
    <3>4. Outputs(c, FirstStatus(c))
      BY <1>0, <3>1, <3>2, <3>3, OutputRows
    <3>5. OutputKept(c, FirstStatus(c))
      BY <3>4 DEF Outputs, Undisturbed
    <3>6. CASE c \in HumanCalls
      <4>1. Awaiting(log') = Awaiting(log) \cup {c}
        BY <1>1, <3>3, <3>5, <3>6 DEF OutputKept, FirstStatus
      <4>2. pending'[s] \subseteq pending[s] \cup {c}
        BY <1>0, <2>1, <3>6 DEF RunToolCall, RunOrphan, FirstStatus, TypeOK
      <4> QED
        BY <1>0, <4>1, <4>2
    <3>7. CASE c \notin HumanCalls
      <4>1. Awaiting(log') = Awaiting(log)
        BY <1>1, <3>3, <3>5, <3>7 DEF OutputKept, FirstStatus
      <4>2. pending' = pending
        BY <2>1, <3>7 DEF RunToolCall, RunOrphan, FirstStatus
      <4> QED
        BY <1>0, <4>1, <4>2
    <3> QED
      BY <3>6, <3>7
  <2>2. CASE (\E r \in Requests : ToolRaises(r, c)) \/ OrphanRaises(c)
    BY <1>0, <1>3, <2>2 DEF ToolRaises, OrphanRaises, history
  <2> QED
    BY <1>6, <2>1, <2>2 DEF ToolStep
<1>7. CASE Restart
  BY <1>7 DEF Restart
<1>8. CASE UNCHANGED vars
  BY <1>0, <1>3, <1>8 DEF vars, history
<1> QED
  BY <1>4, <1>5, <1>6, <1>7, <1>8 DEF Next

LEMMA NoStallStep ==
  ASSUME AccountInv, AccountInv', PendingHeld, NoStall, [Next]_vars
  PROVE  NoStall'
<1> DEFINE Goes == log'[Len(log')].type = "assistant" \/ Awaiting(log') # {}
<1> SUFFICES ASSUME Quiescent', ~Aborted', log' # << >>, Undisturbed'
             PROVE  Goes
  BY DEF NoStall, Aborted, Undisturbed
<1>0. /\ StageInv /\ IInv /\ TypeOK /\ OutputsHaveCalls /\ RoundsOwned /\ Placed
      /\ Undisturbed /\ ~Aborted /\ deserted = {}
  BY AbortedStays, UndisturbedBefore DEF AccountInv, StageInv, IInv, DesertedAborted
<1>1. Pending(log') \subseteq Awaiting(log')
  <2>1. AccountInv' /\ Quiescent' /\ ~Aborted' /\ (lost = {})'
          => (Pending(log) \subseteq Awaiting(log))'
    BY QuiescentWaits, PTL
  <2> QED
    BY <2>1 DEF Undisturbed
<1>2. ASSUME Quiescent, log' = log
      PROVE  Goes
  BY <1>0, <1>2 DEF NoStall, Aborted, Undisturbed
<1>3. \A r \in Requests : pc'[r] \notin Live
  BY DEF Quiescent
<1> HIDE DEF Goes
<1>4. ASSUME NEW r \in Requests, ClientStep(r)
      PROVE  Goes
  <2>1. CASE AcceptPrompt(r)
    BY <1>0, <1>3, <2>1 DEF AcceptPrompt, Live, TypeOK
  <2>2. ASSUME NEW c \in HumanCalls, AcceptAnswer(r, c)
        PROVE  Goes
    <3>1. c \in Calls /\ c \in Pending(log) /\ Commit(Output(c, "completed"))
      BY <2>2, HumanCallsAssumption DEF AcceptAnswer, Answerable
    <3>2. Outputs(c, "completed")
      BY <1>0, <3>1, OutputRows
    <3>3. Pending(log') = Pending(log) \ {c}
      BY <3>2 DEF Outputs, OutputKept, Undisturbed
    <3>4. Pending(log) # {c}
      BY <1>0, <1>3, <2>2 DEF AcceptAnswer, LastPending, Live, TypeOK
    <3> QED
      BY <1>1, <3>1, <3>3, <3>4 DEF Goes
  <2>3. CASE LoadFails(r) \/ RefusePrompt(r)
             \/ \E c \in HumanCalls : RefuseAnswer(r, c) \/ AnswerFails(r, c)
    <3>1. log' = log /\ running' = running /\ pc[r] = "new"
      BY <2>3 DEF LoadFails, RefusePrompt, RefuseAnswer, AnswerFails
    <3>2. \A q \in Requests : q # r => pc'[q] = pc[q]
      BY <1>0, <2>3 DEF LoadFails, RefusePrompt, RefuseAnswer, AnswerFails, TypeOK
    <3>3. Quiescent
      BY <1>3, <3>1, <3>2 DEF Quiescent, Live
    <3> QED
      BY <1>2, <3>1, <3>3
  <2> QED
    BY <1>4, <2>1, <2>2, <2>3 DEF ClientStep
<1>5. ASSUME NEW r \in Requests, ServiceStep(r) \/ Disconnect(r)
      PROVE  Goes
  <2>1. ASSUME End(r, "aborted")
        PROVE  FALSE
    BY <1>0, <2>1, EndsAborted
  <2>2. CASE ModelAnswers(r)
    <3>1. log' = log \o <<Assistant>>
      BY <2>2 DEF ModelAnswers, Commit, Write, Undisturbed
    <3>2. log'[Len(log')] = Assistant
      BY <1>0, <3>1 DEF TypeOK
    <3> QED
      BY <3>2, RowShapes DEF Goes
  <2>3. CASE Response(r)
    <3>1. pc' = [pc EXCEPT ![r] = "tools"] \/ pc' = [pc EXCEPT ![r] = "yield"]
      BY <2>1, <2>3 DEF Response, ModelCalls, ModelSpeaksAndCalls, AppendOutputFails
    <3> QED
      BY <1>0, <1>3, <3>1 DEF Live, TypeOK
  <2>4. CASE CreateTasks(r)
    BY <1>0, <1>3, <2>4 DEF CreateTasks, Live, TypeOK
  <2>5. CASE AwaitTask(r)
    BY <1>3, <2>5 DEF AwaitTask, Live
  <2>6. CASE FinishRound(r)
    <3>1. pending[r] # {}
      BY <1>0, <1>3, <2>6 DEF FinishRound, MustBreak, Live, TypeOK
    <3>2. pending[r] \subseteq Awaiting(log) /\ log' = log
      BY <1>0, <2>6 DEF PendingHeld, FinishRound
    <3> QED
      BY <3>1, <3>2 DEF Goes
  <2> QED
    BY <1>5, <2>1, <2>2, <2>3, <2>4, <2>5, <2>6
    DEF ServiceStep, ModelFails, AwaitRaises, Disconnect, Abort
<1>6. ASSUME NEW c \in Calls, ToolStep(c)
      PROVE  FALSE
  <2>1. Orphans = {}
    BY <1>0 DEF Placed, TasksHeld, Orphans
  <2>2. PICK r \in Requests : RunToolCall(r, c) \/ ToolRaises(r, c)
    BY <1>6, <2>1 DEF ToolStep, RunOrphan, OrphanRaises
  <2>3. pc'[r] = pc[r] /\ tasks[r] # {}
    BY <2>2 DEF RunToolCall, ToolRaises
  <2> QED
    BY <1>0, <1>3, <2>3 DEF RoundsOwned, Live
<1>7. CASE Restart
  <2>1. PICK r \in Requests : pc[r] \in Live
    BY <1>0, <1>7 DEF Restart, Placed, TasksHeld, RoundsOwned, Live
  <2> QED
    BY <1>7, <2>1 DEF Restart, Aborted
<1>8. CASE UNCHANGED vars
  BY <1>2, <1>8 DEF vars, Quiescent
<1> QED
  BY <1>4, <1>5, <1>6, <1>7, <1>8 DEF Next

(* The turn is dropped only when a request was aborted, a row was rolled   *)
(* back, or a human answered early: else, once nothing runs any more, the  *)
(* model had the last word or a human is being waited for.                 *)
THEOREM NeverStalls == Spec => []NoStall
<1>1. ASSUME Init
      PROVE  TurnInv
  BY <1>1, AccountInvInit DEF Init, TurnInv, PendingHeld, NoStall
<1>2. ASSUME TurnInv, [Next]_vars
      PROVE  TurnInv'
  <2>1. AccountInv /\ StageInv /\ AccountInv' /\ PendingHeld /\ NoStall
    BY <1>2, AccountInvStep DEF TurnInv, AccountInv
  <2> QED
    BY <1>2, <2>1, PendingHeldStep, NoStallStep DEF TurnInv
<1>3. TurnInv => NoStall
  BY DEF TurnInv
<1> QED
  BY <1>1, <1>2, <1>3, PTL DEF Spec
=============================================================================
