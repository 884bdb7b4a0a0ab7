------------------------- MODULE CallerCapture_proofs -------------------------
(***************************************************************************)
(* What CallerCapture promises, for any number of processes, any names and *)
(* any interleaving of their lives with the three reads.                   *)
(***************************************************************************)
EXTENDS CallerCapture, SequenceTheorems, TLAPS

-----------------------------------------------------------------------------
(***************************************************************************)
(* The stat line                                                           *)
(***************************************************************************)

\* Whatever the name of a line that was read holds, the last close of the line
\* is the one after the name, and the start time is found (start_time_ticks).
THEOREM StartTimeFound ==
  ASSUME NEW a \in Tokens, NEW b \in Tokens, NEW nm \in Seq(Tokens), NEW t \in Nat
  PROVE  StartTimeTicks(<<a, b>> \o nm \o <<Close>> \o Fields \o <<Number(t)>>) = t
<1> DEFINE k == Len(nm)
           s1 == <<a, b>> \o nm
           s2 == s1 \o <<Close>>
           s3 == s2 \o Fields
           stat == s3 \o <<Number(t)>>
<1>0. /\ Fields \in Seq(Tokens) /\ Len(Fields) = 19
      /\ \A i \in 1 .. 19 : Fields[i] # Close
  BY CaptureAssumption DEF StartField
<1>1. k \in Nat
  OBVIOUS
<1>2. Close \in Tokens /\ Number(t) \in Tokens /\ Number(t) # Close
      /\ Number(t).kind = "number" /\ Number(t).number = t
  <2>1. Close = [kind |-> "close", number |-> 0] /\ Number(t) = [kind |-> "number", number |-> t]
    BY DEF Close, Number
  <2>2. Close.kind = "close" /\ Number(t).kind = "number" /\ Number(t).number = t
    BY <2>1
  <2>3. Close \in Tokens /\ Number(t) \in Tokens
    BY <2>1 DEF Tokens
  <2> QED
    BY <2>1, <2>2, <2>3
<1>3. <<a, b>> \in Seq(Tokens) /\ <<Close>> \in Seq(Tokens) /\ <<Number(t)>> \in Seq(Tokens)
  BY <1>2
<1>4. s1 \in Seq(Tokens) /\ Len(s1) = k + 2
  BY <1>1, <1>3, ConcatProperties
<1> HIDE DEF s1, k
<1>5. s2 \in Seq(Tokens) /\ Len(s2) = k + 3 /\ s2[k + 3] = Close
  BY <1>1, <1>3, <1>4, ConcatProperties
<1> HIDE DEF s2
<1>6. s3 \in Seq(Tokens) /\ Len(s3) = k + 22 /\ s3[k + 3] = Close
      /\ \A i \in k + 4 .. k + 22 : s3[i] = Fields[i - (k + 3)]
  <2>1. /\ s3 \in Seq(Tokens) /\ Len(s3) = Len(s2) + Len(Fields)
        /\ \A i \in 1 .. Len(s2) + Len(Fields) :
             s3[i] = IF i <= Len(s2) THEN s2[i] ELSE Fields[i - Len(s2)]
    BY <1>0, <1>5, ConcatProperties
  <2> HIDE DEF s3
  <2>2. \A i \in 1 .. k + 22 : s3[i] = IF i <= k + 3 THEN s2[i] ELSE Fields[i - (k + 3)]
    <3> SUFFICES ASSUME NEW i \in 1 .. k + 22
                 PROVE  s3[i] = IF i <= k + 3 THEN s2[i] ELSE Fields[i - (k + 3)]
      OBVIOUS
    <3>1. Len(s2) = k + 3 /\ Len(Fields) = 19
      BY <1>0, <1>5
    <3>2. i \in 1 .. Len(s2) + Len(Fields)
      BY <1>1, <3>1
    <3> QED
      BY <2>1, <3>1, <3>2
  <2>3. s3[k + 3] = s2[k + 3]
    BY <1>1, <2>2
  <2>4. \A i \in k + 4 .. k + 22 : s3[i] = Fields[i - (k + 3)]
    BY <1>1, <2>2
  <2> QED
    BY <1>0, <1>1, <1>5, <2>1, <2>3, <2>4
<1>7. \A i \in k + 4 .. k + 22 : s3[i] # Close
  <2> SUFFICES ASSUME NEW i \in k + 4 .. k + 22 PROVE s3[i] # Close
    OBVIOUS
  <2>1. i - (k + 3) \in 1 .. 19 /\ s3[i] = Fields[i - (k + 3)]
    BY <1>1, <1>6
  <2> QED
    BY <1>0, <2>1
<1> HIDE DEF s3
<1>8. /\ stat \in Seq(Tokens) /\ Len(stat) = k + 23
      /\ stat[k + 3] = Close /\ stat[k + 23] = Number(t)
      /\ \A i \in k + 4 .. k + 22 : stat[i] # Close
  BY <1>1, <1>3, <1>6, <1>7, ConcatProperties
<1> HIDE DEF stat
<1>9. \A i \in k + 4 .. k + 23 : stat[i] # Close
  BY <1>1, <1>2, <1>8
<1>10. /\ k + 3 \in Closes(stat)
       /\ \A j \in Closes(stat) : j \in Nat /\ j <= k + 3
  BY <1>1, <1>8, <1>9 DEF Closes
<1>11. LastClose(stat) = k + 3
  <2>1. \A i \in Closes(stat) : (\A j \in Closes(stat) : j <= i) => i = k + 3
    BY <1>1, <1>10
  <2>2. \A j \in Closes(stat) : j <= k + 3
    BY <1>10
  <2> QED
    BY <1>10, <2>1, <2>2 DEF LastClose
<1>12. k + 23 <= Len(stat) /\ LastClose(stat) + StartField = k + 23
  BY <1>1, <1>8, <1>11 DEF StartField
<1>13. StartTimeTicks(stat) = t
  BY <1>2, <1>8, <1>12 DEF StartTimeTicks
<1> QED
  BY <1>13 DEF stat, s3, s2, s1, k

\* A line is text exactly if its parts are.
LEMMA TextOfConcat ==
  ASSUME NEW a \in Seq(Tokens), NEW b \in Seq(Tokens)
  PROVE  IsText(a \o b) <=> IsText(a) /\ IsText(b)
<1> DEFINE c == a \o b
<1>1. /\ Len(a) \in Nat /\ Len(b) \in Nat /\ Len(c) = Len(a) + Len(b)
      /\ \A i \in 1 .. Len(c) : c[i] = IF i <= Len(a) THEN a[i] ELSE b[i - Len(a)]
  BY ConcatProperties
<1> HIDE DEF c
<1>2. \A i \in 1 .. Len(a) : i \in 1 .. Len(c) /\ c[i] = a[i]
  BY <1>1
<1>3. \A i \in 1 .. Len(b) : i + Len(a) \in 1 .. Len(c) /\ c[i + Len(a)] = b[i]
  BY <1>1
<1>4. ASSUME IsText(c) PROVE IsText(a) /\ IsText(b)
  BY <1>2, <1>3, <1>4 DEF IsText
<1>5. ASSUME IsText(a), IsText(b), NEW i \in 1 .. Len(c) PROVE c[i] # Garbled
  <2>1. CASE i <= Len(a)
    BY <1>1, <1>5, <2>1 DEF IsText
  <2>2. CASE ~ i <= Len(a)
    <3>1. i - Len(a) \in 1 .. Len(b) /\ c[i] = b[i - Len(a)]
      BY <1>1, <2>2
    <3> QED
      BY <1>5, <3>1 DEF IsText
  <2> QED
    BY <2>1, <2>2
<1>6. IsText(c) <=> IsText(a) /\ IsText(b)
  BY <1>4, <1>5 DEF IsText
<1> QED
  BY <1>6 DEF c

\* Only the command name can keep a stat line from being text.
LEMMA TextOfStat ==
  ASSUME NEW p \in Nat, name[p] \in Seq(Tokens), start[p] \in Nat
  PROVE  IsText(Stat(p)) <=> IsText(name[p])
<1> DEFINE front == <<Number(p), Word>>
           time == <<Number(start[p])>>
           close == <<Close>>
<1>1. /\ Number(p) \in Tokens /\ Word \in Tokens /\ Close \in Tokens
      /\ Number(start[p]) \in Tokens
  BY DEF Number, Word, Close, Tokens
<1>2. /\ Number(p) # Garbled /\ Word # Garbled /\ Close # Garbled
      /\ Number(start[p]) # Garbled
  <2>1. /\ Number(p).kind = "number" /\ Word.kind = "word" /\ Close.kind = "close"
        /\ Number(start[p]).kind = "number" /\ Garbled.kind = "garbled"
    BY DEF Number, Word, Close, Garbled
  <2> QED
    BY <2>1
<1>3. front \in Seq(Tokens) /\ close \in Seq(Tokens) /\ time \in Seq(Tokens)
  BY <1>1
<1>4. IsText(front) /\ IsText(close) /\ IsText(time)
  <2>1. /\ Len(front) = 2 /\ front[1] = Number(p) /\ front[2] = Word
        /\ Len(close) = 1 /\ close[1] = Close /\ Len(time) = 1 /\ time[1] = Number(start[p])
    OBVIOUS
  <2> HIDE DEF front, close, time
  <2>2. 1 .. 2 = {1, 2} /\ 1 .. 1 = {1}
    OBVIOUS
  <2> QED
    BY <1>2, <2>1, <2>2 DEF IsText
<1>5. Fields \in Seq(Tokens) /\ IsText(Fields)
  BY CaptureAssumption DEF IsText
<1>6. Stat(p) = (((front \o name[p]) \o close) \o Fields) \o time
  BY DEF Stat
<1> HIDE DEF front, close, time
<1> DEFINE s1 == front \o name[p]
           s2 == s1 \o close
           s3 == s2 \o Fields
<1>7. s1 \in Seq(Tokens) /\ (IsText(s1) <=> IsText(name[p]))
  BY <1>3, <1>4, TextOfConcat, ConcatProperties
<1> HIDE DEF s1
<1>8. s2 \in Seq(Tokens) /\ (IsText(s2) <=> IsText(s1))
  BY <1>3, <1>4, <1>7, TextOfConcat, ConcatProperties
<1> HIDE DEF s2
<1>9. s3 \in Seq(Tokens) /\ (IsText(s3) <=> IsText(s2))
  BY <1>5, <1>8, TextOfConcat, ConcatProperties
<1> HIDE DEF s3
<1>10. IsText(s3 \o time) <=> IsText(s3)
  BY <1>3, <1>4, <1>9, TextOfConcat
<1> QED
  BY <1>6, <1>7, <1>8, <1>9, <1>10 DEF s3, s2, s1

\* What reading /proc/<pid>/stat gives for a process that is there.
LEMMA StartTimeRead ==
  ASSUME TypeOK, NEW p \in All
  PROVE  ProcessStartTime(p) =
           IF life[p] # "free" /\ IsText(name[p]) THEN start[p] ELSE NoTime
<1>1. p \in Nat /\ name[p] \in Names /\ start[p] \in Nat
  BY CaptureAssumption DEF TypeOK, All
<1>2. name[p] \in Seq(Tokens)
  BY <1>1, CaptureAssumption
<1> QED
  <2>1. Number(p) \in Tokens /\ Word \in Tokens
    BY <1>1 DEF Number, Word, Tokens
  <2>2. StartTimeTicks(Stat(p)) = start[p]
    BY <1>1, <1>2, <2>1, StartTimeFound DEF Stat
  <2>3. IsText(Stat(p)) <=> IsText(name[p])
    BY <1>1, <1>2, TextOfStat
  <2> QED
    BY <2>2, <2>3 DEF ProcessStartTime

-----------------------------------------------------------------------------
(***************************************************************************)
(* The inductive invariant                                                 *)
(***************************************************************************)

\* Who was there before the client is older, whoever got a pid later is younger.
AgeInv ==
  /\ clock >= ClientStart
  /\ \A p \in All : start[p] <= clock
  /\ \A p \in All : life[p] # "free" => generation[p] >= 1
  /\ \A p \in Elders : generation[p] >= 1
  /\ \A p \in Elders : generation[p] = 1 => start[p] <= ClientStart
  /\ \A p \in Pids : generation[p] >= 2 => start[p] >= ClientStart
  /\ life[Client] = "running" /\ generation[Client] = 1 /\ start[Client] = ClientStart

\* The parent is one of those.
ParentInv ==
  /\ parent \in Elders \cup {Kernel, Outside}
  /\ parent \in Elders => life[parent] = "running" /\ generation[parent] = 1

\* What was read was read of a process no older than the one chosen.
ReadInv ==
  /\ seen.parent \in {0, 1}
  /\ seen.parent = 1 => target \in Elders \cup {Client} /\ pc # "parent"
  /\ seen.parent = 0 /\ pc \in {"executable", "start"} => target = Outside
  /\ seen.parent = 0 \/ pc # "done" => caller.startTime = NoTime
  /\ seen.parent = 1 /\ pc \in {"start", "done"} =>
       /\ 1 <= seen.executable /\ seen.executable <= generation[target]
       /\ generation[target] = 1 /\ life[target] = "running" /\ target \notin Opaque =>
            caller.executable # NoFile
  /\ seen.parent = 1 /\ pc = "done" =>
       /\ seen.executable <= seen.start /\ seen.start = generation[target]
       /\ caller.startTime = IF life[target] # "free" /\ IsText(name[target])
                             THEN start[target] ELSE NoTime

IInv == TypeOK /\ AgeInv /\ ParentInv /\ ReadInv

LEMMA InitInv == Init => IInv
<1> SUFFICES ASSUME Init PROVE IInv
  OBVIOUS
<1> USE DEF Init, All
<1>0. ClientStart \in Nat /\ Elders \subseteq Pids /\ Client \notin Pids
      /\ Kernel \notin Pids /\ Outside \notin Pids
  BY CaptureAssumption
<1>1. TypeOK
  <2>1. life \in [All -> {"free", "running", "zombie"}] /\ generation \in [All -> Nat]
    OBVIOUS
  <2>2. start \in [All -> Nat]
    BY <1>0
  <2>3. /\ caller \in [executable : Executables \cup {NoFile}, startTime : -1 .. clock]
        /\ seen \in [parent : Nat, executable : Nat, start : Nat]
    BY <1>0 DEF NoTime
  <2> QED
    BY <1>0, <2>1, <2>2, <2>3 DEF TypeOK
<1>2. AgeInv
  <2>1. \A p \in All : start[p] \in 0 .. ClientStart
    OBVIOUS
  <2>2. \A p \in All : start[p] <= ClientStart
    BY <1>0, <2>1
  <2>3. \A p \in All : generation[p] = (IF p \in Elders \cup {Client} THEN 1 ELSE 0)
    OBVIOUS
  <2>4. \A p \in All : life[p] # "free" => p \in Elders \cup {Client}
    OBVIOUS
  <2>5. /\ life[Client] = "running" /\ generation[Client] = 1 /\ start[Client] = ClientStart
        /\ clock = ClientStart
    BY <2>3
  <2> HIDE DEF Init
  <2>6. clock >= ClientStart /\ (\A p \in All : start[p] <= clock)
    BY <1>0, <2>2, <2>5
  <2>7. \A p \in Elders : p \in All /\ generation[p] = 1
    BY <1>0, <2>3
  <2>8. \A p \in Pids : ~ generation[p] >= 2
    BY <2>3
  <2>9. \A p \in All : life[p] # "free" => generation[p] >= 1
    BY <2>3, <2>4
  <2>10. \A p \in Elders : generation[p] >= 1 /\ start[p] <= ClientStart
    BY <2>2, <2>7
  <2> QED
    BY <2>5, <2>6, <2>8, <2>9, <2>10 DEF AgeInv
<1>3. ParentInv
  BY <1>0 DEF ParentInv, Kernel, Outside
<1>4. ReadInv
  BY DEF ReadInv
<1> QED
  BY <1>1, <1>2, <1>3, <1>4 DEF IInv

\* What a move of the world owes the capture.
LEMMA WorldKeepsReadInv ==
  ASSUME IInv, Moves, generation' \in [All -> Nat],
         \A p \in All : generation[p] <= generation'[p],
         \A p \in All : generation'[p] = generation[p] /\ life'[p] = "running" => life[p] = "running"
  PROVE  ReadInv'
<1>1. /\ pc # "done" /\ pc' = pc /\ target' = target /\ caller' = caller /\ seen' = seen
      /\ Elders \subseteq Pids
  BY CaptureAssumption DEF Moves, capture
<1>2. ASSUME seen.parent = 1, pc = "start"
      PROVE  /\ 1 <= seen.executable /\ seen.executable <= generation'[target]
             /\ generation'[target] = 1 /\ life'[target] = "running" /\ target \notin Opaque =>
                  caller.executable # NoFile
  <2>1. target \in All /\ seen.executable \in Nat /\ generation[target] \in Nat
    BY <1>1, <1>2 DEF IInv, ReadInv, TypeOK, All
  <2>2. 1 <= seen.executable /\ seen.executable <= generation[target]
    BY <1>2 DEF IInv, ReadInv
  <2>3. generation[target] <= generation'[target] /\ generation'[target] \in Nat
    BY <2>1
  <2>4. seen.executable <= generation'[target]
    BY <2>1, <2>2, <2>3
  <2>5. generation'[target] = 1 => generation[target] = 1
    BY <2>1, <2>2, <2>3
  <2> QED
    BY <1>2, <2>1, <2>2, <2>4, <2>5 DEF IInv, ReadInv
<1> QED
  BY <1>1, <1>2 DEF IInv, ReadInv

LEMMA TickInv == IInv /\ Tick => IInv'
<1> SUFFICES ASSUME IInv, Tick PROVE IInv'
  OBVIOUS
<1>1. /\ clock' = clock + 1 /\ clock \in Nat
      /\ UNCHANGED <<life, executable, name, start, generation, parent, pc, target, caller, seen>>
      /\ Moves
  BY DEF Tick, Moves, capture, IInv, TypeOK
<1>2. TypeOK'
  <2>1. caller \in [executable : Executables \cup {NoFile}, startTime : -1 .. clock]
    BY DEF IInv, TypeOK
  <2>2. caller \in [executable : Executables \cup {NoFile}, startTime : -1 .. clock + 1]
    BY <1>1, <2>1
  <2> QED
    BY <1>1, <2>2 DEF IInv, TypeOK
<1>3. AgeInv'
  <2>1. ClientStart \in Nat /\ \A p \in All : start[p] \in Nat
    BY CaptureAssumption DEF IInv, TypeOK
  <2>2. clock + 1 >= ClientStart /\ \A p \in All : start[p] <= clock + 1
    BY <1>1, <2>1 DEF IInv, AgeInv
  <2> QED
    BY <1>1, <2>2 DEF IInv, AgeInv
<1>4. ParentInv'
  BY <1>1 DEF IInv, ParentInv
<1>5. ReadInv'
  BY <1>1 DEF IInv, ReadInv
<1> QED
  BY <1>2, <1>3, <1>4, <1>5 DEF IInv

LEMMA SpawnInv == ASSUME NEW p \in Pids PROVE IInv /\ Spawn(p) => IInv'
<1> SUFFICES ASSUME IInv, Spawn(p) PROVE IInv'
  OBVIOUS
<1>0. p \in All /\ p # Client /\ Client \in All /\ Elders \subseteq All /\ Pids \subseteq All /\ ClientStart \in Nat
  BY CaptureAssumption DEF All
<1>1. /\ Moves /\ life[p] = "free" /\ clock' = clock /\ parent' = parent
      /\ life' = [life EXCEPT ![p] = "running"]
      /\ start' = [start EXCEPT ![p] = clock]
      /\ generation' = [generation EXCEPT ![p] = @ + 1]
  BY DEF Spawn
<1>2. PICK e \in Executables, n \in Names :
        executable' = [executable EXCEPT ![p] = e] /\ name' = [name EXCEPT ![p] = n]
  BY DEF Spawn
<1>3. UNCHANGED <<pc, target, caller, seen>> /\ pc # "done"
  BY <1>1 DEF Moves, capture
<1>4. /\ clock \in Nat /\ life \in [All -> {"free", "running", "zombie"}]
      /\ start \in [All -> Nat] /\ generation \in [All -> Nat]
  BY DEF IInv, TypeOK
<1>5. /\ \A q \in All : q # p => /\ life'[q] = life[q] /\ start'[q] = start[q]
                                /\ generation'[q] = generation[q]
      /\ life'[p] = "running" /\ start'[p] = clock /\ generation'[p] = generation[p] + 1
  BY <1>0, <1>1, <1>4
<1>6. TypeOK'
  <2>1. life' \in [All -> {"free", "running", "zombie"}]
    BY <1>1, <1>4
  <2>2. start' \in [All -> Nat]
    BY <1>1, <1>4
  <2>3. generation' \in [All -> Nat]
    BY <1>0, <1>1, <1>4
  <2>4. executable' \in [All -> Executables] /\ name' \in [All -> Names]
    BY <1>2 DEF IInv, TypeOK
  <2> QED
    BY <1>1, <1>3, <2>1, <2>2, <2>3, <2>4 DEF IInv, TypeOK
<1>7. AgeInv'
  <2>1. generation[p] \in Nat /\ clock >= ClientStart
    BY <1>0, <1>4 DEF IInv, AgeInv
  <2>2. \A q \in All : start'[q] <= clock'
    BY <1>1, <1>4, <1>5 DEF IInv, AgeInv
  <2>3. \A q \in All : life'[q] # "free" => generation'[q] >= 1
    BY <1>5, <2>1 DEF IInv, AgeInv
  <2>4. \A q \in Elders : generation'[q] >= 1
    BY <1>0, <1>5, <2>1 DEF IInv, AgeInv
  <2>5. \A q \in Elders : generation'[q] = 1 => start'[q] <= ClientStart
    <3>1. p \in Elders => generation'[p] # 1
      BY <1>5, <2>1 DEF IInv, AgeInv
    <3> QED
      BY <1>0, <1>5, <3>1 DEF IInv, AgeInv
  <2>6. \A q \in Pids : generation'[q] >= 2 => start'[q] >= ClientStart
    BY <1>0, <1>5, <2>1 DEF IInv, AgeInv
  <2>7. life'[Client] = "running" /\ generation'[Client] = 1 /\ start'[Client] = ClientStart
    BY <1>0, <1>5 DEF IInv, AgeInv
  <2> QED
    BY <1>1, <2>1, <2>2, <2>3, <2>4, <2>5, <2>6, <2>7 DEF AgeInv
<1>8. ParentInv'
  <2>1. parent # p
    BY <1>1, CaptureAssumption DEF IInv, ParentInv
  <2> QED
    BY <1>0, <1>1, <1>5, <2>1 DEF IInv, ParentInv
<1>9. ReadInv'
  <2>1. \A q \in All : generation[q] \in Nat /\ generation[q] <= generation'[q]
    BY <1>4, <1>5
  <2>2. \A q \in All : generation'[q] = generation[q] /\ life'[q] = "running" => life[q] = "running"
    BY <1>4, <1>5
  <2>3. generation' \in [All -> Nat]
    BY <1>6 DEF TypeOK
  <2> QED
    BY <1>1, <2>1, <2>2, <2>3, WorldKeepsReadInv
<1> QED
  BY <1>6, <1>7, <1>8, <1>9 DEF IInv

LEMMA ExecInv == ASSUME NEW p \in Pids PROVE IInv /\ Exec(p) => IInv'
<1> SUFFICES ASSUME IInv, Exec(p) PROVE IInv'
  OBVIOUS
<1>1. /\ Moves /\ pc # "done"
      /\ UNCHANGED <<clock, life, start, generation, parent, pc, target, caller, seen>>
  BY DEF Exec, Moves, capture
<1>2. PICK e \in Executables, n \in Names :
        executable' = [executable EXCEPT ![p] = e] /\ name' = [name EXCEPT ![p] = n]
  BY DEF Exec
<1>3. executable' \in [All -> Executables] /\ name' \in [All -> Names]
  BY <1>2 DEF IInv, TypeOK
<1>4. TypeOK'
  BY <1>1, <1>3 DEF IInv, TypeOK
<1>5. ReadInv'
  BY <1>1 DEF IInv, ReadInv
<1> QED
  BY <1>1, <1>4, <1>5 DEF IInv, AgeInv, ParentInv

\* A process that ends is no longer running, and its pid is not used again yet.
LEMMA EndInv ==
  ASSUME IInv, NEW p \in Pids, NEW s \in {"free", "zombie"}, Moves,
         s = "free" => parent # p,
         life[p] # "free", life' = [life EXCEPT ![p] = s],
         UNCHANGED <<clock, executable, name, start, generation>>,
         IF parent = p
         THEN parent' \in {Kernel} \cup {q \in Elders \ {p} : life[q] = "running" /\ generation[q] = 1}
         ELSE parent' = parent
  PROVE  IInv'
<1>0. p \in All /\ p # Client /\ Elders \subseteq Pids /\ Pids \subseteq All /\ Client \in All
      /\ Kernel \notin Elders /\ Outside \notin Elders
  BY CaptureAssumption DEF All
<1>1. UNCHANGED <<pc, target, caller, seen>>
  BY DEF Moves, capture
<1>2. life \in [All -> {"free", "running", "zombie"}] /\ generation \in [All -> Nat]
  BY DEF IInv, TypeOK
<1>3. life'[p] = s /\ \A q \in All : q # p => life'[q] = life[q]
  BY <1>0, <1>2
<1>4. TypeOK'
  <2>1. life' \in [All -> {"free", "running", "zombie"}]
    BY <1>2
  <2>2. parent' \in Pids \cup {Kernel, Outside}
    BY <1>0 DEF IInv, TypeOK
  <2> QED
    BY <1>1, <2>1, <2>2 DEF IInv, TypeOK
<1>5. AgeInv'
  <2>1. \A q \in All : life'[q] # "free" => life[q] # "free"
    BY <1>3
  <2>2. life'[Client] = "running"
    BY <1>0, <1>3 DEF IInv, AgeInv
  <2> QED
    BY <2>1, <2>2 DEF IInv, AgeInv
<1>6. ParentInv'
  <2>1. parent \in Elders \cup {Kernel, Outside}
    BY DEF IInv, ParentInv
  <2>2. CASE parent = p
    BY <1>0, <1>3, <2>2 DEF ParentInv
  <2>3. CASE parent # p
    BY <1>0, <1>3, <2>1, <2>3 DEF IInv, ParentInv
  <2> QED
    BY <2>2, <2>3
<1>7. ReadInv'
  <2>1. generation' \in [All -> Nat] /\ \A q \in All : generation[q] <= generation'[q]
    BY <1>2
  <2>2. \A q \in All : generation'[q] = generation[q] /\ life'[q] = "running" => life[q] = "running"
    BY <1>3
  <2> QED
    BY <2>1, <2>2, WorldKeepsReadInv
<1> QED
  BY <1>4, <1>5, <1>6, <1>7 DEF IInv

LEMMA ExitInv == ASSUME NEW p \in Pids PROVE IInv /\ Exit(p) => IInv'
<1> SUFFICES ASSUME IInv, Exit(p) PROVE IInv'
  OBVIOUS
<1>1. /\ Moves /\ life[p] # "free" /\ life' = [life EXCEPT ![p] = "zombie"]
      /\ UNCHANGED <<clock, executable, name, start, generation>>
      /\ IF parent = p
         THEN parent' \in {Kernel} \cup {q \in Elders \ {p} : life[q] = "running" /\ generation[q] = 1}
         ELSE parent' = parent
  BY DEF Exit
<1> QED
  BY <1>1, EndInv

LEMMA ReapInv == ASSUME NEW p \in Pids PROVE IInv /\ Reap(p) => IInv'
<1> SUFFICES ASSUME IInv, Reap(p) PROVE IInv'
  OBVIOUS
<1>1. /\ Moves /\ life[p] # "free" /\ life' = [life EXCEPT ![p] = "free"]
      /\ UNCHANGED <<clock, executable, name, start, generation>>
      /\ parent' = parent
  BY DEF Reap
<1>2. parent # p
  BY CaptureAssumption DEF Reap, IInv, ParentInv
<1> QED
  BY <1>1, <1>2, EndInv

-----------------------------------------------------------------------------
(***************************************************************************)
(* The reads                                                               *)
(***************************************************************************)

LEMMA DescribeInv ==
  ASSUME NEW pid \in Elders \cup {Client, Outside}, IInv, pc = "parent", Describe(pid),
         pid \in Elders => generation[pid] = 1
  PROVE  IInv'
<1>0. /\ Outside \notin All /\ Elders \subseteq All /\ Client \in All
  BY CaptureAssumption DEF All
<1>1. /\ UNCHANGED <<clock, life, executable, name, start, generation, parent, caller>>
      /\ target' = pid /\ pc' = "executable"
      /\ seen' = [seen EXCEPT !.parent = Generation(pid)]
  BY DEF Describe, world, After
<1>2. Generation(pid) = IF pid = Outside THEN 0 ELSE 1
  BY <1>0 DEF Generation, IInv, AgeInv
<1>3. /\ seen' \in [parent : Nat, executable : Nat, start : Nat]
      /\ seen'.parent = IF pid = Outside THEN 0 ELSE 1
  BY <1>1, <1>2 DEF IInv, TypeOK
<1>4. TypeOK'
  BY <1>0, <1>1, <1>3 DEF IInv, TypeOK
<1>5. ReadInv'
  BY <1>0, <1>1, <1>3 DEF IInv, ReadInv
<1> QED
  BY <1>1, <1>4, <1>5 DEF IInv, AgeInv, ParentInv

LEMMA FromKernelInv == IInv /\ FromKernel => IInv'
<1> SUFFICES ASSUME IInv, FromKernel PROVE IInv'
  OBVIOUS
<1>1. pc = "parent" /\ parent \in Elders \cup {Kernel, Outside}
  BY DEF FromKernel, IInv, ParentInv
<1>2. CASE parent # Kernel /\ Describe(parent)
  BY <1>1, <1>2, DescribeInv DEF IInv, ParentInv
<1>3. CASE pc' = "done" /\ UNCHANGED <<target, caller, seen, world>>
  <2>1. UNCHANGED <<clock, life, executable, name, start, generation, parent, target, caller, seen>>
    BY <1>3 DEF world
  <2>2. seen.parent = 0
    BY <1>1 DEF IInv, ReadInv
  <2>3. TypeOK'
    BY <1>3, <2>1 DEF IInv, TypeOK
  <2>4. ReadInv'
    BY <1>1, <1>3, <2>1, <2>2 DEF IInv, ReadInv
  <2> QED
    BY <2>1, <2>3, <2>4 DEF IInv, AgeInv, ParentInv
<1> QED
  BY <1>2, <1>3 DEF FromKernel

LEMMA CurrentProcessInv == IInv /\ CurrentProcess => IInv'
<1>1. Client \notin Elders
  BY CaptureAssumption
<1> QED
  BY <1>1, DescribeInv DEF CurrentProcess

LEMMA ReadExecutableInv == IInv /\ ReadExecutable => IInv'
<1> SUFFICES ASSUME IInv, ReadExecutable PROVE IInv'
  OBVIOUS
<1>0. /\ Outside \notin All /\ Elders \subseteq All /\ Client \in All /\ NoFile \notin Executables
  BY CaptureAssumption DEF All
<1>1. /\ UNCHANGED <<clock, life, executable, name, start, generation, parent, target>>
      /\ pc = "executable" /\ pc' = "start"
      /\ caller' = [caller EXCEPT !.executable = ExecutablePath(target)]
      /\ seen' = [seen EXCEPT !.executable = Generation(target)]
  BY DEF ReadExecutable, world, After
<1>2. ExecutablePath(target) \in Executables \cup {NoFile} /\ Generation(target) \in Nat
  BY DEF ExecutablePath, Generation, IInv, TypeOK
<1>3. /\ seen' \in [parent : Nat, executable : Nat, start : Nat]
      /\ caller' \in [executable : Executables \cup {NoFile}, startTime : -1 .. clock]
      /\ seen'.parent = seen.parent /\ seen'.executable = Generation(target)
      /\ caller'.executable = ExecutablePath(target) /\ caller'.startTime = caller.startTime
  BY <1>1, <1>2 DEF IInv, TypeOK
<1>4. TypeOK'
  BY <1>1, <1>3 DEF IInv, TypeOK
<1>5. ASSUME seen.parent = 1
      PROVE  /\ target \in All /\ 1 <= Generation(target) /\ Generation(target) <= generation[target]
             /\ life[target] = "running" /\ target \notin Opaque => ExecutablePath(target) # NoFile
  <2>1. target \in All /\ target \in Elders \cup {Client}
    BY <1>0, <1>5 DEF IInv, ReadInv
  <2>2. Generation(target) = generation[target] /\ generation[target] \in Nat /\ generation[target] >= 1
    BY <2>1 DEF Generation, IInv, AgeInv, TypeOK
  <2>3. life[target] = "running" /\ target \notin Opaque => ExecutablePath(target) # NoFile
    BY <1>0, <2>1 DEF ExecutablePath, IInv, TypeOK
  <2> QED
    BY <2>1, <2>2, <2>3
<1>6. ReadInv'
  BY <1>1, <1>3, <1>5 DEF IInv, ReadInv
<1> QED
  BY <1>1, <1>4, <1>6 DEF IInv, AgeInv, ParentInv

LEMMA ReadStartTimeInv == IInv /\ ReadStartTime => IInv'
<1> SUFFICES ASSUME IInv, ReadStartTime PROVE IInv'
  OBVIOUS
<1>0. /\ Outside \notin All /\ Elders \subseteq All /\ Client \in All
  BY CaptureAssumption DEF All
<1>1. /\ UNCHANGED <<clock, life, executable, name, start, generation, parent, target>>
      /\ pc = "start" /\ pc' = "done"
      /\ caller' = [caller EXCEPT !.startTime = ProcessStartTime(target)]
      /\ seen' = [seen EXCEPT !.start = Generation(target)]
  BY DEF ReadStartTime, world, After
<1>2. /\ Generation(target) \in Nat
      /\ target \in All => ProcessStartTime(target) =
           IF life[target] # "free" /\ IsText(name[target]) THEN start[target] ELSE NoTime
      /\ target \notin All => ProcessStartTime(target) = NoTime
  BY StartTimeRead DEF Generation, ProcessStartTime, IInv, TypeOK
<1>3. ProcessStartTime(target) \in -1 .. clock
  <2>1. clock \in Nat /\ NoTime = -1
    BY DEF NoTime, IInv, TypeOK
  <2>2. target \in All => start[target] \in Nat /\ start[target] <= clock
    BY DEF IInv, TypeOK, AgeInv
  <2> QED
    BY <1>2, <2>1, <2>2
<1>4. /\ seen' \in [parent : Nat, executable : Nat, start : Nat]
      /\ caller' \in [executable : Executables \cup {NoFile}, startTime : -1 .. clock]
      /\ seen'.parent = seen.parent /\ seen'.executable = seen.executable
      /\ seen'.start = Generation(target)
      /\ caller'.executable = caller.executable /\ caller'.startTime = ProcessStartTime(target)
  BY <1>1, <1>2, <1>3 DEF IInv, TypeOK
<1>5. TypeOK'
  BY <1>1, <1>4 DEF IInv, TypeOK
<1>6. ASSUME seen.parent = 1 PROVE ReadInv'
  <2>1. target \in All /\ Generation(target) = generation[target]
    BY <1>0, <1>6 DEF IInv, ReadInv, Generation
  <2> QED
    BY <1>1, <1>2, <1>4, <1>6, <2>1 DEF IInv, ReadInv
<1>7. ASSUME seen.parent = 0 PROVE ReadInv'
  <2>1. target = Outside
    BY <1>1, <1>7 DEF IInv, ReadInv
  <2> QED
    BY <1>0, <1>1, <1>2, <1>4, <1>7, <2>1 DEF IInv, ReadInv
<1>8. ReadInv'
  BY <1>6, <1>7 DEF IInv, ReadInv
<1> QED
  BY <1>1, <1>5, <1>8 DEF IInv, AgeInv, ParentInv

LEMMA NextInv == IInv /\ [Next]_vars => IInv'
<1> SUFFICES ASSUME IInv, [Next]_vars PROVE IInv'
  OBVIOUS
<1>1. CASE \E p \in Pids : Spawn(p) \/ Exec(p) \/ Exit(p) \/ Reap(p)
  BY <1>1, SpawnInv, ExecInv, ExitInv, ReapInv
<1>2. CASE UNCHANGED vars
  BY <1>2 DEF vars, world, capture, IInv, TypeOK, AgeInv, ParentInv, ReadInv
<1> QED
  BY <1>1, <1>2, TickInv, FromKernelInv, CurrentProcessInv, ReadExecutableInv, ReadStartTimeInv DEF Next

-----------------------------------------------------------------------------
(***************************************************************************)
(* The theorems                                                            *)
(***************************************************************************)

\* The invariant that orders the processes by age is inductive.
THEOREM CaptureInvariant == Spec => []IInv
  BY InitInv, NextInv, PTL DEF Spec

\* The capture is typed and never describes init.
THEOREM CaptureTyping == Spec => []TypeOK
<1>1. IInv => TypeOK
  BY DEF IInv
<1> QED
  BY <1>1, CaptureInvariant, PTL

\* A start time before the client's own vouches for the whole record, whatever
\* happens to the parent and its pid between the reads.
THEOREM StartTimeVouches == Spec => []StartTimeVouchesForCaller
<1>1. IInv => StartTimeVouchesForCaller
  <2> SUFFICES ASSUME IInv, pc = "done", caller.startTime # NoTime
               PROVE  /\ caller.startTime < ClientStart =>
                           /\ seen.start = seen.parent
                           /\ caller.executable # NoFile => seen.executable = seen.parent
                      /\ caller.startTime > ClientStart => seen.start # seen.parent
    BY DEF StartTimeVouchesForCaller
  <2>1. /\ seen.parent = 1 /\ target \in Elders \cup {Client} /\ target \in All
        /\ caller.startTime = start[target] /\ seen.start = generation[target]
        /\ 1 <= seen.executable /\ seen.executable <= seen.start
    BY CaptureAssumption DEF IInv, ReadInv, All
  <2>2. /\ seen.start \in Nat /\ seen.executable \in Nat /\ start[target] \in Nat /\ ClientStart \in Nat
    BY <2>1, CaptureAssumption DEF IInv, TypeOK
  <2>3. CASE target = Client
    BY <2>1, <2>2, <2>3 DEF IInv, AgeInv
  <2>4. CASE target \in Elders
    <3>1. /\ seen.start = 1 => start[target] <= ClientStart
          /\ seen.start >= 2 => start[target] >= ClientStart
      BY <2>1, <2>4, CaptureAssumption DEF IInv, AgeInv
    <3> QED
      BY <2>1, <2>2, <3>1
  <2> QED
    BY <2>1, <2>3, <2>4
<1> QED
  BY <1>1, CaptureInvariant, PTL

\* Whoever lives through the capture is described, whatever text its name is; a
\* name that is not text loses the start time and nothing else.
THEOREM LivingDescribed == Spec => []LivingCallerIsDescribed
<1>1. IInv => LivingCallerIsDescribed
  <2> SUFFICES ASSUME IInv, pc = "done", target \in All, seen.parent # 0,
                      generation[target] = seen.parent, life[target] # "free"
               PROVE  /\ caller.startTime = IF IsText(name[target]) THEN start[target] ELSE NoTime
                      /\ caller.startTime <= ClientStart
                      /\ life[target] = "running" /\ target \notin Opaque => caller.executable # NoFile
    BY DEF LivingCallerIsDescribed
  <2>1. /\ seen.parent = 1 /\ target \in Elders \cup {Client}
        /\ caller.startTime = IF IsText(name[target]) THEN start[target] ELSE NoTime
    BY DEF IInv, ReadInv
  <2>2. start[target] <= ClientStart /\ NoTime <= ClientStart
    BY <2>1, CaptureAssumption DEF IInv, AgeInv, NoTime
  <2>3. life[target] = "running" /\ target \notin Opaque => caller.executable # NoFile
    BY <2>1 DEF IInv, ReadInv
  <2> QED
    BY <2>1, <2>2, <2>3
<1> QED
  BY <1>1, CaptureInvariant, PTL

=============================================================================
