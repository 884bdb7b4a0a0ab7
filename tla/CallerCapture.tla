----------------------------- MODULE CallerCapture -----------------------------
(***************************************************************************)
(* How a command-line client describes its caller (src/caller.rs). The     *)
(* parent's pid is read first, then the link to its executable, then its   *)
(* start time in /proc/<pid>/stat: three looks at a process table that     *)
(* moves on in between. The parent may exit, be reaped, and leave its pid  *)
(* to another process; it may replace its program and rename itself.       *)
(*                                                                         *)
(* The kernel and the other processes are external. A pid names one        *)
(* process at a time, a process keeps its start time, and the children of  *)
(* a process that exits go to init or to a process older than they are.    *)
(***************************************************************************)
EXTENDS Integers, Sequences

CONSTANTS
  Pids,           \* the pids of the other processes, init left out
  Client,         \* the pid of the client
  Elders,         \* the pids of the processes that were there before the client
  Executables,    \* what exe links point to
  Names,          \* command names, as sequences of tokens of a stat line
  Opaque,         \* pids whose exe link the client may not read
  Fields,         \* the fields of a stat line from the state to before the start time
  ClientStart,    \* clock ticks after boot when the client started
  MaxTicks,       \* bound: clock ticks until the capture is over
  MaxGenerations  \* bound: processes that have a pid one after the other

Kernel == 1    \* the pid of init
Outside == 0   \* what getppid() gives if the parent is in another pid namespace

NoTime == -1
NoFile == "none"

\* The start time is the 22nd field of a stat line, the 20th after the name.
StartField == 20

\* The tokens of a stat line: a word, a number, ") ", which ends a name, and
\* bytes that are not UTF-8.
Word == [kind |-> "word", number |-> 0]
Number(n) == [kind |-> "number", number |-> n]
Close == [kind |-> "close", number |-> 0]
Garbled == [kind |-> "garbled", number |-> 0]

Tokens == [kind : {"word", "number", "close", "garbled"}, number : Nat]

ASSUME CaptureAssumption ==
  /\ Pids \subseteq Nat /\ Client \in Nat \ Pids
  /\ {Kernel, Outside} \cap (Pids \cup {Client}) = {}
  /\ Elders \subseteq Pids
  /\ Client \notin Opaque
  /\ NoFile \notin Executables
  /\ \A n \in Names : n \in Seq(Tokens)
  /\ Fields \in Seq(Tokens)
  /\ Len(Fields) = StartField - 1
  /\ \A i \in 1 .. Len(Fields) : Fields[i] \notin {Close, Garbled}
  /\ ClientStart \in Nat /\ MaxTicks \in Nat /\ MaxGenerations \in Nat

VARIABLES
  clock,       \* ticks after boot
  life,        \* [pid -> free, running or zombie]
  executable,  \* [pid -> what its exe link points to]
  name,        \* [pid -> its command name]
  start,       \* [pid -> its start time]
  generation,  \* [pid -> how many processes have had it], history
  parent,      \* what getppid() gives
  pc,          \* what the capture reads next
  target,      \* the pid it describes
  caller,      \* the fields of Caller that were read
  seen         \* history: the generation of the target at each read

world == <<clock, life, executable, name, start, generation, parent>>
capture == <<pc, target, caller, seen>>
vars == <<world, capture>>

All == Pids \cup {Client}

-----------------------------------------------------------------------------
(***************************************************************************)
(* /proc                                                                   *)
(***************************************************************************)

\* What /proc/<pid>/stat holds; the blanks between the fields are left out.
Stat(pid) ==
  <<Number(pid), Word>> \o name[pid] \o <<Close>> \o Fields \o <<Number(start[pid])>>

\* What read_to_string accepts: a name is any bytes, the rest is the kernel's.
IsText(line) == \A i \in 1 .. Len(line) : line[i] # Garbled

Closes(stat) == {i \in 1 .. Len(stat) : stat[i] = Close}

\* Seeded fault: find instead of rfind.
FirstClose(stat) == CHOOSE i \in Closes(stat) : \A j \in Closes(stat) : i <= j

\* A name may hold anything, so the last close is its end.
LastClose(stat) == CHOOSE i \in Closes(stat) : \A j \in Closes(stat) : j <= i

\* start_time_ticks.
StartTimeTicks(stat) ==
  LET field == LastClose(stat) + StartField
  IN IF field <= Len(stat) /\ stat[field].kind = "number" THEN stat[field].number ELSE NoTime

\* process_start_time: a zombie still has a stat file, and a line that is not
\* text is not read at all.
ProcessStartTime(pid) ==
  IF pid \in All /\ life[pid] # "free" /\ IsText(Stat(pid))
  THEN StartTimeTicks(Stat(pid))
  ELSE NoTime

\* parent_executable and current_exe: a zombie has no executable any more.
ExecutablePath(pid) ==
  IF pid \in All \ Opaque /\ life[pid] = "running" THEN executable[pid] ELSE NoFile

Generation(pid) == IF pid \in All THEN generation[pid] ELSE 0

-----------------------------------------------------------------------------
(***************************************************************************)
(* Processes                                                               *)
(***************************************************************************)

Init ==
  /\ clock = ClientStart
  /\ life = [p \in All |-> IF p \in Elders \cup {Client} THEN "running" ELSE "free"]
  /\ executable \in [All -> Executables]
  /\ name \in [All -> Names]
  /\ start \in [All -> 0 .. ClientStart]
  /\ start[Client] = ClientStart
  /\ generation = [p \in All |-> IF p \in Elders \cup {Client} THEN 1 ELSE 0]
  /\ parent \in Elders \cup {Kernel, Outside}
  /\ pc = "parent"
  /\ target = Client
  /\ caller = [executable |-> NoFile, startTime |-> NoTime]
  /\ seen = [parent |-> 0, executable |-> 0, start |-> 0]

\* The world is of interest until the capture is over.
Moves == pc # "done" /\ UNCHANGED capture

Tick ==
  /\ Moves
  /\ clock < ClientStart + MaxTicks
  /\ clock' = clock + 1
  /\ UNCHANGED <<life, executable, name, start, generation, parent>>

\* Another process gets a free pid.
Spawn(p) ==
  /\ Moves
  /\ life[p] = "free" /\ generation[p] < MaxGenerations
  /\ life' = [life EXCEPT ![p] = "running"]
  /\ start' = [start EXCEPT ![p] = clock]
  /\ generation' = [generation EXCEPT ![p] = @ + 1]
  /\ \E e \in Executables : executable' = [executable EXCEPT ![p] = e]
  /\ \E n \in Names : name' = [name EXCEPT ![p] = n]
  /\ UNCHANGED <<clock, parent>>

\* A process runs another program, or takes another name.
Exec(p) ==
  /\ Moves
  /\ life[p] = "running"
  /\ \E e \in Executables : executable' = [executable EXCEPT ![p] = e]
  /\ \E n \in Names : name' = [name EXCEPT ![p] = n]
  /\ UNCHANGED <<clock, life, start, generation, parent>>

\* A process exits; if it was the client's parent, init or a subreaper adopts it.
Exit(p) ==
  /\ Moves
  /\ life[p] = "running"
  /\ life' = [life EXCEPT ![p] = "zombie"]
  /\ IF parent = p
     THEN parent' \in {Kernel} \cup {q \in Elders \ {p} : life[q] = "running" /\ generation[q] = 1}
     ELSE UNCHANGED parent
  /\ UNCHANGED <<clock, executable, name, start, generation>>

Reap(p) ==
  /\ Moves
  /\ life[p] = "zombie"
  /\ life' = [life EXCEPT ![p] = "free"]
  /\ UNCHANGED <<clock, executable, name, start, generation, parent>>

-----------------------------------------------------------------------------
(***************************************************************************)
(* Caller                                                                  *)
(***************************************************************************)

\* Seeded fault: the start time is read before the executable.
AfterStartFirst(fact) ==
  CASE fact = "parent" -> "start" [] fact = "start" -> "executable" [] fact = "executable" -> "done"

\* The order of the fields of the literal in from_kernel and current_process.
After(fact) ==
  CASE fact = "parent" -> "executable" [] fact = "executable" -> "start" [] fact = "start" -> "done"

Describe(pid) ==
  /\ target' = pid
  /\ seen' = [seen EXCEPT !.parent = Generation(pid)]
  /\ pc' = After("parent")
  /\ UNCHANGED <<caller, world>>

\* Seeded fault, of FromKernel: init is a caller.
FromKernelAlways == pc = "parent" /\ Describe(parent)

\* Caller::from_kernel: a client adopted by init has no caller.
FromKernel ==
  /\ pc = "parent"
  /\ \/ parent # Kernel /\ Describe(parent)
     \/ parent = Kernel /\ pc' = "done" /\ UNCHANGED <<target, caller, seen, world>>

\* Caller::current_process.
CurrentProcess == pc = "parent" /\ Describe(Client)

ReadExecutable ==
  /\ pc = "executable"
  /\ caller' = [caller EXCEPT !.executable = ExecutablePath(target)]
  /\ seen' = [seen EXCEPT !.executable = Generation(target)]
  /\ pc' = After("executable")
  /\ UNCHANGED <<target, world>>

ReadStartTime ==
  /\ pc = "start"
  /\ caller' = [caller EXCEPT !.startTime = ProcessStartTime(target)]
  /\ seen' = [seen EXCEPT !.start = Generation(target)]
  /\ pc' = After("start")
  /\ UNCHANGED <<target, world>>

Next ==
  \/ Tick
  \/ \E p \in Pids : Spawn(p) \/ Exec(p) \/ Exit(p) \/ Reap(p)
  \/ FromKernel \/ CurrentProcess \/ ReadExecutable \/ ReadStartTime

Spec == Init /\ [][Next]_vars

-----------------------------------------------------------------------------
(***************************************************************************)
(* Properties                                                              *)
(***************************************************************************)

\* The capture is typed, what it describes is never init, and a start time is
\* one the clock has shown.
TypeOK ==
  /\ clock \in Nat
  /\ life \in [All -> {"free", "running", "zombie"}]
  /\ executable \in [All -> Executables]
  /\ name \in [All -> Names]
  /\ start \in [All -> Nat]
  /\ generation \in [All -> Nat]
  /\ parent \in Pids \cup {Kernel, Outside}
  /\ pc \in {"parent", "executable", "start", "done"}
  /\ target \in All \cup {Outside}
  /\ caller \in [executable : Executables \cup {NoFile}, startTime : -1 .. clock]
  /\ seen \in [parent : Nat, executable : Nat, start : Nat]

\* A start time before the client's own vouches for the whole record: pid,
\* executable and start time are those of one process, although they were read
\* one after the other (Caller::from_kernel). One after the client's own shows
\* that the pid has gone to another process in between.
StartTimeVouchesForCaller ==
  pc = "done" /\ caller.startTime # NoTime =>
    /\ caller.startTime < ClientStart =>
         /\ seen.start = seen.parent
         /\ caller.executable # NoFile => seen.executable = seen.parent
    /\ caller.startTime > ClientStart => seen.start # seen.parent

\* A caller that lives through the capture is described. Its start time is the
\* kernel's and no later than the client's, whatever text its name is, and only
\* a name that is not text loses it (process_start_time, start_time_ticks). The
\* executable is missing only if the client may not read it.
LivingCallerIsDescribed ==
  pc = "done" /\ target \in All /\ seen.parent # 0
  /\ generation[target] = seen.parent /\ life[target] # "free" =>
      /\ caller.startTime = IF IsText(name[target]) THEN start[target] ELSE NoTime
      /\ caller.startTime <= ClientStart
      /\ life[target] = "running" /\ target \notin Opaque => caller.executable # NoFile

=============================================================================
