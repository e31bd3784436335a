-------------------------- MODULE ProcessorProofs --------------------------
(***************************************************************************)
(* Proofs about Processor for items of any length and pipes of any size.   *)
(***************************************************************************)
EXTENDS Processor, PickProofs

Last == Len(script)

\* The last command of the script, and no other, is the one that the client adds.
ScriptEnds ==
    /\ script \in Seq(Command \cup {"exit_status"})
    /\ Last \in Nat \ {0}
    /\ script[Last] = "exit_status"
    /\ \A i \in 1..(Last - 1) : script[i] \in Command

\* The types of the variables, and of the pipes, which TypeOK only bounds.
Shape ==
    /\ TypeOK
    /\ out_pipe \in Seq(Nat) /\ err_pipe \in Seq(Nat)

Ending == {"exit", "exit_status"}

\* No command ends the script before the one at which bash is; one that reads
\* the input is never over.
Reading ==
    /\ executing # 0 =>
          /\ \A i \in 1..(executing - 1) : script[i] \notin Ending
          /\ script[executing] # "read" => taken = executing
    /\ child = "running" /\ executing = 0 =>
          \A i \in 1..taken : script[i] \notin Ending
    /\ child = "ended" =>
          /\ executing = 0
          /\ \E i \in 1..sent : /\ script[i] \in Ending
                                /\ \A j \in 1..(i - 1) : script[j] \notin Ending

\* The client writes whole buffers until the script is written.
Buffers ==
    /\ client = "write" => sent < Last /\ (sent = 0 \/ sent >= Chunk)
    /\ client = "killed" => child = "ended" /\ sent < Last /\ sent >= Chunk

PInv == ScriptEnds /\ Shape /\ Reading /\ Buffers

-----------------------------------------------------------------------------
LEMMA ScriptsEnd ==
    ASSUME NEW s \in Item, NEW t, t = Append(s, "exit_status")
    PROVE  /\ t \in Seq(Command \cup {"exit_status"})
           /\ Len(t) \in Nat \ {0}
           /\ t[Len(t)] = "exit_status"
           /\ \A i \in 1..(Len(t) - 1) : t[i] \in Command
  <1> DEFINE S == Command \cup {"exit_status"}
  <1>1. PICK n \in 0..MaxCommands : s \in [1..n -> Command]
    BY DEF Item
  <1>2. s \in [1..n -> S] /\ "exit_status" \in S
    BY <1>1
  <1>3. \A i \in 1..n : s[i] \in Command
    BY <1>1
  <1> HIDE DEF S
  <1>4. s \in Seq(S) /\ Len(s) = n
    BY <1>2
  <1>5. t \in Seq(S) /\ Len(t) = n + 1 /\ t[n + 1] = "exit_status"
    BY <1>2, <1>4, AppendProperties
  <1>6. \A i \in 1..n : t[i] = s[i]
    BY <1>2, <1>4, AppendProperties
  <1>7. Len(t) \in Nat \ {0} /\ Len(t) - 1 = n
    BY <1>5
  <1>8. \A i \in 1..(Len(t) - 1) : t[i] \in Command
    BY <1>3, <1>6, <1>7
  <1>9. t[Len(t)] = "exit_status"
    BY <1>5
  <1> QED
    BY <1>5, <1>7, <1>8, <1>9 DEF S

LEMMA InitHolds == Init => PInv
  <1> SUFFICES ASSUME Init
               PROVE  PInv
    OBVIOUS
  <1>1. ScriptEnds
    <2>1. PICK s \in Item : script = Append(s, "exit_status")
      BY DEF Init
    <2> QED
      BY <2>1, ScriptsEnd DEF ScriptEnds, Last
  <1>2. <<>> \in Seq(Nat) /\ Len(<<>>) = 0
    BY EmptySeq
  <1>3. Last \in Nat /\ Capacity \in Nat
    BY <1>1, ProcessorAssumption DEF ScriptEnds
  <1>4. Shape
    <2>1. sent \in 0..Len(script) /\ taken \in 0..sent /\ executing \in 0..taken
      BY <1>3 DEF Init, Last
    <2>2. /\ out_pipe \in Seq(Nat) /\ Len(out_pipe) <= Capacity
          /\ err_pipe \in Seq(Nat) /\ Len(err_pipe) <= Capacity
      BY <1>2, <1>3 DEF Init
    <2> QED
      BY <2>1, <2>2 DEF Init, Shape, TypeOK
  <1>5. Reading /\ Buffers
    BY <1>3, <1>1 DEF Init, Reading, Buffers, ScriptEnds
  <1> QED
    BY <1>1, <1>4, <1>5 DEF PInv

\* How far the client and the child are.
LEMMA Places ==
    ASSUME PInv
    PROVE  /\ Last \in Nat /\ DOMAIN script = 1..Last
           /\ sent \in Nat /\ sent <= Last
           /\ taken \in Nat /\ taken <= sent
           /\ executing \in Nat /\ executing <= taken
  <1>1. Last \in Nat /\ DOMAIN script = 1..Last
    BY LenProperties DEF PInv, ScriptEnds, Last
  <1>2. sent \in 0..Last /\ taken \in 0..sent /\ executing \in 0..taken
    BY DEF PInv, Shape, TypeOK, Last
  <1> QED
    BY <1>1, <1>2

LEMMA ScriptKept ==
    ASSUME PInv, UNCHANGED script
    PROVE  ScriptEnds' /\ Last' = Last
  BY DEF PInv, ScriptEnds, Last

\* What every step of the child leaves alone.
LEMMA ClientUntouched ==
    ASSUME PInv, UNCHANGED <<script, client, sent>>, child = "ended" => child' = "ended"
    PROVE  Buffers'
  BY ScriptKept DEF PInv, Buffers

LEMMA ReadCommandKeeps ==
    ASSUME PInv, ReadCommand
    PROVE  PInv'
  <1> USE DEF ReadCommand, PInv
  <1>1. ScriptEnds' /\ Buffers'
    BY ScriptKept, ClientUntouched
  <1>2. Shape'
    BY Places DEF Shape, TypeOK, pipes
  <1>3. Reading'
    BY Places DEF Reading
  <1> QED
    BY <1>1, <1>2, <1>3

\* A command that is over, other than the two that end the script.
LEMMA CommandOver ==
    ASSUME PInv, NEW command \in {"ok", "fail", "out", "err", "spawn"}, Executes(command),
           NEW s \in {0, 1}, Ends(s), Shape'
    PROVE  PInv'
  <1>1. ScriptEnds' /\ Buffers'
    BY ScriptKept, ClientUntouched DEF Ends
  <1>2. taken = executing /\ script[executing] \notin Ending
    BY DEF PInv, Reading, Executes, Ending
  <1>3. Reading'
    BY <1>2 DEF PInv, Reading, Executes, Ends, Shape, TypeOK
  <1> QED
    BY <1>1, <1>3 DEF PInv

LEMMA PlainKeeps ==
    ASSUME PInv, Plain
    PROVE  PInv'
  <1>1. Shape'
    BY DEF PInv, Shape, TypeOK, Plain, Ends, pipes
  <1> QED
    BY <1>1, CommandOver DEF Plain

LEMMA WriteOutKeeps ==
    ASSUME PInv, WriteOut
    PROVE  PInv'
  <1>1. /\ out_pipe' \in Seq(Nat) /\ Len(out_pipe') = Len(out_pipe) + 1
    BY AppendProperties DEF PInv, Shape, TypeOK, WriteOut
  <1>2. Shape'
    BY <1>1, ProcessorAssumption DEF PInv, Shape, TypeOK, WriteOut, Ends
  <1> QED
    BY <1>2, CommandOver DEF WriteOut

LEMMA WriteErrKeeps ==
    ASSUME PInv, WriteErr
    PROVE  PInv'
  <1>1. /\ err_pipe' \in Seq(Nat) /\ Len(err_pipe') = Len(err_pipe) + 1
    BY AppendProperties DEF PInv, Shape, TypeOK, WriteErr
  <1>2. Shape'
    BY <1>1, ProcessorAssumption DEF PInv, Shape, TypeOK, WriteErr, Ends
  <1> QED
    BY <1>2, CommandOver DEF WriteErr

LEMMA ReadInputKeeps ==
    ASSUME PInv, ReadInput
    PROVE  PInv'
  <1> USE DEF ReadInput, Executes, PInv
  <1>1. ScriptEnds' /\ Buffers'
    BY ScriptKept, ClientUntouched
  <1>2. Shape'
    BY DEF Shape, TypeOK, pipes
  <1>3. Reading'
    BY DEF Reading, Shape, TypeOK
  <1> QED
    BY <1>1, <1>2, <1>3

LEMMA SpawnKeeps ==
    ASSUME PInv, Spawn
    PROVE  PInv'
  <1>1. executing \in DOMAIN script
    BY Places DEF Spawn, Executes
  <1>2. Shape'
    BY <1>1 DEF PInv, Shape, TypeOK, Spawn, Ends, pipes
  <1> QED
    BY <1>2, CommandOver DEF Spawn

LEMMA ExitKeeps ==
    ASSUME PInv, Exit
    PROVE  PInv'
  <1>1. ScriptEnds' /\ Buffers'
    BY ScriptKept, ClientUntouched DEF Exit
  <1>2. /\ executing \in 1..sent /\ script[executing] \in Ending
        /\ \A j \in 1..(executing - 1) : script[j] \notin Ending
    BY Places DEF Exit, Executes, PInv, Reading, Ending
  <1>3. status' \in {0, 1, 3} /\ executing' \in 0..taken'
    BY Places DEF Exit, PInv, Shape, TypeOK
  <1>4. Shape'
    BY <1>3 DEF Exit, PInv, Shape, TypeOK, pipes
  <1>5. Reading'
    BY <1>2 DEF Exit, Reading
  <1> QED
    BY <1>1, <1>4, <1>5 DEF PInv

LEMMA SpawnedWritesKeeps ==
    ASSUME PInv, NEW p \in spawned, SpawnedWrites(p)
    PROVE  PInv'
  <1>1. p \in Nat
    BY Places DEF PInv, Shape, TypeOK
  <1>2. /\ out_pipe' \in Seq(Nat) /\ Len(out_pipe') = Len(out_pipe) + 1
    BY <1>1, AppendProperties DEF PInv, Shape, TypeOK, SpawnedWrites
  <1>3. Shape'
    BY <1>2, ProcessorAssumption DEF PInv, Shape, TypeOK, SpawnedWrites
  <1>4. ScriptEnds' /\ Buffers' /\ Reading'
    BY ScriptKept, ClientUntouched DEF PInv, Reading, SpawnedWrites
  <1> QED
    BY <1>3, <1>4 DEF PInv

\* A write of a whole buffer, or of what is left of the script.
LEMMA WriteScriptKeeps ==
    ASSUME PInv, WriteScript
    PROVE  PInv'
  <1> USE DEF WriteScript, PInv
  <1>1. ScriptEnds' /\ Last' = Last
    BY ScriptKept
  <1>2. /\ sent \in Nat /\ Last \in Nat /\ Chunk \in Nat \ {0} /\ sent < Last
        /\ sent' = sent + IF Last - sent < Chunk THEN Last - sent ELSE Chunk
    BY Places, ProcessorAssumption DEF Buffers, NextChunk, Last
  <1>3. sent' \in sent..Last /\ (sent' = Last \/ sent' >= Chunk)
    BY <1>2
  <1>4. Shape'
    BY <1>1, <1>2, <1>3 DEF Shape, TypeOK, childVars, pipes, Last
  <1>5. Reading'
    BY <1>2, <1>3 DEF Reading, childVars
  <1>6. Buffers'
    BY <1>1, <1>2, <1>3 DEF Buffers, Last
  <1> QED
    BY <1>1, <1>4, <1>5, <1>6

\* The client is killed at a later buffer, as an item that ended was read, and
\* so was written in part.
LEMMA BrokenPipeKeeps ==
    ASSUME PInv, BrokenPipe
    PROVE  PInv'
  <1> USE DEF BrokenPipe, PInv
  <1>1. ScriptEnds' /\ Last' = Last
    BY ScriptKept
  <1>2. sent # 0
    BY DEF Reading, Shape, TypeOK
  <1>3. Shape' /\ Reading'
    BY DEF Shape, TypeOK, Reading, childVars, pipes
  <1>4. Buffers'
    BY <1>1, <1>2 DEF Buffers, childVars
  <1> QED
    BY <1>1, <1>3, <1>4

LEMMA WaitKeeps ==
    ASSUME PInv, Wait
    PROVE  PInv'
  <1> USE DEF Wait, PInv
  <1>1. ScriptEnds'
    BY ScriptKept
  <1>2. Shape' /\ Reading' /\ Buffers'
    BY DEF Shape, TypeOK, Reading, Buffers, childVars, pipes
  <1> QED
    BY <1>1, <1>2

LEMMA ReadsKeep ==
    ASSUME PInv, ReadOut \/ ReadErr
    PROVE  PInv'
  <1>1. ScriptEnds' /\ Last' = Last
    BY ScriptKept DEF ReadOut, ReadErr
  <1>2. \A s \in Seq(Nat) : s # <<>> => Tail(s) \in Seq(Nat) /\ Len(Tail(s)) = Len(s) - 1
    BY HeadTailProperties
  <1>3. /\ out_pipe' \in Seq(Nat) /\ Len(out_pipe') <= Capacity
        /\ err_pipe' \in Seq(Nat) /\ Len(err_pipe') <= Capacity
    <2>1. \A s \in Seq(Nat) : Len(s) \in Nat
      BY LenProperties
    <2>2. /\ out_pipe \in Seq(Nat) /\ Len(out_pipe) <= Capacity
          /\ err_pipe \in Seq(Nat) /\ Len(err_pipe) <= Capacity
      BY DEF PInv, Shape, TypeOK
    <2>3. \A s \in Seq(Nat) : s # <<>> /\ Len(s) <= Capacity => Len(Tail(s)) <= Capacity
      BY <1>2, <2>1, ProcessorAssumption
    <2>4. CASE ReadOut
      <3>1. /\ UNCHANGED err_pipe
            /\ \/ UNCHANGED out_pipe
               \/ out_pipe # <<>> /\ out_pipe' = Tail(out_pipe)
        BY <2>4 DEF ReadOut
      <3> QED
        BY <3>1, <1>2, <2>2, <2>3
    <2>5. CASE ReadErr
      <3>1. /\ UNCHANGED out_pipe
            /\ \/ UNCHANGED err_pipe
               \/ err_pipe # <<>> /\ err_pipe' = Tail(err_pipe)
        BY <2>5 DEF ReadErr
      <3> QED
        BY <3>1, <1>2, <2>2, <2>3
    <2> QED
      BY <2>4, <2>5
  <1>4. /\ client' \in {"read_out", "read_err", "returned"}
        /\ UNCHANGED <<script, sent, taken, executing, child, status, spawned>>
    BY DEF ReadOut, ReadErr, childVars
  <1>5. Shape'
    BY <1>3, <1>4 DEF PInv, Shape, TypeOK
  <1>6. Reading' /\ Buffers'
    BY <1>4 DEF PInv, Reading, Buffers
  <1> QED
    BY <1>1, <1>5, <1>6 DEF PInv

LEMMA StutterKeeps ==
    ASSUME PInv, UNCHANGED vars
    PROVE  PInv'
  BY ScriptKept DEF vars, childVars, pipes, strings, PInv, Shape, TypeOK, Reading, Buffers

LEMMA NextKeeps == PInv /\ [Next]_vars => PInv'
  BY ReadCommandKeeps, PlainKeeps, WriteOutKeeps, WriteErrKeeps, ReadInputKeeps, SpawnKeeps,
     ExitKeeps, SpawnedWritesKeeps, WriteScriptKeeps, BrokenPipeKeeps, WaitKeeps, ReadsKeep,
     StutterKeeps
  DEF Next, ChildStep, ClientStep

THEOREM Invariance == Spec => []PInv
  BY InitHolds, NextKeeps, PTL DEF Spec

\* The types of process_work's state are kept for items of any length: a pipe
\* never holds more than it can, and bash never reads what was not written.
THEOREM TypeCorrect == Spec => []TypeOK
  <1>1. PInv => TypeOK
    BY DEF PInv, Shape
  <1> QED
    BY Invariance, <1>1, PTL

\* The client is killed only by an item with an exit of its own that does not fit
\* in one buffer, whatever the length of the item and the sizes of pipe and
\* buffer.
THEOREM KilledOnlyByEarlyExit == Spec => []KilledByEarlyExit
  <1>1. ASSUME PInv, client = "killed"
        PROVE  Len(script) > Chunk /\ \E i \in Executed : script[i] = "exit"
    <2>1. Len(script) > Chunk
      BY <1>1, Places, ProcessorAssumption DEF PInv, Buffers, Last
    <2>2. PICK i \in 1..sent : /\ script[i] \in Ending
                               /\ \A j \in 1..(i - 1) : script[j] \notin Ending
      BY <1>1 DEF PInv, Buffers, Reading
    <2>3. i < Last /\ i \in DOMAIN script
      BY <1>1, <2>2, Places DEF PInv, Buffers
    <2>4. script[i] \in Command
      BY <1>1, <2>2, <2>3, Places DEF PInv, ScriptEnds
    <2>5. script[i] = "exit"
      BY <2>2, <2>4 DEF Ending, Command
    <2> QED
      BY <2>1, <2>2, <2>3, <2>5 DEF Executed, Ending
  <1>2. PInv => KilledByEarlyExit
    BY <1>1 DEF KilledByEarlyExit
  <1> QED
    BY Invariance, <1>2, PTL

-----------------------------------------------------------------------------
(* The result of an item.                                                  *)

\* The places of the commands that are over.
Ran == 1..(IF executing = 0 THEN taken ELSE executing - 1)

RanOf(commands) == {i \in Ran : script[i] \in commands}

StatusOf(i) == IF i \in DOMAIN script /\ script[i] = "fail" THEN 1 ELSE 0

\* s has the numbers of places, each of them once.
Gathers(s, places) ==
    /\ s \in Seq(Nat)
    /\ {s[k] : k \in DOMAIN s} = places
    /\ \A k, l \in DOMAIN s : s[k] = s[l] => k = l

\* What was written, in the pipe or read from it.
Out == output_str \o out_pipe
Err == error_str \o err_pipe

\* Nothing that was written is lost, but what a background process writes later.
OutputGathered ==
    /\ output_str \in Seq(Nat) /\ error_str \in Seq(Nat)
    /\ spawned \subseteq RanOf({"spawn"})
    /\ Gathers(Out, RanOf({"out", "spawn"}) \ spawned) /\ InOrderOf(Out, "out")
    /\ Gathers(Err, RanOf({"err"})) /\ InOrderOf(Err, "err")

\* $? is that of the last command that is over.
StatusIsLast ==
    /\ child = "running" => status = StatusOf(IF executing = 0 THEN taken ELSE executing - 1)
    /\ child = "ended" =>
          /\ taken # 0 /\ script[taken] \in {"exit", "exit_status"}
          /\ \A j \in 1..(taken - 1) : script[j] \notin {"exit", "exit_status"}
          /\ status = IF script[taken] = "exit" THEN 3 ELSE StatusOf(taken - 1)

\* The client reads when the child is over, and to the end.
ReadsToEnd ==
    /\ client \in {"read_out", "read_err", "returned"} => child = "ended"
    /\ client \in {"read_err", "returned"} => spawned = {} /\ out_pipe = <<>>
    /\ client = "returned" => err_pipe = <<>>

GInv == OutputGathered /\ StatusIsLast /\ ReadsToEnd

\* A sequence without repetitions is as long as what it holds.
LEMMA GathersLength ==
    ASSUME NEW places, NEW s, Gathers(s, places)
    PROVE  Len(s) = Cardinality(places)
  <1>1. DOMAIN s = 1..Len(s) /\ Len(s) \in Nat
    BY LenProperties DEF Gathers
  <1>2. IsFiniteSet(DOMAIN s) /\ Cardinality(DOMAIN s) = Len(s)
    <2>1. /\ IsFiniteSet(1..Len(s))
          /\ Cardinality(1..Len(s)) = IF 1 > Len(s) THEN 0 ELSE Len(s) - 1 + 1
      BY <1>1, FS_Interval
    <2> QED
      BY <1>1, <2>1
  <1> DEFINE g == [k \in DOMAIN s |-> s[k]]
  <1>3. /\ g \in [DOMAIN s -> places]
        /\ \A k, l \in DOMAIN s : g[k] = g[l] => k = l
        /\ \A i \in places : \E k \in DOMAIN s : g[k] = i
    BY DEF Gathers
  <1>4. g \in Injection(DOMAIN s, places) /\ g \in Surjection(DOMAIN s, places)
    BY <1>3 DEF Injection, IsInjective, Surjection
  <1> QED
    BY <1>2, <1>4, FS_Surjection

LEMMA AppendGathers ==
    ASSUME NEW places, NEW s, Gathers(s, places), NEW x \in Nat, x \notin places
    PROVE  Gathers(Append(s, x), places \cup {x})
  <1>1. s \in Seq(Nat) /\ DOMAIN s = 1..Len(s) /\ Len(s) \in Nat
    BY LenProperties DEF Gathers
  <1> DEFINE t == Append(s, x)
  <1>2. t \in Seq(Nat) /\ Len(t) = Len(s) + 1 /\ t[Len(s) + 1] = x
    BY <1>1, AppendProperties
  <1>3. \A k \in DOMAIN s : t[k] = s[k]
    BY <1>1, AppendProperties
  <1>4. DOMAIN t = DOMAIN s \cup {Len(s) + 1}
    BY <1>1, <1>2, LenProperties
  <1>5. \A k \in DOMAIN s : s[k] \in places
    BY DEF Gathers
  <1> HIDE DEF t
  <1>6. {t[k] : k \in DOMAIN t} = places \cup {x}
    BY <1>2, <1>3, <1>4 DEF Gathers
  <1>7. \A k, l \in DOMAIN t : t[k] = t[l] => k = l
    BY <1>2, <1>3, <1>4, <1>5 DEF Gathers
  <1> QED
    BY <1>2, <1>6, <1>7 DEF Gathers, t

\* A later command of that kind, or a command of another kind.
LEMMA AppendInOrder ==
    ASSUME NEW s \in Seq(Nat), NEW command, InOrderOf(s, command), NEW x \in Nat,
           script[x] = command => \A k \in DOMAIN s : s[k] < x
    PROVE  InOrderOf(Append(s, x), command)
  <1>1. DOMAIN s = 1..Len(s) /\ Len(s) \in Nat
    BY LenProperties
  <1> DEFINE t == Append(s, x)
  <1>2. t \in Seq(Nat) /\ Len(t) = Len(s) + 1 /\ t[Len(s) + 1] = x
    BY <1>1, AppendProperties
  <1>3. \A k \in DOMAIN s : t[k] = s[k]
    BY <1>1, AppendProperties
  <1>4. DOMAIN t = DOMAIN s \cup {Len(s) + 1}
    BY <1>1, <1>2, LenProperties
  <1>5. \A k \in DOMAIN s : k < Len(s) + 1 /\ k \in Nat
    BY <1>1
  <1> HIDE DEF t
  <1>6. ASSUME NEW k \in DOMAIN t, NEW l \in DOMAIN t, k < l,
               script[t[k]] = command, script[t[l]] = command
        PROVE  t[k] < t[l]
    <2>1. k \in DOMAIN s
      BY <1>1, <1>4, <1>5, <1>6
    <2>2. CASE l \in DOMAIN s
      BY <1>3, <1>6, <2>1, <2>2 DEF InOrderOf
    <2>3. CASE l = Len(s) + 1
      BY <1>2, <1>3, <1>6, <2>1, <2>3
    <2> QED
      BY <1>4, <2>2, <2>3
  <1> QED
    BY <1>6 DEF InOrderOf, t

\* Whether a unit is in the pipe or was read, it is in the same place.
LEMMA PipeToString ==
    ASSUME NEW s \in Seq(Nat), NEW p \in Seq(Nat)
    PROVE  /\ p # <<>> => /\ Append(s, Head(p)) \in Seq(Nat)
                          /\ Append(s, Head(p)) \o Tail(p) = s \o p
           /\ \A x \in Nat : s \o Append(p, x) = Append(s \o p, x)
           /\ s \o <<>> = s /\ s \o p \in Seq(Nat)
  <1>1. ASSUME p # <<>>
        PROVE  Head(p) \in Nat /\ Tail(p) \in Seq(Nat) /\ p = <<Head(p)>> \o Tail(p)
    <2>1. Len(p) \in Nat \ {0} /\ Len(p) \in 1..Len(p) /\ 1 \in 1..Len(p)
      BY <1>1, EmptySeq, LenProperties
    <2>2. p = SubSeq(p, 1, Len(p)) /\ Tail(p) = SubSeq(p, 2, Len(p)) /\ Head(p) = p[1]
      BY <1>1, <2>1, SubSeqFull, TailIsSubSeq
    <2>3. SubSeq(p, 1, Len(p)) = <<p[1]>> \o SubSeq(p, 2, Len(p))
      BY <2>1, SubSeqRecursiveFirst
    <2> QED
      BY <1>1, <2>2, <2>3, HeadTailProperties
  <1>2. ASSUME p # <<>>
        PROVE  Append(s, Head(p)) \in Seq(Nat) /\ Append(s, Head(p)) \o Tail(p) = s \o p
    <2>1. Append(s, Head(p)) = s \o <<Head(p)>> /\ Append(s, Head(p)) \in Seq(Nat)
      BY <1>1, <1>2, AppendIsConcat, AppendProperties
    <2>2. <<Head(p)>> \in Seq(Nat)
      BY <1>1, <1>2
    <2>3. (s \o <<Head(p)>>) \o Tail(p) = s \o (<<Head(p)>> \o Tail(p))
      BY <1>1, <1>2, <2>2, ConcatAssociative
    <2> QED
      BY <1>1, <1>2, <2>1, <2>3
  <1>3. ASSUME NEW x \in Nat
        PROVE  s \o Append(p, x) = Append(s \o p, x)
    <2>1. Append(p, x) = p \o <<x>> /\ <<x>> \in Seq(Nat) /\ s \o p \in Seq(Nat)
      BY AppendIsConcat, ConcatProperties
    <2>2. Append(s \o p, x) = (s \o p) \o <<x>>
      BY <2>1, AppendIsConcat
    <2> QED
      BY <2>1, <2>2, ConcatAssociative
  <1> QED
    BY <1>2, <1>3, ConcatEmptySeq, ConcatProperties


Written == {"out", "spawn"}

LEMMA OutputInit == Init => GInv
  <1> SUFFICES ASSUME Init
               PROVE  GInv
    OBVIOUS
  <1>1. <<>> \in Seq(Nat) /\ DOMAIN <<>> = {} /\ <<>> \o <<>> = <<>>
    BY EmptySeq, ConcatEmptySeq
  <1>2. Out = <<>> /\ Err = <<>> /\ Ran = {}
    BY <1>1 DEF Init, Out, Err, Ran
  <1>3. OutputGathered
    BY <1>1, <1>2 DEF Init, OutputGathered, Gathers, InOrderOf, RanOf
  <1>4. 0 \notin DOMAIN script
    BY InitHolds, Places
  <1> QED
    BY <1>3, <1>4 DEF Init, GInv, StatusIsLast, StatusOf, ReadsToEnd

\* What a step does not write stays where it is, or goes from the pipe to the
\* client.
LEMMA OutputKept ==
    ASSUME OutputGathered, UNCHANGED <<script, spawned>>, Out' = Out, Err' = Err,
           output_str' \in Seq(Nat), error_str' \in Seq(Nat),
           RanOf({"spawn"})' = RanOf({"spawn"}), RanOf(Written)' = RanOf(Written),
           RanOf({"err"})' = RanOf({"err"})
    PROVE  OutputGathered'
  BY DEF OutputGathered, Gathers, InOrderOf, Written

LEMMA RanKept ==
    ASSUME UNCHANGED script, Ran' = Ran, NEW C
    PROVE  RanOf(C)' = RanOf(C)
  BY DEF RanOf

\* The commands that are over when another one is.
LEMMA RanMore ==
    ASSUME PInv, NEW command \in Command \cup {"exit_status"}, command # "read",
           Executes(command), UNCHANGED <<script, taken>>, executing' = 0
    PROVE  /\ executing \in Nat \ {0} /\ taken = executing
           /\ Ran = 1..(executing - 1) /\ Ran' = 1..executing
           /\ \A C : RanOf(C)' = RanOf(C) \cup (IF command \in C THEN {executing} ELSE {})
           /\ \A C : \A i \in RanOf(C) : i \in Nat /\ i < executing
  <1>1. /\ executing \in Nat \ {0} /\ taken = executing /\ script[executing] = command
    BY Places DEF Executes, PInv, Reading
  <1>2. Ran = 1..(executing - 1) /\ Ran' = 1..executing
    BY <1>1 DEF Ran
  <1>3. \A i : i \in 1..executing <=> i \in 1..(executing - 1) \/ i = executing
    BY <1>1
  <1>4. ASSUME NEW C
        PROVE  RanOf(C)' = RanOf(C) \cup (IF command \in C THEN {executing} ELSE {})
    BY <1>1, <1>2, <1>3 DEF RanOf
  <1>5. ASSUME NEW C, NEW i \in RanOf(C)
        PROVE  i \in Nat /\ i < executing
    BY <1>1, <1>2 DEF RanOf
  <1> QED
    BY <1>1, <1>2, <1>4, <1>5

\* The status after a command that is over.
LEMMA StatusAfter ==
    ASSUME PInv, GInv, NEW command \in {"ok", "fail", "out", "err", "spawn"},
           Executes(command), Ends(IF command = "fail" THEN 1 ELSE 0)
    PROVE  StatusIsLast' /\ ReadsToEnd'
  <1>1. executing \in Nat \ {0} /\ taken = executing /\ executing \in DOMAIN script
    BY RanMore, Places DEF Ends, Command
  <1>2. status' = StatusOf(taken)' /\ child' = "running" /\ executing' = 0 /\ client' = client
    BY <1>1 DEF Executes, Ends, StatusOf
  <1>3. child = "running" /\ client \notin {"read_out", "read_err", "returned"}
    BY DEF Executes, GInv, ReadsToEnd
  <1>4. StatusIsLast'
    BY <1>2 DEF StatusIsLast
  <1> QED
    BY <1>2, <1>3, <1>4 DEF ReadsToEnd

LEMMA PlainGathers ==
    ASSUME PInv, GInv, Plain
    PROVE  GInv'
  <1>1. PICK command \in {"ok", "fail"} :
           Executes(command) /\ Ends(IF command = "fail" THEN 1 ELSE 0)
    BY DEF Plain
  <1>2. /\ UNCHANGED <<script, taken, spawned, strings, pipes>> /\ executing' = 0
    BY <1>1 DEF Plain, Ends
  <1>3. \A C : command \notin C => RanOf(C)' = RanOf(C)
    <2>1. command \in Command \cup {"exit_status"} /\ command # "read" /\ Executes(command)
      BY <1>1 DEF Command
    <2>2. \A C : RanOf(C)' = RanOf(C) \cup (IF command \in C THEN {executing} ELSE {})
      BY <1>2, <2>1, RanMore
    <2> QED
      BY <2>2
  <1>4. /\ RanOf({"spawn"})' = RanOf({"spawn"}) /\ RanOf(Written)' = RanOf(Written)
        /\ RanOf({"err"})' = RanOf({"err"})
    BY <1>3 DEF Written
  <1>5. Out' = Out /\ Err' = Err /\ output_str' \in Seq(Nat) /\ error_str' \in Seq(Nat)
    BY <1>2 DEF Out, Err, strings, pipes, GInv, OutputGathered
  <1>6. OutputGathered'
    BY <1>2, <1>4, <1>5, OutputKept DEF GInv
  <1> QED
    BY <1>1, <1>6, StatusAfter DEF GInv

LEMMA WriteOutGathers ==
    ASSUME PInv, GInv, WriteOut
    PROVE  GInv'
  <1>1. Executes("out") /\ Ends(0)
    BY DEF WriteOut
  <1>2. /\ UNCHANGED <<script, taken, spawned, strings, err_pipe>> /\ executing' = 0
        /\ out_pipe' = Append(out_pipe, executing)
    BY DEF WriteOut, Ends
  <1>3. /\ executing \in Nat
        /\ \A C : RanOf(C)' = RanOf(C) \cup (IF "out" \in C THEN {executing} ELSE {})
        /\ \A C : \A i \in RanOf(C) : i \in Nat /\ i < executing
    BY <1>1, <1>2, RanMore DEF Command
  <1>4. /\ RanOf({"spawn"})' = RanOf({"spawn"}) /\ RanOf({"err"})' = RanOf({"err"})
        /\ RanOf(Written)' = RanOf(Written) \cup {executing}
    BY <1>3 DEF Written
  <1>5. output_str \in Seq(Nat) /\ out_pipe \in Seq(Nat) /\ Out \in Seq(Nat)
    BY PipeToString DEF GInv, OutputGathered, PInv, Shape, Out
  <1>6. Out' = Append(Out, executing) /\ Err' = Err
    BY <1>2, <1>3, <1>5, PipeToString DEF Out, Err, strings
  <1>7. \A i \in RanOf(Written) : i < executing /\ i # executing
    BY <1>3
  <1>8. executing \notin RanOf({"spawn"}) /\ spawned \subseteq RanOf({"spawn"})
    BY <1>3 DEF GInv, OutputGathered
  <1>9. Gathers(Out', (RanOf(Written) \ spawned) \cup {executing})
    <2>1. Gathers(Out, RanOf(Written) \ spawned) /\ executing \notin RanOf(Written) \ spawned
      BY <1>7 DEF GInv, OutputGathered, Written
    <2> QED
      BY <1>3, <1>6, <2>1, AppendGathers
  <1>10. (RanOf(Written) \ spawned) \cup {executing} = RanOf(Written)' \ spawned'
    BY <1>2, <1>4, <1>8
  <1>11. InOrderOf(Out', "out")
    <2>1. \A k \in DOMAIN Out : Out[k] \in RanOf(Written)
      BY DEF GInv, OutputGathered, Gathers, Written
    <2>2. InOrderOf(Out, "out")
      BY DEF GInv, OutputGathered
    <2> QED
      BY <1>3, <1>5, <1>6, <1>7, <2>1, <2>2, AppendInOrder
  <1>12. Gathers(Out, RanOf(Written) \ spawned)' /\ InOrderOf(Out, "out")'
    BY <1>2, <1>9, <1>10, <1>11 DEF Gathers, InOrderOf
  <1>13. Gathers(Err, RanOf({"err"}))' /\ InOrderOf(Err, "err")'
    BY <1>2, <1>4, <1>6 DEF GInv, OutputGathered, Gathers, InOrderOf
  <1>14. OutputGathered'
    <2>1. output_str' \in Seq(Nat) /\ error_str' \in Seq(Nat) /\ spawned' \subseteq RanOf({"spawn"})'
      BY <1>2, <1>4 DEF strings, GInv, OutputGathered
    <2> QED
      BY <1>12, <1>13, <2>1 DEF OutputGathered, Written
  <1> QED
    BY <1>1, <1>14, StatusAfter DEF GInv

LEMMA WriteErrGathers ==
    ASSUME PInv, GInv, WriteErr
    PROVE  GInv'
  <1>1. Executes("err") /\ Ends(0)
    BY DEF WriteErr
  <1>2. /\ UNCHANGED <<script, taken, spawned, strings, out_pipe>> /\ executing' = 0
        /\ err_pipe' = Append(err_pipe, executing)
    BY DEF WriteErr, Ends
  <1>3. /\ executing \in Nat
        /\ \A C : RanOf(C)' = RanOf(C) \cup (IF "err" \in C THEN {executing} ELSE {})
        /\ \A C : \A i \in RanOf(C) : i \in Nat /\ i < executing
    BY <1>1, <1>2, RanMore DEF Command
  <1>4. /\ RanOf({"spawn"})' = RanOf({"spawn"}) /\ RanOf(Written)' = RanOf(Written)
        /\ RanOf({"err"})' = RanOf({"err"}) \cup {executing}
    BY <1>3 DEF Written
  <1>5. error_str \in Seq(Nat) /\ err_pipe \in Seq(Nat) /\ Err \in Seq(Nat)
    BY PipeToString DEF GInv, OutputGathered, PInv, Shape, Err
  <1>6. Err' = Append(Err, executing) /\ Out' = Out
    BY <1>2, <1>3, <1>5, PipeToString DEF Out, Err, strings
  <1>7. \A i \in RanOf({"err"}) : i < executing /\ i # executing
    BY <1>3
  <1>8. Gathers(Err', RanOf({"err"})')
    <2>1. Gathers(Err, RanOf({"err"})) /\ executing \notin RanOf({"err"})
      BY <1>7 DEF GInv, OutputGathered
    <2> QED
      BY <1>3, <1>4, <1>6, <2>1, AppendGathers
  <1>9. InOrderOf(Err', "err")
    <2>1. \A k \in DOMAIN Err : Err[k] \in RanOf({"err"})
      BY DEF GInv, OutputGathered, Gathers
    <2>2. InOrderOf(Err, "err")
      BY DEF GInv, OutputGathered
    <2> QED
      BY <1>3, <1>5, <1>6, <1>7, <2>1, <2>2, AppendInOrder
  <1>10. Gathers(Err, RanOf({"err"}))' /\ InOrderOf(Err, "err")'
    BY <1>2, <1>8, <1>9 DEF Gathers, InOrderOf
  <1>11. Gathers(Out, RanOf(Written) \ spawned)' /\ InOrderOf(Out, "out")'
    BY <1>2, <1>4, <1>6 DEF GInv, OutputGathered, Gathers, InOrderOf, Written
  <1>12. OutputGathered'
    <2>1. output_str' \in Seq(Nat) /\ error_str' \in Seq(Nat) /\ spawned' \subseteq RanOf({"spawn"})'
      BY <1>2, <1>4 DEF strings, GInv, OutputGathered
    <2> QED
      BY <1>10, <1>11, <2>1 DEF OutputGathered, Written
  <1> QED
    BY <1>1, <1>12, StatusAfter DEF GInv

LEMMA SpawnGathers ==
    ASSUME PInv, GInv, Spawn
    PROVE  GInv'
  <1>1. Executes("spawn") /\ Ends(0)
    BY DEF Spawn
  <1>2. /\ UNCHANGED <<script, taken, strings, pipes>> /\ executing' = 0
        /\ spawned' = spawned \cup {executing}
    BY DEF Spawn, Ends
  <1>3. /\ executing \in Nat
        /\ \A C : RanOf(C)' = RanOf(C) \cup (IF "spawn" \in C THEN {executing} ELSE {})
        /\ \A C : \A i \in RanOf(C) : i \in Nat /\ i < executing
    BY <1>1, <1>2, RanMore DEF Command
  <1>4. /\ RanOf({"spawn"})' = RanOf({"spawn"}) \cup {executing}
        /\ RanOf({"err"})' = RanOf({"err"})
        /\ RanOf(Written)' = RanOf(Written) \cup {executing}
    BY <1>3 DEF Written
  <1>5. executing \notin RanOf(Written)
    BY <1>3
  <1>6. RanOf(Written)' \ spawned' = RanOf(Written) \ spawned
    BY <1>2, <1>4, <1>5
  <1>7. Out' = Out /\ Err' = Err /\ output_str' \in Seq(Nat) /\ error_str' \in Seq(Nat)
    BY <1>2 DEF Out, Err, strings, pipes, GInv, OutputGathered
  <1>8. Gathers(Out, RanOf(Written) \ spawned)' /\ InOrderOf(Out, "out")'
    BY <1>2, <1>6, <1>7 DEF GInv, OutputGathered, Gathers, InOrderOf, Written
  <1>9. Gathers(Err, RanOf({"err"}))' /\ InOrderOf(Err, "err")'
    BY <1>2, <1>4, <1>7 DEF GInv, OutputGathered, Gathers, InOrderOf
  <1>10. spawned' \subseteq RanOf({"spawn"})'
    BY <1>2, <1>4 DEF GInv, OutputGathered
  <1>11. OutputGathered'
    BY <1>7, <1>8, <1>9, <1>10 DEF OutputGathered, Written
  <1> QED
    BY <1>1, <1>11, StatusAfter DEF GInv

LEMMA SpawnedWritesGathers ==
    ASSUME PInv, GInv, NEW p \in spawned, SpawnedWrites(p)
    PROVE  GInv'
  <1>1. /\ UNCHANGED <<script, client, taken, executing, child, status, strings, err_pipe>>
        /\ out_pipe' = Append(out_pipe, p) /\ spawned' = spawned \ {p}
    BY DEF SpawnedWrites
  <1>2. Ran' = Ran
    BY <1>1 DEF Ran
  <1>3. /\ RanOf({"spawn"})' = RanOf({"spawn"}) /\ RanOf(Written)' = RanOf(Written)
        /\ RanOf({"err"})' = RanOf({"err"})
    BY <1>1, <1>2, RanKept
  <1>4. p \in Nat /\ p \in RanOf(Written) /\ script[p] = "spawn"
    BY Places DEF PInv, Shape, TypeOK, GInv, OutputGathered, RanOf, Written
  <1>5. output_str \in Seq(Nat) /\ out_pipe \in Seq(Nat) /\ Out \in Seq(Nat)
    BY PipeToString DEF GInv, OutputGathered, PInv, Shape, Out
  <1>6. Out' = Append(Out, p) /\ Err' = Err
    BY <1>1, <1>4, <1>5, PipeToString DEF Out, Err, strings
  <1>7. Gathers(Out', (RanOf(Written) \ spawned) \cup {p})
    <2>1. Gathers(Out, RanOf(Written) \ spawned) /\ p \notin RanOf(Written) \ spawned
      BY DEF GInv, OutputGathered, Written
    <2> QED
      BY <1>4, <1>6, <2>1, AppendGathers
  <1>8. (RanOf(Written) \ spawned) \cup {p} = RanOf(Written)' \ spawned'
    BY <1>1, <1>3, <1>4
  <1>9. InOrderOf(Out', "out")
    <2>1. InOrderOf(Out, "out") /\ script[p] # "out"
      BY <1>4 DEF GInv, OutputGathered
    <2> QED
      BY <1>4, <1>5, <1>6, <2>1, AppendInOrder
  <1>10. Gathers(Out, RanOf(Written) \ spawned)' /\ InOrderOf(Out, "out")'
    BY <1>1, <1>7, <1>8, <1>9 DEF Gathers, InOrderOf
  <1>11. Gathers(Err, RanOf({"err"}))' /\ InOrderOf(Err, "err")'
    BY <1>1, <1>3, <1>6 DEF GInv, OutputGathered, Gathers, InOrderOf
  <1>12. OutputGathered'
    <2>1. output_str' \in Seq(Nat) /\ error_str' \in Seq(Nat) /\ spawned' \subseteq RanOf({"spawn"})'
      BY <1>1, <1>3 DEF strings, GInv, OutputGathered
    <2> QED
      BY <1>10, <1>11, <2>1 DEF OutputGathered, Written
  <1>13. StatusIsLast'
    BY <1>1 DEF GInv, StatusIsLast, StatusOf
  <1>14. ReadsToEnd'
    BY <1>1 DEF GInv, ReadsToEnd, strings
  <1> QED
    BY <1>12, <1>13, <1>14 DEF GInv

\* Steps of the child that write nothing.
LEMMA SilentGathers ==
    ASSUME PInv, GInv, UNCHANGED <<script, client, spawned, strings, pipes>>, Ran' = Ran,
           StatusIsLast', child = "ended" => child' = "ended"
    PROVE  GInv'
  <1>1. /\ RanOf({"spawn"})' = RanOf({"spawn"}) /\ RanOf(Written)' = RanOf(Written)
        /\ RanOf({"err"})' = RanOf({"err"})
    BY RanKept
  <1>2. Out' = Out /\ Err' = Err /\ output_str' \in Seq(Nat) /\ error_str' \in Seq(Nat)
    BY DEF Out, Err, strings, pipes, GInv, OutputGathered
  <1>3. OutputGathered'
    BY <1>1, <1>2, OutputKept DEF GInv
  <1>4. ReadsToEnd'
    BY DEF GInv, ReadsToEnd, strings, pipes
  <1> QED
    BY <1>3, <1>4 DEF GInv

LEMMA ReadCommandGathers ==
    ASSUME PInv, GInv, ReadCommand
    PROVE  GInv'
  <1>1. taken \in Nat /\ executing = 0 /\ taken' = taken + 1 /\ executing' = taken + 1
    BY Places DEF ReadCommand
  <1>2. Ran' = Ran
    BY <1>1 DEF Ran
  <1>3. StatusIsLast'
    BY <1>1 DEF ReadCommand, GInv, StatusIsLast, StatusOf
  <1> QED
    BY <1>2, <1>3, SilentGathers DEF ReadCommand

LEMMA ReadInputGathers ==
    ASSUME PInv, GInv, ReadInput
    PROVE  GInv'
  <1>1. Ran' = Ran
    BY DEF ReadInput, Executes, Ran
  <1>2. StatusIsLast'
    BY DEF ReadInput, Executes, GInv, StatusIsLast, StatusOf
  <1> QED
    BY <1>1, <1>2, SilentGathers DEF ReadInput

LEMMA ExitGathers ==
    ASSUME PInv, GInv, Exit
    PROVE  GInv'
  <1>1. PICK command \in {"exit", "exit_status"} : Executes(command)
    BY DEF Exit
  <1>2. /\ UNCHANGED <<script, client, taken, spawned, strings, pipes>>
        /\ executing' = 0 /\ child' = "ended"
    BY DEF Exit
  <1>3. /\ executing \in Nat \ {0} /\ taken = executing
        /\ \A C : RanOf(C)' = RanOf(C) \cup (IF command \in C THEN {executing} ELSE {})
    <2>1. command \in Command \cup {"exit_status"} /\ command # "read"
      BY <1>1 DEF Command
    <2> QED
      BY <1>1, <1>2, <2>1, RanMore
  <1>4. /\ RanOf({"spawn"})' = RanOf({"spawn"}) /\ RanOf(Written)' = RanOf(Written)
        /\ RanOf({"err"})' = RanOf({"err"})
    BY <1>3 DEF Written
  <1>5. Out' = Out /\ Err' = Err /\ output_str' \in Seq(Nat) /\ error_str' \in Seq(Nat)
    BY <1>2 DEF Out, Err, strings, pipes, GInv, OutputGathered
  <1>6. OutputGathered'
    BY <1>2, <1>4, <1>5, OutputKept DEF GInv
  <1>7. StatusIsLast'
    <2>1. \A j \in 1..(taken - 1) : script[j] \notin {"exit", "exit_status"}
      BY <1>3 DEF PInv, Reading, Ending
    <2>2. status = StatusOf(taken - 1) /\ script[taken] = command
      BY <1>1, <1>3 DEF GInv, StatusIsLast, Executes
    <2>3. status' = IF command = "exit" THEN 3 ELSE status
      BY <1>1, <2>2 DEF Exit, Executes
    <2> QED
      BY <1>1, <1>2, <1>3, <2>1, <2>2, <2>3 DEF StatusIsLast, StatusOf
  <1>8. ReadsToEnd'
    BY <1>2 DEF GInv, ReadsToEnd, strings, pipes
  <1> QED
    BY <1>6, <1>7, <1>8 DEF GInv

\* What a step of the client needs to keep.
LEMMA ClientGathers ==
    ASSUME PInv, GInv, UNCHANGED <<script, childVars>>, Out' = Out, Err' = Err,
           output_str' \in Seq(Nat), error_str' \in Seq(Nat), ReadsToEnd'
    PROVE  GInv'
  <1>1. /\ RanOf({"spawn"})' = RanOf({"spawn"}) /\ RanOf(Written)' = RanOf(Written)
        /\ RanOf({"err"})' = RanOf({"err"})
    BY RanKept DEF childVars, Ran
  <1>2. OutputGathered'
    BY <1>1, OutputKept DEF GInv, childVars
  <1>3. StatusIsLast'
    BY DEF GInv, StatusIsLast, StatusOf, childVars
  <1> QED
    BY <1>2, <1>3 DEF GInv

LEMMA ClientWritesOrWaits ==
    ASSUME PInv, GInv, WriteScript \/ BrokenPipe \/ Wait \/ UNCHANGED vars
    PROVE  GInv'
  <1>1. UNCHANGED <<script, childVars, pipes, strings>>
    BY DEF WriteScript, BrokenPipe, Wait, vars
  <1>2. Out' = Out /\ Err' = Err /\ output_str' \in Seq(Nat) /\ error_str' \in Seq(Nat)
    BY <1>1 DEF Out, Err, strings, pipes, GInv, OutputGathered
  <1>3. ReadsToEnd'
    BY <1>1 DEF WriteScript, BrokenPipe, Wait, vars, GInv, ReadsToEnd, childVars, pipes
  <1> QED
    BY <1>1, <1>2, <1>3, ClientGathers

LEMMA ReadOutGathers ==
    ASSUME PInv, GInv, ReadOut
    PROVE  GInv'
  <1>1. /\ client = "read_out" /\ client' \in {"read_out", "read_err"}
        /\ UNCHANGED <<script, sent, childVars, err_pipe, error_str>>
        /\ client' = "read_err" => out_pipe = <<>> /\ EndOfOutput
    BY DEF ReadOut
  <1>2. /\ output_str \in Seq(Nat) /\ error_str \in Seq(Nat) /\ out_pipe \in Seq(Nat)
    BY DEF GInv, OutputGathered, PInv, Shape
  <1>3. Out' = Out /\ output_str' \in Seq(Nat)
    <2>1. CASE /\ out_pipe # <<>> /\ output_str' = Append(output_str, Head(out_pipe))
               /\ out_pipe' = Tail(out_pipe)
      BY <1>2, <2>1, PipeToString DEF Out
    <2>2. CASE UNCHANGED <<output_str, out_pipe>>
      BY <1>2, <2>2 DEF Out
    <2> QED
      BY <2>1, <2>2 DEF ReadOut
  <1>4. Err' = Err /\ error_str' \in Seq(Nat)
    BY <1>1, <1>2 DEF Err
  <1>5. ReadsToEnd'
    <2>1. child' = "ended" /\ spawned' = spawned
      BY <1>1 DEF GInv, ReadsToEnd, childVars
    <2>2. client' = "read_err" => spawned = {} /\ out_pipe' = <<>>
      BY <1>1 DEF ReadOut, EndOfOutput
    <2> QED
      BY <1>1, <2>1, <2>2 DEF ReadsToEnd
  <1> QED
    BY <1>1, <1>3, <1>4, <1>5, ClientGathers

LEMMA ReadErrGathers ==
    ASSUME PInv, GInv, ReadErr
    PROVE  GInv'
  <1>1. /\ client = "read_err" /\ client' \in {"read_err", "returned"}
        /\ UNCHANGED <<script, sent, childVars, out_pipe, output_str>>
    BY DEF ReadErr
  <1>2. /\ output_str \in Seq(Nat) /\ error_str \in Seq(Nat) /\ err_pipe \in Seq(Nat)
    BY DEF GInv, OutputGathered, PInv, Shape
  <1>3. Err' = Err /\ error_str' \in Seq(Nat)
    <2>1. CASE /\ err_pipe # <<>> /\ error_str' = Append(error_str, Head(err_pipe))
               /\ err_pipe' = Tail(err_pipe)
      BY <1>2, <2>1, PipeToString DEF Err
    <2>2. CASE UNCHANGED <<error_str, err_pipe>>
      BY <1>2, <2>2 DEF Err
    <2> QED
      BY <2>1, <2>2 DEF ReadErr
  <1>4. Out' = Out /\ output_str' \in Seq(Nat)
    BY <1>1, <1>2 DEF Out
  <1>5. ReadsToEnd'
    <2>1. child' = "ended" /\ spawned' = {} /\ out_pipe' = <<>>
      BY <1>1 DEF GInv, ReadsToEnd, childVars
    <2>2. client' = "returned" => err_pipe' = <<>>
      BY <1>1 DEF ReadErr
    <2> QED
      BY <1>1, <2>1, <2>2 DEF ReadsToEnd
  <1> QED
    BY <1>1, <1>3, <1>4, <1>5, ClientGathers

LEMMA OutputNext == PInv /\ GInv /\ [Next]_vars => GInv'
  BY ReadCommandGathers, PlainGathers, WriteOutGathers, WriteErrGathers, ReadInputGathers,
     SpawnGathers, ExitGathers, SpawnedWritesGathers, ClientWritesOrWaits, ReadOutGathers,
     ReadErrGathers
  DEF Next, ChildStep, ClientStep

THEOREM OutputInvariance == Spec => []GInv
  BY OutputInit, OutputNext, Invariance, PTL DEF Spec

\* An item that returns gives the client all that its commands and its background
\* processes wrote, once and in their order, and the status of its last command,
\* for items of any length and pipes of any size.
THEOREM ResultsAreComplete == Spec => []ResultComplete
  <1>1. ASSUME PInv, GInv, client = "returned"
        PROVE  /\ {output_str[k] : k \in DOMAIN output_str} = Writing(Written)
               /\ Len(output_str) = Cardinality(Writing(Written))
               /\ InOrderOf(output_str, "out")
               /\ {error_str[k] : k \in DOMAIN error_str} = Writing({"err"})
               /\ Len(error_str) = Cardinality(Writing({"err"}))
               /\ InOrderOf(error_str, "err")
               /\ status = ExpectedStatus
    <2>1. /\ child = "ended" /\ spawned = {} /\ out_pipe = <<>> /\ err_pipe = <<>>
          /\ executing = 0
      BY <1>1 DEF GInv, ReadsToEnd, PInv, Reading
    <2>2. Out = output_str /\ Err = error_str
      BY <1>1, <2>1, PipeToString DEF Out, Err, GInv, OutputGathered
    <2>3. /\ taken \in 1..Last /\ Ran = 1..taken /\ Last \in Nat /\ DOMAIN script = 1..Last
          /\ script[taken] \in {"exit", "exit_status"}
          /\ \A j \in 1..(taken - 1) : script[j] \notin {"exit", "exit_status"}
          /\ status = IF script[taken] = "exit" THEN 3 ELSE StatusOf(taken - 1)
      BY <1>1, <2>1, Places DEF GInv, StatusIsLast, Ran
    <2>4. script[taken] = "exit_status" => taken = Last
      BY <1>1, <2>3 DEF PInv, ScriptEnds, Command
    <2>5. Executed = Ran
      <3>1. ASSUME NEW i \in Executed
            PROVE  i \in Ran
        BY <2>3, <2>4, <3>1 DEF Executed
      <3>2. ASSUME NEW i \in Ran
            PROVE  i \in Executed
        BY <2>3, <3>2 DEF Executed
      <3> QED
        BY <3>1, <3>2
    <2>6. \A C : Writing(C) = RanOf(C)
      BY <2>5 DEF Writing, RanOf
    <2>7. /\ Gathers(output_str, Writing(Written)) /\ InOrderOf(output_str, "out")
          /\ Gathers(error_str, Writing({"err"})) /\ InOrderOf(error_str, "err")
      BY <1>1, <2>1, <2>2, <2>6 DEF GInv, OutputGathered, Written
    <2>8. status = ExpectedStatus
      <3>1. taken \in Executed /\ \A i \in Executed : i <= taken
        BY <2>3, <2>5
      <3>2. (CHOOSE i \in Executed : \A j \in Executed : j <= i) = taken
        <4>1. \A i \in Executed : (\A j \in Executed : j <= i) => i = taken
          BY <2>3, <2>5, <3>1
        <4> QED
          BY <3>1, <4>1
      <3>3. taken - 1 \in DOMAIN script <=> taken > 1
        BY <2>3
      <3> QED
        BY <2>3, <3>2, <3>3 DEF ExpectedStatus, StatusOf
    <2> QED
      BY <2>7, <2>8, GathersLength DEF Gathers
  <1>2. PInv /\ GInv => ResultComplete
    BY <1>1 DEF ResultComplete, Written
  <1> QED
    BY Invariance, OutputInvariance, <1>2, PTL

=============================================================================
