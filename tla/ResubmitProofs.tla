--------------------------- MODULE ResubmitProofs ---------------------------
(***************************************************************************)
(* Proofs about Resubmit for every choice of schedulers, values and        *)
(* bounds: what becomes of an option, and of a directive of the user's     *)
(* script, over a chain of any length.                                     *)
(***************************************************************************)
EXTENDS Resubmit, PickProofs

\* Nothing was given yet before wsub ran.
NothingAsked ==
    status = "start" => job = 0 /\ \A o \in Listed : asked[o] = None

\* The options of a job that was submitted have their values.
NoneBare ==
    status = "submitted" => \A o \in Listed : command[o] # Bare

OInv ==
    /\ job \in Nat
    /\ NothingAsked
    /\ NoneBare
    /\ LastGivenWins
    /\ RefusedFor

USE DEF None, Bare, Negative, FromScript

-----------------------------------------------------------------------------
(* The options.                                                            *)

LEMMA HonouredAreListed ==
    /\ Honoured \subseteq Listed
    /\ PassThrough \subseteq Honoured
    /\ Listed \subseteq Option
    /\ ArrayOption \notin Listed
    /\ PassThrough \cap Resource = {}
    /\ Resource \cap {NameOption, ArrayOption} = {}
  BY DEF Honoured, Listed, Option, PassThrough, Resource, ArrayOption, NameOption, Unlisted, Slurm

LEMMA DestIsInjective ==
    \A o, p \in Option : Dest(o) = Dest(p) => o = p
  BY DEF Option, Listed, PassThrough, Resource, ArrayOption, NameOption, Unlisted, Dest, Slurm

\* No name with underscores is the name of an option.
LEMMA DestInOption ==
    \A o, p \in Option : Dest(p) = o => p = o
  BY DEF Option, Listed, PassThrough, Resource, ArrayOption, NameOption, Unlisted, Dest, Slurm

\* The options whose names change are options of Slurm: some that are merged, and
\* the name of the job.
LEMMA DestOnlySlurm ==
    \A o \in Option : Dest(o) # o => Slurm /\ (o \in Listed \/ o = NameOption)
  BY DEF Option, Listed, PassThrough, Resource, ArrayOption, NameOption, Unlisted, Dest, Slurm

LEMMA ArgIsFunction ==
    ASSUME NEW args \in Arg
    PROVE  args = [o \in Option |-> args[o]]
  BY DEF Arg

LEMMA Filtered ==
    ASSUME NEW args \in Arg, NEW o \in Listed
    PROVE  FilterCommandCl(args)[o] = args[o]
  BY ArgIsFunction, HonouredAreListed DEF FilterCommandCl

\* What Options2Command writes for an option that can be read again, and for one
\* whose name changes.
LEMMA WrittenOption ==
    ASSUME NEW options, NEW o \in Option
    PROVE  /\ Dest(o) \in Spelling
           /\ Options2Command(options)[Dest(o)] = Preprocess(options[o])
           /\ Dest(o) # o => Options2Command(options)[o] = None
  <1>1. Dest(o) \in Spelling /\ o \in Spelling
    BY DEF Spelling
  <1>2. (CHOOSE p \in Option : Dest(p) = Dest(o)) = o
    BY DestIsInjective
  <1>3. Dest(o) # o => ~\E p \in Option : Dest(p) = o
    BY DestInOption
  <1> QED
    BY <1>1, <1>2, <1>3 DEF Options2Command

\* The merge takes the new value of an option where it has one.
LEMMA Merged ==
    ASSUME NEW args \in Arg, NEW prefix, NEW o \in Honoured
    PROVE  MergeOptions(FilterCommandCl(args), command, prefix)[o]
              = IF args[o] # None THEN args[o] ELSE command[o]
  <1>1. o \in Option /\ o \in Listed /\ (o \in PassThrough \/ (~Slurm /\ o \in Resource))
    BY HonouredAreListed DEF Honoured
  <1>2. CASE o \in PassThrough
    <2>1. o \notin Resource
      BY <1>2, HonouredAreListed
    <2>2. MergeOptions(FilterCommandCl(args), command, prefix)[o]
             = Over(FilterCommandCl(args)[o], command[o])
      BY <1>1, <1>2, <2>1 DEF MergeOptions
    <2> QED
      BY <1>1, <2>2, Filtered DEF Over
  <1>3. CASE ~Slurm /\ o \in Resource
    <2>1. o \notin PassThrough /\ o \notin {NameOption, ArrayOption}
      BY <1>3, HonouredAreListed
    <2>2. MergeOptions(FilterCommandCl(args), command, prefix)[o]
             = MergeResource(FilterCommandCl(args)[o], command[o])
      BY <1>1, <1>3, <2>1 DEF MergeOptions
    <2> QED
      BY <1>1, <1>3, <2>2, Filtered DEF Over, MergeResource
  <1> QED
    BY <1>1, <1>2, <1>3

\* A command that the scheduler accepts has the value of the merge.
LEMMA AcceptedKeepsValue ==
    ASSUME NEW args \in Arg, NEW prefix, NEW o \in Option,
           Accepts(ResumeCommand(args, prefix))
    PROVE  LET merged == MergeOptions(FilterCommandCl(args), command, prefix)
           IN /\ ResumeCommand(args, prefix)[o] = merged[o]
              /\ Slurm /\ merged[o] # None => Dest(o) = o /\ merged[o] # Negative
  <1> DEFINE merged == MergeOptions(FilterCommandCl(args), command, prefix)
             cmd == ResumeCommand(args, prefix)
  <1>1. /\ Dest(o) \in Spelling
        /\ cmd[Dest(o)] = Preprocess(merged[o])
        /\ Dest(o) # o => cmd[o] = None
    BY WrittenOption DEF ResumeCommand
  <1>2. DOMAIN cmd = Spelling
    BY DEF ResumeCommand, Options2Command
  <1>3. cmd[Dest(o)] # None => Dest(o) \in Option /\ cmd[Dest(o)] # Bare
    BY <1>1, <1>2 DEF Accepts
  <1>4. Dest(o) \in Option => Dest(o) = o
    BY DestInOption
  <1>5. merged[o] # None => Preprocess(merged[o]) # None
    BY DEF Preprocess
  <1>6. merged[o] # None => Dest(o) = o
    BY <1>1, <1>3, <1>4, <1>5
  <1>7. merged[o] = None => cmd[o] = None
    BY <1>1 DEF Preprocess
  <1>8. merged[o] # None => cmd[o] = merged[o] /\ (Slurm => merged[o] # Negative)
    BY <1>1, <1>3, <1>6 DEF Preprocess
  <1> QED
    BY <1>6, <1>7, <1>8

-----------------------------------------------------------------------------
(* The invariant.                                                          *)

LEMMA OptionsInit == Init => OInv
  BY DEF Init, OInv, NothingAsked, NoneBare, LastGivenWins, RefusedFor

\* A command that fails leaves the options as they were, and no job of its own.
LEMMA FailureKeeps ==
    ASSUME OInv, NEW how, Fails(how), how \notin {"start", "submitted", "exception"}
    PROVE  OInv'
  BY DEF OInv, Fails, NothingAsked, NoneBare, LastGivenWins, RefusedFor, Slurm

LEMMA WsubKeeps ==
    ASSUME OInv, NEW args \in Arg, NEW prefix \in Prefix, Wsub(args, prefix)
    PROVE  OInv'
  <1> DEFINE cmd == AsSpelled(FilterCommandCl(args))
  <1>1. CASE \E how \in {"usage", "scheduler_option_error", "submission_error"} : Fails(how)
    BY <1>1, FailureKeeps
  <1>2. CASE Submitted(cmd, script, prefix)
    <2>1. /\ status = "start" /\ status' = "submitted" /\ job' = 1
          /\ command' = cmd /\ scheduler' = scheduler
      BY <1>2 DEF Wsub, Submitted, OInv, NothingAsked
    <2>2. \A o \in Listed : asked'[o] = args[o]
      BY <2>1 DEF Wsub, Ask, OInv, NothingAsked
    <2>3. \A o \in Listed : cmd[o] = args[o]
      BY HonouredAreListed, Filtered DEF AsSpelled, Spelling
    <2>4. Honoured' = Honoured
      BY <2>1 DEF Honoured, Listed, PassThrough, Resource, Slurm
    <2>5. LastGivenWins'
      BY <2>1, <2>2, <2>3, <2>4, HonouredAreListed DEF LastGivenWins
    <2>6. \A o \in Listed : cmd[o] # Bare
      <3>1. Accepts(cmd)
        BY <2>1 DEF Wsub, Fails
      <3> QED
        BY <3>1, HonouredAreListed DEF Accepts, AsSpelled, Spelling
    <2>7. Listed' = Listed
      BY <2>1 DEF Listed, PassThrough, Resource, Slurm
    <2> QED
      BY <2>1, <2>5, <2>6, <2>7 DEF OInv, NothingAsked, NoneBare, RefusedFor
  <1> QED
    BY <1>1, <1>2 DEF Wsub

\* A job that was resumed has the values of the merge.
LEMMA WresumeSubmits ==
    ASSUME OInv, NEW args \in Arg, NEW prefix \in Prefix, Wresume(args, prefix),
           Accepts(ResumeCommand(args, prefix)),
           Submitted(ResumeCommand(args, prefix), jobscript, prefix)
    PROVE  OInv'
  <1> DEFINE cmd == ResumeCommand(args, prefix)
             merged == MergeOptions(FilterCommandCl(args), command, prefix)
  <1>1. /\ status = "submitted" /\ status' = "submitted" /\ job' = job + 1
        /\ command' = cmd /\ scheduler' = scheduler
    BY DEF Wresume, Submitted
  <1>2. /\ Honoured' = Honoured /\ PassThrough' = PassThrough /\ Slurm' = Slurm
    BY <1>1 DEF Honoured, Listed, PassThrough, Resource, Slurm
  <1>3. ASSUME NEW o \in Honoured
        PROVE  asked'[o] = merged[o]
    <2>1. asked'[o] = IF args[o] # None THEN args[o] ELSE asked[o]
      BY HonouredAreListed DEF Wresume, Ask
    <2>2. asked[o] = command[o]
      BY <1>1 DEF OInv, LastGivenWins
    <2> QED
      BY <2>1, <2>2, Merged
  <1>4. ASSUME NEW o \in Honoured
        PROVE  /\ cmd[o] = merged[o]
               /\ Slurm /\ merged[o] # None => Dest(o) = o /\ merged[o] # Negative
    BY HonouredAreListed, AcceptedKeepsValue
  <1>5. LastGivenWins'
    BY <1>1, <1>2, <1>3, <1>4 DEF LastGivenWins
  <1>6. RefusedFor'
    BY <1>1 DEF RefusedFor
  <1>7. \A o \in Listed : cmd[o] # Bare
    BY HonouredAreListed DEF Accepts, ResumeCommand, Options2Command, Spelling
  <1>8. Listed' = Listed
    BY <1>1 DEF Listed, PassThrough, Resource, Slurm
  <1> QED
    BY <1>1, <1>5, <1>6, <1>7, <1>8 DEF OInv, NothingAsked, NoneBare

\* What the scheduler refuses: an option that cannot be read again, which the
\* user gave at some time.
LEMMA RefusedHasReason ==
    ASSUME OInv, NEW args \in Arg, NEW prefix \in Prefix, Wresume(args, prefix),
           Verified(args, Relevant \cup Listed),
           ~Accepts(ResumeCommand(args, prefix))
    PROVE  Slurm /\ (Named \/ \E o \in Listed : asked'[o] # None /\ (Dest(o) # o \/ asked'[o] = Negative))
  <1> DEFINE merged == MergeOptions(FilterCommandCl(args), command, prefix)
             cmd == ResumeCommand(args, prefix)
  <1>1. PICK s \in Spelling : cmd[s] # None /\ (s \notin Option \/ cmd[s] = Bare)
    BY DEF Accepts, ResumeCommand, Options2Command
  <1>2. PICK o \in Option : Dest(o) = s
    BY <1>1 DEF ResumeCommand, Options2Command
  <1>3. cmd[s] = Preprocess(merged[o])
    BY <1>2, WrittenOption DEF ResumeCommand
  <1>4. merged[o] # None
    BY <1>1, <1>3 DEF Preprocess
  <1>5. o \in Listed => args[o] # Bare /\ command[o] # Bare
    BY DEF Verified, OInv, NoneBare, Wresume
  <1>6. CASE o \in Honoured
    <2>1. merged[o] = IF args[o] # None THEN args[o] ELSE command[o]
      BY <1>6, Merged
    <2>2. o \in Listed
      BY <1>6, HonouredAreListed
    <2>3. asked'[o] = merged[o]
      BY <1>6, <2>1, <2>2 DEF Wresume, Ask, OInv, LastGivenWins
    <2>4. merged[o] # Bare
      BY <1>5, <2>1, <2>2
    <2>5. CASE s \notin Option
      BY <1>2, <1>4, <2>2, <2>3, <2>5, DestOnlySlurm
    <2>6. CASE cmd[s] = Bare
      BY <1>3, <1>4, <2>2, <2>3, <2>4, <2>6 DEF Preprocess
    <2> QED
      BY <1>1, <2>5, <2>6
  <1>7. CASE Slurm /\ o \in Resource
    <2>1. o \notin PassThrough /\ o \in Listed
      BY <1>7, HonouredAreListed DEF Listed
    <2>2. merged[o] = args[o]
      BY <1>7, <2>1, Filtered, HonouredAreListed DEF MergeOptions, MergeResource
    <2>3. asked'[o] = merged[o]
      BY <1>4, <2>1, <2>2 DEF Wresume, Ask
    <2>4. CASE s \notin Option
      BY <1>2, <1>4, <1>7, <2>1, <2>3, <2>4
    <2>5. CASE cmd[s] = Bare
      BY <1>3, <1>5, <1>7, <2>1, <2>2, <2>3, <2>5 DEF Preprocess
    <2> QED
      BY <1>1, <2>4, <2>5
  <1>8. CASE o \notin Listed
    <2>1. merged[o] = FromScript
      BY <1>4, <1>8 DEF MergeOptions, FromDirectives, Listed
    <2>2. cmd[s] = FromScript
      BY <1>3, <2>1 DEF Preprocess
    <2>3. Slurm /\ o = NameOption
      BY <1>1, <1>2, <1>8, <2>2, DestOnlySlurm
    <2>4. prefix = DefaultPrefix
      BY <2>3 DEF Prefix
    <2>5. merged[o] = FromDirectives(o, jobscript.lines, prefix)
      BY <1>8, <2>3, HonouredAreListed DEF MergeOptions, Listed
    <2> QED
      BY <1>4, <2>3, <2>4, <2>5 DEF Named
  <1> QED
    BY <1>6, <1>7, <1>8 DEF Honoured, Listed

LEMMA WresumeKeeps ==
    ASSUME OInv, NEW args \in Arg, NEW prefix \in Prefix, Wresume(args, prefix)
    PROVE  OInv'
  <1>1. CASE Fails("usage")
    BY <1>1, FailureKeeps
  <1>2. CASE /\ Verified(args, Relevant \cup Listed)
             /\ ~Accepts(ResumeCommand(args, prefix))
             /\ Fails("exception")
    <2>1. Slurm /\ (Named \/ \E o \in Listed : asked'[o] # None /\ (Dest(o) # o \/ asked'[o] = Negative))
      BY <1>2, RefusedHasReason
    <2>2. Slurm' = Slurm /\ Listed' = Listed /\ Named' = Named /\ status' = "exception"
      BY <1>2 DEF Fails, Slurm, Listed, PassThrough, Resource, Named, NameOption, DefaultPrefix
    <2>3. RefusedFor'
      BY <2>1, <2>2 DEF RefusedFor, Unresumable
    <2> QED
      BY <1>2, <2>3 DEF OInv, Fails, NothingAsked, NoneBare, LastGivenWins
  <1>3. CASE /\ Accepts(ResumeCommand(args, prefix))
             /\ Submitted(ResumeCommand(args, prefix), jobscript, prefix)
    BY <1>3, WresumeSubmits
  <1> QED
    BY <1>1, <1>2, <1>3 DEF Wresume

LEMMA OptionsNext == OInv /\ [Next]_vars => OInv'
  <1> SUFFICES ASSUME OInv, [Next]_vars
               PROVE  OInv'
    OBVIOUS
  <1>1. CASE WsubFails \/ WresumeFails
    BY <1>1, FailureKeeps DEF WsubFails, WresumeFails
  <1>2. ASSUME NEW args \in Arg, NEW prefix \in Prefix, Wsub(args, prefix)
        PROVE  OInv'
    BY <1>2, WsubKeeps
  <1>3. ASSUME NEW args \in Arg, NEW prefix \in Prefix, Wresume(args, prefix)
        PROVE  OInv'
    BY <1>3, WresumeKeeps
  <1>4. CASE UNCHANGED vars
    <2>1. Listed' = Listed /\ PassThrough' = PassThrough /\ Honoured' = Honoured /\ Slurm' = Slurm
      BY <1>4 DEF vars, Listed, PassThrough, Resource, Honoured, Slurm
    <2>2. Named' = Named
      BY <1>4 DEF vars, Named, NameOption, DefaultPrefix, Slurm
    <2> QED
      BY <1>4, <2>1, <2>2 DEF vars, OInv, NothingAsked, NoneBare, LastGivenWins, RefusedFor, Unresumable
  <1> QED
    BY <1>1, <1>2, <1>3, <1>4 DEF Next

THEOREM OptionsInvariance == Spec => []OInv
  BY OptionsInit, OptionsNext, PTL DEF Spec

\* In a chain of any length the value given last for an option counts, for all
\* options that are passed through and for the resources of PBS torque.
THEOREM LastGivenAlwaysWins == Spec => []LastGivenWins
  <1>1. OInv => LastGivenWins
    BY DEF OInv
  <1> QED
    BY OptionsInvariance, <1>1, PTL

\* No resumption is refused but that of a Slurm job with an option that cannot be
\* read again: one whose name changes, one with a negative value, or -J.
THEOREM RefusedForAReason == Spec => []RefusedFor
  <1>1. OInv => RefusedFor
    BY DEF OInv
  <1> QED
    BY OptionsInvariance, <1>1, PTL

-----------------------------------------------------------------------------
(* The lines of a job script.                                              *)

\* A line of a script that is submitted.
JobLine == {Code} \cup [prefix : Prefix, option : UserOption \cup {"hetjob", "one_task"}]

\* What _parse_script returns: no line is code.
CodeFree(lines) == \A k \in DOMAIN lines : lines[k] # Code

\* A script that was made from directives: its only code is its last line.
EndsInCode(lines) ==
    /\ lines \in Seq(JobLine)
    /\ Len(lines) # 0
    /\ lines[Len(lines)] = Code
    /\ \A k \in 1..(Len(lines) - 1) : lines[k] # Code

LEMMA OptionNames ==
    /\ UserOption \cap {"hetjob", "one_task", "code"} = {}
    /\ NameOption # "nodes" /\ ArrayOption # "nodes"
  BY DEF UserOption, NameOption, ArrayOption

LEMMA CodeOption == Code.option = "code"
  BY DEF Code

LEMMA LineKinds ==
    /\ Code \in JobLine /\ Line \subseteq JobLine
    /\ DefaultPrefix \in Prefix
    /\ Generated("hetjob") \in JobLine /\ Generated("one_task") \in JobLine
    /\ \A l \in JobLine : l # Code => l.prefix \in Prefix
    /\ \A l \in Line : l # Code => l.option \in UserOption
    /\ \A l \in JobLine : l # Code => l.option \in UserOption \cup {"hetjob", "one_task"}
  <1>1. DefaultPrefix \in Prefix
    BY DEF Prefix
  <1>2. Generated("hetjob").prefix = DefaultPrefix /\ Generated("one_task").prefix = DefaultPrefix
    BY DEF Generated
  <1> QED
    BY <1>1, <1>2 DEF JobLine, Line, UserOption, Generated

\* There is a first line of code, or none.
LEMMA HeaderAt ==
    ASSUME NEW S, NEW lines \in Seq(S)
    PROVE  /\ Header(lines) \in Seq(S) /\ CodeFree(Header(lines))
           /\ Len(Header(lines)) <= Len(lines)
           /\ \A k \in DOMAIN Header(lines) : k \in DOMAIN lines /\ Header(lines)[k] = lines[k]
           /\ Len(Header(lines)) = Len(lines) \/ lines[Len(Header(lines)) + 1] = Code
  <1> DEFINE First(n) == /\ \A k \in 1..n : lines[k] # Code
                         /\ n = Len(lines) \/ lines[n + 1] = Code
             c == CHOOSE n \in 0..Len(lines) : First(n)
  <1>1. Len(lines) \in Nat /\ DOMAIN lines = 1..Len(lines)
    BY LenProperties
  <1>2. \E n \in 0..Len(lines) : First(n)
    <2> DEFINE T == {k \in 1..Len(lines) : lines[k] = Code}
    <2>1. CASE T = {}
      <3>1. Len(lines) \in 0..Len(lines) /\ First(Len(lines))
        BY <1>1, <2>1
      <3> QED
        BY <3>1
    <2>2. CASE T # {}
      <3>1. T \subseteq Nat
        OBVIOUS
      <3>2. PICK m \in T : \A k \in T : m <= k
        BY <2>2, <3>1, LeastNumber
      <3>3. m - 1 \in 0..Len(lines) /\ (m - 1) + 1 = m
        BY <1>1
      <3>4. \A k \in 1..(m - 1) : lines[k] # Code
        BY <1>1, <3>2
      <3>5. First(m - 1)
        BY <3>2, <3>3, <3>4
      <3> QED
        BY <3>3, <3>5
    <2> QED
      BY <2>1, <2>2
  <1>3. c \in 0..Len(lines) /\ First(c)
    <2> HIDE DEF First
    <2> QED
      BY <1>2
  <1>4. Header(lines) = SubSeq(lines, 1, c)
    BY DEF Header
  <1> HIDE DEF c
  <1>5. c \in Nat /\ c <= Len(lines)
    <2> HIDE DEF First
    <2> QED
      BY <1>1, <1>3
  <1>6. \A k \in 1..c : k \in DOMAIN lines /\ lines[k] \in S
    BY <1>1, <1>5
  <1>7. Header(lines) = [k \in 1..c |-> lines[k]]
    BY <1>4, <1>5
  <1>8. Header(lines) \in Seq(S) /\ Len(Header(lines)) = c /\ DOMAIN Header(lines) = 1..c
    BY <1>5, <1>6, <1>7
  <1> QED
    BY <1>1, <1>3, <1>5, <1>6, <1>7, <1>8 DEF CodeFree

\* The directives that are found are lines of the script, none of them code.
LEMMA DirectivesAt ==
    ASSUME NEW S, NEW lines \in Seq(S), NEW p
    PROVE  LET d == Directives(lines, p)
           IN /\ d \in Seq(S) /\ CodeFree(d)
              /\ \A k \in DOMAIN d : d[k].prefix = p
              /\ \A k \in DOMAIN d : \E i \in DOMAIN lines : d[k] = lines[i]
  <1> DEFINE h == Header(lines)
             I == {k \in DOMAIN h : h[k].prefix = p}
             d == Picked(h, I)
  <1>1. /\ h \in Seq(S) /\ CodeFree(h)
        /\ \A k \in DOMAIN h : k \in DOMAIN lines /\ h[k] = lines[k]
    BY HeaderAt
  <1>2. Directives(lines, p) = d
    BY DEF Directives
  <1> HIDE DEF h
  <1>3. d \in Seq(S)
    BY <1>1, PickedAt
  <1>4. \A k \in DOMAIN d : \E i \in I : d[k] = h[i]
    <2>1. {d[k] : k \in DOMAIN d} = {h[i] : i \in I \cap DOMAIN h}
      BY <1>1, PickedElements
    <2> HIDE DEF d
    <2> QED
      BY <2>1
  <1> HIDE DEF d
  <1> QED
    BY <1>1, <1>2, <1>3, <1>4 DEF CodeFree

-----------------------------------------------------------------------------
(* Types.                                                                  *)

LEMMA PickedType ==
    ASSUME NEW S, NEW s \in Seq(S)
    PROVE  OtherLines(s) \in Seq(S) /\ ResourceLines(s) \in Seq(S)
  BY PickedAt DEF OtherLines, ResourceLines

LEMMA GeneratedType ==
    <<Generated("hetjob"), Generated("one_task")>> \in Seq(JobLine) /\ <<Code>> \in Seq(JobLine)
  <1>1. Generated("hetjob") \in JobLine /\ Generated("one_task") \in JobLine /\ Code \in JobLine
    BY LineKinds
  <1> HIDE DEF Code
  <1> QED
    BY <1>1

LEMMA ParseScriptType ==
    ASSUME NEW lines \in Seq(JobLine), NEW p
    PROVE  ParseScript(lines, p) \in Seq(JobLine)
  <1>1. Directives(lines, p) \in Seq(JobLine)
    BY DirectivesAt
  <1>2. /\ OtherLines(Directives(lines, p)) \in Seq(JobLine)
        /\ ResourceLines(Directives(lines, p)) \in Seq(JobLine)
    BY <1>1, PickedType
  <1>3. OtherLines(Directives(lines, p)) \o ResourceLines(Directives(lines, p)) \in Seq(JobLine)
    BY <1>2, ConcatProperties
  <1> QED
    BY <1>1, <1>3, GeneratedType, ConcatProperties DEF ParseScript

LEMMA CreateJobscriptType ==
    ASSUME NEW s, s.lines \in Seq(JobLine), s.shebang \in BOOLEAN, NEW p
    PROVE  LET made == CreateJobscript(s, p)
           IN /\ made.shebang = s.shebang
              /\ made.lines \in Seq(JobLine)
              /\ s.shebang => made.lines = ParseScript(s.lines, p) \o <<Code>>
  <1> DEFINE before == IF s.shebang THEN <<>> ELSE <<Code>>
             parsed == ParseScript(s.lines, p)
  <1>1. /\ CreateJobscript(s, p).shebang = s.shebang
        /\ CreateJobscript(s, p).lines = before \o parsed \o <<Code>>
    BY DEF CreateJobscript
  <1>2. before \in Seq(JobLine) /\ parsed \in Seq(JobLine)
    BY GeneratedType, ParseScriptType
  <1> HIDE DEF parsed
  <1>3. before \o parsed \in Seq(JobLine)
    BY <1>2, ConcatProperties
  <1>4. before \o parsed \o <<Code>> \in Seq(JobLine)
    BY <1>3, GeneratedType, ConcatProperties
  <1>5. s.shebang => before \o parsed = parsed
    BY <1>2, ConcatEmptySeq
  <1> QED
    BY <1>1, <1>4, <1>5 DEF parsed

LEMMA CreateJobscriptLines ==
    ASSUME NEW s, s.lines \in Seq(JobLine), s.shebang \in BOOLEAN, s.shebang, NEW p
    PROVE  /\ CreateJobscript(s, p).shebang
           /\ CreateJobscript(s, p).lines = ParseScript(s.lines, p) \o <<Code>>
  BY CreateJobscriptType

\* The value of an option in a command.
Value == Given \cup {None, FromScript}

LEMMA ArgValues ==
    ASSUME NEW args \in Arg, NEW o \in Option
    PROVE  args[o] \in Given \cup {None} /\ FilterCommandCl(args)[o] \in Given \cup {None}
  <1>1. args[o] \in Given \cup {None}
    BY DEF Arg
  <1>2. FilterCommandCl(args)[o] \in {args[o], None}
    BY ArgIsFunction DEF FilterCommandCl
  <1> QED
    BY <1>1, <1>2

LEMMA CommandTypes ==
    ASSUME NEW args \in Arg, NEW p, command \in [Spelling -> Value]
    PROVE  /\ AsSpelled(FilterCommandCl(args)) \in [Spelling -> Value]
           /\ ResumeCommand(args, p) \in [Spelling -> Value]
  <1> DEFINE merged == MergeOptions(FilterCommandCl(args), command, p)
  <1>1. AsSpelled(FilterCommandCl(args)) \in [Spelling -> Value]
    BY ArgValues DEF AsSpelled, Value
  <1>2. \A o \in Option : merged[o] \in Value
    <2> SUFFICES ASSUME NEW o \in Option
                 PROVE  merged[o] \in Value
      OBVIOUS
    <2>1. FilterCommandCl(args)[o] \in Value /\ command[o] \in Value
      BY ArgValues DEF Value, Spelling
    <2>2. FromDirectives(o, jobscript.lines, p) \in Value
      BY DEF FromDirectives, Value
    <2> QED
      BY <2>1, <2>2 DEF MergeOptions, Over, MergeResource, Value
  <1>3. \A v \in Value : Preprocess(v) \in Value
    BY DEF Preprocess, Value, Given
  <1> HIDE DEF merged
  <1>4. Options2Command(merged) \in [Spelling -> Value]
    <2>1. \A s \in Spelling : Options2Command(merged)[s] \in Value
      <3> SUFFICES ASSUME NEW s \in Spelling
                   PROVE  Options2Command(merged)[s] \in Value
        OBVIOUS
      <3>1. CASE \E o \in Option : Dest(o) = s
        <4>1. (CHOOSE o \in Option : Dest(o) = s) \in Option
          BY <3>1
        <4> QED
          BY <1>2, <1>3, <3>1, <4>1 DEF Options2Command
      <3>2. CASE ~\E o \in Option : Dest(o) = s
        BY <3>2 DEF Options2Command, Value
      <3> QED
        BY <3>1, <3>2
    <2> QED
      BY <2>1 DEF Options2Command
  <1> QED
    BY <1>1, <1>4 DEF ResumeCommand, merged

\* All that depends on the scheduler, which stays.
LEMMA SameScheduler ==
    ASSUME scheduler' = scheduler
    PROVE  /\ Slurm' = Slurm /\ Prefix' = Prefix /\ Listed' = Listed /\ Spelling' = Spelling
           /\ UserOption' = UserOption /\ JobLine' = JobLine /\ Line' = Line
  <1>1. /\ Slurm' = Slurm /\ Listed' = Listed
        /\ NameOption' = NameOption /\ ArrayOption' = ArrayOption /\ Unlisted' = Unlisted
        /\ DefaultPrefix' = DefaultPrefix
    BY DEF Slurm, Listed, PassThrough, Resource, NameOption, ArrayOption, Unlisted, DefaultPrefix
  <1>2. Prefix' = Prefix /\ UserOption' = UserOption /\ Option' = Option
    BY <1>1 DEF Prefix, UserOption, Option
  <1>3. Spelling' = Spelling /\ JobLine' = JobLine /\ Line' = Line
    BY <1>1, <1>2 DEF Spelling, Dest, JobLine, Line
  <1> QED
    BY <1>1, <1>2, <1>3

\* TypeOK by the names that the proofs use.
JobTypes ==
    /\ scheduler \in Schedulers
    /\ script.shebang \in BOOLEAN /\ script.lines \in Seq(Line)
    /\ script = [shebang |-> script.shebang, lines |-> script.lines]
    /\ status \in Error \cup {"start", "submitted", "usage", "exception"}
    /\ job \in 0..MaxJobs
    /\ command \in [Spelling -> Value]
    /\ jobscript.shebang \in BOOLEAN /\ jobscript.lines \in Seq(JobLine)
    /\ asked \in [Listed -> Given \cup {None}]
    /\ prefixes \subseteq Prefix

LEMMA JobTypesAreTypes == JobTypes => TypeOK
  <1> SUFFICES ASSUME JobTypes
               PROVE  TypeOK
    OBVIOUS
  <1>1. script \in [shebang : BOOLEAN, lines : Seq(Line)]
    BY DEF JobTypes
  <1> QED
    BY <1>1 DEF JobTypes, TypeOK, JobLine, Value

LEMMA TypesInit == Init => JobTypes
  <1> SUFFICES ASSUME Init
               PROVE  JobTypes
    OBVIOUS
  <1>1. MaxJobs \in Nat /\ MaxLines \in Nat
    BY ResubmitAssumption
  <1>2. script.shebang \in BOOLEAN /\ script.lines \in Seq(Line)
        /\ script = [shebang |-> script.shebang, lines |-> script.lines]
    <2>1. script \in [shebang : BOOLEAN, lines : UNION {[1..n -> Line] : n \in 0..MaxLines}]
      BY DEF Init
    <2>2. script.lines \in UNION {[1..n -> Line] : n \in 0..MaxLines}
      BY <2>1
    <2>3. PICK n \in 0..MaxLines : script.lines \in [1..n -> Line]
      BY <2>2
    <2> QED
      BY <1>1, <2>1, <2>3
  <1>3. jobscript.shebang \in BOOLEAN /\ jobscript.lines = <<>> /\ jobscript.lines \in Seq(JobLine)
    BY DEF Init
  <1>4. command \in [Spelling -> Value]
    BY DEF Init, Value
  <1> QED
    BY <1>1, <1>2, <1>3, <1>4 DEF Init, JobTypes

LEMMA SomeJob == MaxJobs \in Nat /\ MaxJobs # 0
  BY ResubmitAssumption

\* What any command does to what the user gave.
LEMMA AskTypes ==
    ASSUME JobTypes, NEW args \in Arg, NEW prefix \in Prefix, Ask(args, prefix)
    PROVE  asked' \in [Listed -> Given \cup {None}] /\ prefixes' \subseteq Prefix
  BY ArgValues, HonouredAreListed DEF Ask, JobTypes

LEMMA FailureTypes ==
    ASSUME JobTypes, asked' \in [Listed -> Given \cup {None}], prefixes' \subseteq Prefix,
           NEW how, Fails(how), how \in Error \cup {"usage", "exception"}
    PROVE  JobTypes'
  <1>1. /\ scheduler' = scheduler /\ UNCHANGED <<script, job, command, jobscript>> /\ status' = how
    BY DEF Fails
  <1>2. Error' = Error /\ Given' = Given /\ Value' = Value
    BY DEF Error, Given, Value
  <1> QED
    BY <1>1, <1>2, SameScheduler DEF JobTypes

LEMMA SubmittedTypes ==
    ASSUME JobTypes, asked' \in [Listed -> Given \cup {None}], prefixes' \subseteq Prefix,
           NEW cmd \in [Spelling -> Value], NEW s, s.lines \in Seq(JobLine), s.shebang \in BOOLEAN,
           NEW prefix \in Prefix, job < MaxJobs, Submitted(cmd, s, prefix)
    PROVE  JobTypes'
  <1>1. /\ scheduler' = scheduler /\ script' = script /\ command' = cmd /\ job' = job + 1
        /\ status' = "submitted" /\ jobscript' = CreateJobscript(s, prefix)
    BY DEF Submitted
  <1>2. jobscript'.shebang \in BOOLEAN /\ jobscript'.lines \in Seq(JobLine)
    BY <1>1, CreateJobscriptType
  <1>3. job' \in 0..MaxJobs
    <2>1. job \in 0..MaxJobs /\ job < MaxJobs
      BY DEF JobTypes
    <2> QED
      BY <1>1, <2>1, SomeJob
  <1> QED
    BY <1>1, <1>2, <1>3, SameScheduler DEF JobTypes, Error, Given, Value

LEMMA ScriptIsJobScript ==
    ASSUME JobTypes
    PROVE  script.lines \in Seq(JobLine)
  <1>1. Line \subseteq JobLine /\ script.lines \in Seq(Line)
    BY LineKinds DEF JobTypes
  <1> HIDE DEF Line, JobLine
  <1> QED
    BY <1>1

LEMMA TypesNext == JobTypes /\ OInv /\ [Next]_vars => JobTypes'
  <1> SUFFICES ASSUME JobTypes, OInv, [Next]_vars
               PROVE  JobTypes'
    OBVIOUS
  <1>1. CASE WsubFails \/ WresumeFails
    <2>1. asked' \in [Listed -> Given \cup {None}] /\ prefixes' \subseteq Prefix
      BY <1>1 DEF WsubFails, WresumeFails, JobTypes
    <2> QED
      BY <1>1, <2>1, FailureTypes DEF WsubFails, WresumeFails, Error
  <1>2. ASSUME NEW args \in Arg, NEW prefix \in Prefix, Wsub(args, prefix)
        PROVE  JobTypes'
    <2> DEFINE cmd == AsSpelled(FilterCommandCl(args))
    <2>1. asked' \in [Listed -> Given \cup {None}] /\ prefixes' \subseteq Prefix
      BY <1>2, AskTypes DEF Wsub
    <2>2. CASE \E how \in {"usage", "scheduler_option_error", "submission_error"} : Fails(how)
      BY <2>1, <2>2, FailureTypes DEF Error
    <2>3. CASE Submitted(cmd, script, prefix)
      <3>1. job < MaxJobs
        <4>1. job = 0
          BY <1>2 DEF Wsub, OInv, NothingAsked
        <4> QED
          BY <4>1, SomeJob
      <3>2. cmd \in [Spelling -> Value]
        BY CommandTypes DEF JobTypes
      <3>3. script.lines \in Seq(JobLine) /\ script.shebang \in BOOLEAN
        BY ScriptIsJobScript DEF JobTypes
      <3> QED
        BY <2>1, <2>3, <3>1, <3>2, <3>3, SubmittedTypes
    <2> QED
      BY <1>2, <2>2, <2>3 DEF Wsub
  <1>3. ASSUME NEW args \in Arg, NEW prefix \in Prefix, Wresume(args, prefix)
        PROVE  JobTypes'
    <2> DEFINE cmd == ResumeCommand(args, prefix)
    <2>1. asked' \in [Listed -> Given \cup {None}] /\ prefixes' \subseteq Prefix
      BY <1>3, AskTypes DEF Wresume
    <2>2. CASE \E how \in {"usage", "exception"} : Fails(how)
      BY <2>1, <2>2, FailureTypes
    <2>3. CASE Submitted(cmd, jobscript, prefix)
      <3>1. job < MaxJobs
        BY <1>3 DEF Wresume
      <3>2. cmd \in [Spelling -> Value]
        BY CommandTypes DEF JobTypes
      <3>3. jobscript.lines \in Seq(JobLine) /\ jobscript.shebang \in BOOLEAN
        BY DEF JobTypes
      <3> QED
        BY <2>1, <2>3, <3>1, <3>2, <3>3, SubmittedTypes
    <2> QED
      BY <1>3, <2>2, <2>3 DEF Wresume
  <1>4. CASE UNCHANGED vars
    <2>1. UNCHANGED <<scheduler, script, status, job, command, jobscript, asked, prefixes>>
      BY <1>4 DEF vars
    <2> QED
      BY <2>1, SameScheduler DEF JobTypes, Error, Given, Value
  <1> QED
    BY <1>1, <1>2, <1>3, <1>4 DEF Next

THEOREM TypesInvariance == Spec => []JobTypes
  BY TypesInit, TypesNext, OptionsInvariance, PTL DEF Spec

\* The types of all variables, for any number of jobs and lines.
THEOREM TypesHold == Spec => []TypeOK
  BY TypesInvariance, JobTypesAreTypes, PTL

-----------------------------------------------------------------------------
(* Counting the lines of an option.                                        *)

LEMMA CountPick ==
    ASSUME NEW S, NEW s \in Seq(S), NEW I, NEW o
    PROVE  CountOf(Picked(s, I), o) = Cardinality({i \in I \cap DOMAIN s : s[i].option = o})
  <1> DEFINE t == Picked(s, I)
  <1>0. PICK B : B = {x \in S : x.option = o}
    OBVIOUS
  <1>1. CountIn(t, B) = CountAt(s, I, B)
    BY PickedCount
  <1>2. t \in Seq(S)
    BY PickedAt
  <1> HIDE DEF t
  <1>3. {k \in DOMAIN t : t[k] \in B} = {k \in DOMAIN t : t[k].option = o}
    BY <1>0, <1>2
  <1>4. {i \in I \cap DOMAIN s : s[i] \in B} = {i \in I \cap DOMAIN s : s[i].option = o}
    BY <1>0
  <1> QED
    BY <1>1, <1>3, <1>4 DEF CountOf, CountIn, CountAt, t

LEMMA CountJoined ==
    ASSUME NEW S, NEW s \in Seq(S), NEW t \in Seq(S), NEW o
    PROVE  /\ CountOf(s, o) \in Nat /\ CountOf(t, o) \in Nat
           /\ CountOf(s \o t, o) = CountOf(s, o) + CountOf(t, o)
  <1>0. PICK B : B = {x \in S : x.option = o}
    OBVIOUS
  <1>1. /\ CountIn(s, B) \in Nat /\ CountIn(t, B) \in Nat
        /\ CountIn(s \o t, B) = CountIn(s, B) + CountIn(t, B)
    BY CountConcat
  <1>2. \A q \in Seq(S) : CountIn(q, B) = CountOf(q, o)
    <2> SUFFICES ASSUME NEW q \in Seq(S)
                 PROVE  CountIn(q, B) = CountOf(q, o)
      OBVIOUS
    <2>1. {k \in DOMAIN q : q[k] \in B} = {k \in DOMAIN q : q[k].option = o}
      BY <1>0
    <2> QED
      BY <2>1 DEF CountOf, CountIn
  <1>3. s \o t \in Seq(S)
    BY ConcatProperties
  <1> QED
    BY <1>1, <1>2, <1>3

\* Resources and the others, by option.
LEMMA CountKinds ==
    ASSUME NEW S, NEW s \in Seq(S), NEW o
    PROVE  IF o \in {"nodes", "one_task"}
           THEN CountOf(ResourceLines(s), o) = CountOf(s, o) /\ CountOf(OtherLines(s), o) = 0
           ELSE CountOf(OtherLines(s), o) = CountOf(s, o) /\ CountOf(ResourceLines(s), o) = 0
  <1> DEFINE R == {k \in DOMAIN s : IsResource(s[k])}
             O == {k \in DOMAIN s : ~IsResource(s[k])}
             K == {k \in DOMAIN s : s[k].option = o}
  <1>1. CountOf(ResourceLines(s), o) = Cardinality({k \in R \cap DOMAIN s : s[k].option = o})
    BY CountPick DEF ResourceLines
  <1>2. CountOf(OtherLines(s), o) = Cardinality({k \in O \cap DOMAIN s : s[k].option = o})
    BY CountPick DEF OtherLines
  <1>3. CASE o \in {"nodes", "one_task"}
    <2>1. {k \in R \cap DOMAIN s : s[k].option = o} = K
      BY <1>3 DEF IsResource
    <2>2. {k \in O \cap DOMAIN s : s[k].option = o} = {}
      BY <1>3 DEF IsResource
    <2> QED
      BY <1>1, <1>2, <1>3, <2>1, <2>2, FS_EmptySet DEF CountOf
  <1>4. CASE o \notin {"nodes", "one_task"}
    <2>1. {k \in O \cap DOMAIN s : s[k].option = o} = K
      BY <1>4 DEF IsResource
    <2>2. {k \in R \cap DOMAIN s : s[k].option = o} = {}
      BY <1>4 DEF IsResource
    <2> QED
      BY <1>1, <1>2, <1>4, <2>1, <2>2, FS_EmptySet DEF CountOf
  <1> QED
    BY <1>3, <1>4

LEMMA CountGenerated ==
    ASSUME NEW o
    PROVE  /\ o \in UserOption =>
                 CountOf(<<Generated("hetjob"), Generated("one_task")>>, o) = 0
           /\ CountOf(<<Generated("hetjob"), Generated("one_task")>>, "hetjob") = 1
           /\ o # "code" => CountOf(<<Code>>, o) = 0
  <1> DEFINE g == <<Generated("hetjob"), Generated("one_task")>>
  <1>1. /\ DOMAIN g = {1, 2} /\ g[1].option = "hetjob" /\ g[2].option = "one_task"
    BY DEF Generated
  <1>2. DOMAIN <<Code>> = {1} /\ <<Code>>[1].option = "code"
    BY CodeOption
  <1> HIDE DEF g
  <1>3. ASSUME o \in UserOption
        PROVE  CountOf(g, o) = 0
    <2>1. {k \in DOMAIN g : g[k].option = o} = {}
      BY <1>1, <1>3, OptionNames
    <2> QED
      BY <2>1, FS_EmptySet DEF CountOf
  <1>4. CountOf(g, "hetjob") = 1
    <2>1. {k \in DOMAIN g : g[k].option = "hetjob"} = {1}
      BY <1>1
    <2> QED
      BY <2>1, FS_Singleton DEF CountOf
  <1>5. ASSUME o # "code"
        PROVE  CountOf(<<Code>>, o) = 0
    <2>1. {k \in DOMAIN <<Code>> : <<Code>>[k].option = o} = {}
      BY <1>2, <1>5
    <2> QED
      BY <2>1, FS_EmptySet DEF CountOf
  <1> QED
    BY <1>3, <1>4, <1>5 DEF g

\* The lines of an option in a new script are those of the directives that were
\* found, and for Slurm one hetjob more.
LEMMA CountMade ==
    ASSUME NEW lines \in Seq(JobLine), NEW p, NEW o \in UserOption \cup {"hetjob"}
    PROVE  /\ CountOf(Directives(lines, p), o) \in Nat
           /\ CountOf(ParseScript(lines, p) \o <<Code>>, o) =
                 CountOf(Directives(lines, p), o) + IF Slurm /\ o = "hetjob" THEN 1 ELSE 0
  <1> DEFINE d == Directives(lines, p)
             a == OtherLines(d)
             b == ResourceLines(d)
             g == <<Generated("hetjob"), Generated("one_task")>>
  <1>1. d \in Seq(JobLine)
    BY DirectivesAt
  <1>2. a \in Seq(JobLine) /\ b \in Seq(JobLine)
    BY <1>1, PickedType
  <1>3. g \in Seq(JobLine) /\ <<Code>> \in Seq(JobLine)
    BY GeneratedType
  <1>4. ParseScript(lines, p) = IF Slurm THEN a \o b \o g ELSE d
    BY DEF ParseScript
  <1>5. /\ CountOf(<<Code>>, o) = 0
        /\ CountOf(g, o) = IF o = "hetjob" THEN 1 ELSE 0
    BY CountGenerated, OptionNames
  <1> HIDE DEF d, a, b, g
  <1>6. /\ CountOf(d, o) \in Nat /\ CountOf(a, o) \in Nat /\ CountOf(b, o) \in Nat
        /\ a \o b \in Seq(JobLine)
        /\ CountOf(a \o b, o) = CountOf(a, o) + CountOf(b, o)
    BY <1>1, <1>2, CountJoined, ConcatProperties
  <1>7. CountOf(a, o) + CountOf(b, o) = CountOf(d, o)
    <2>1. CASE o \in {"nodes", "one_task"}
      <3>1. CountOf(b, o) = CountOf(d, o) /\ CountOf(a, o) = 0
        BY <1>1, <2>1, CountKinds DEF a, b
      <3> QED
        BY <1>6, <3>1
    <2>2. CASE o \notin {"nodes", "one_task"}
      <3>1. CountOf(a, o) = CountOf(d, o) /\ CountOf(b, o) = 0
        BY <1>1, <2>2, CountKinds DEF a, b
      <3> QED
        BY <1>6, <3>1
    <2> QED
      BY <2>1, <2>2
  <1>8. /\ a \o b \o g \in Seq(JobLine)
        /\ CountOf(a \o b \o g, o) = CountOf(d, o) + CountOf(g, o)
    <2> DEFINE ab == a \o b
    <2>1. ab \in Seq(JobLine) /\ CountOf(ab, o) = CountOf(d, o)
      BY <1>6, <1>7
    <2> HIDE DEF ab
    <2>2. ab \o g \in Seq(JobLine) /\ CountOf(ab \o g, o) = CountOf(ab, o) + CountOf(g, o)
      BY <1>3, <2>1, CountJoined, ConcatProperties
    <2> QED
      BY <2>1, <2>2 DEF ab
  <1>9. CASE Slurm
    <2>1. CountOf(a \o b \o g \o <<Code>>, o) = CountOf(a \o b \o g, o) + CountOf(<<Code>>, o)
      <3> DEFINE abg == a \o b \o g
      <3>1. abg \in Seq(JobLine)
        BY <1>8
      <3> HIDE DEF abg
      <3>2. CountOf(abg \o <<Code>>, o) = CountOf(abg, o) + CountOf(<<Code>>, o)
        BY <1>3, <3>1, CountJoined
      <3> QED
        BY <3>2 DEF abg
    <2>2. CountOf(a \o b \o g \o <<Code>>, o) = CountOf(d, o) + IF o = "hetjob" THEN 1 ELSE 0
      BY <1>5, <1>6, <1>8, <2>1
    <2> QED
      BY <1>4, <1>6, <1>9, <2>2 DEF d
  <1>10. CASE ~Slurm
    <2>1. CountOf(d \o <<Code>>, o) = CountOf(d, o) + CountOf(<<Code>>, o)
      BY <1>1, <1>3, CountJoined
    <2> QED
      BY <1>4, <1>5, <1>6, <1>10, <2>1 DEF d
  <1> QED
    BY <1>9, <1>10

\* The directives of a script that was made from directives with one prefix are
\* all that it has.
LEMMA HeaderOfMade ==
    ASSUME NEW lines, EndsInCode(lines)
    PROVE  DOMAIN Header(lines) = 1..(Len(lines) - 1) /\ Len(lines) \in Nat /\ Len(lines) # 0
  <1> DEFINE h == Header(lines)
  <1>1. /\ lines \in Seq(JobLine) /\ Len(lines) # 0 /\ lines[Len(lines)] = Code
        /\ \A k \in 1..(Len(lines) - 1) : lines[k] # Code
    BY DEF EndsInCode
  <1>2. /\ h \in Seq(JobLine) /\ CodeFree(h) /\ Len(h) <= Len(lines)
        /\ \A k \in DOMAIN h : k \in DOMAIN lines /\ h[k] = lines[k]
        /\ Len(h) = Len(lines) \/ lines[Len(h) + 1] = Code
    BY <1>1, HeaderAt
  <1>3. /\ Len(lines) \in Nat /\ Len(h) \in Nat /\ DOMAIN h = 1..Len(h)
    BY <1>1, <1>2, LenProperties
  <1> HIDE DEF h, Code
  <1>4. Len(h) # Len(lines)
    <2> SUFFICES ASSUME Len(h) = Len(lines)
                 PROVE  FALSE
      OBVIOUS
    <2>1. Len(lines) \in DOMAIN h
      BY <1>1, <1>3
    <2> QED
      BY <1>1, <1>2, <2>1 DEF CodeFree
  <1>5. Len(h) + 1 \notin 1..(Len(lines) - 1)
    BY <1>1, <1>2, <1>4
  <1>6. Len(h) = Len(lines) - 1
    BY <1>2, <1>3, <1>4, <1>5
  <1> QED
    BY <1>1, <1>3, <1>6 DEF h

LEMMA CountReadBack ==
    ASSUME NEW lines, EndsInCode(lines), NEW p,
           \A k \in 1..(Len(lines) - 1) : lines[k].prefix = p,
           NEW o \in UserOption \cup {"hetjob"}
    PROVE  CountOf(Directives(lines, p), o) = CountOf(lines, o)
  <1> DEFINE h == Header(lines)
             I == {k \in DOMAIN h : h[k].prefix = p}
  <1>1. lines \in Seq(JobLine) /\ lines[Len(lines)] = Code
    BY DEF EndsInCode
  <1>2. DOMAIN h = 1..(Len(lines) - 1) /\ Len(lines) \in Nat /\ Len(lines) # 0
    BY HeaderOfMade
  <1>3. h \in Seq(JobLine) /\ \A k \in DOMAIN h : k \in DOMAIN lines /\ h[k] = lines[k]
    BY <1>1, HeaderAt
  <1>4. CountOf(Directives(lines, p), o) = Cardinality({k \in I \cap DOMAIN h : h[k].option = o})
    BY <1>3, CountPick DEF Directives
  <1>5. {k \in I \cap DOMAIN h : h[k].option = o} = {k \in DOMAIN lines : lines[k].option = o}
    <2> HIDE DEF h
    <2>1. DOMAIN lines = DOMAIN h \cup {Len(lines)}
      <3>1. DOMAIN lines = 1..Len(lines)
        BY <1>1, LenProperties
      <3> QED
        BY <1>2, <3>1
    <2>2. lines[Len(lines)].option # o
      BY <1>1, OptionNames, CodeOption
    <2>3. I = DOMAIN h
      BY <1>2, <1>3
    <2> QED
      BY <1>3, <2>1, <2>2, <2>3
  <1> QED
    BY <1>4, <1>5 DEF CountOf

-----------------------------------------------------------------------------
(* The script that is made of the lines of another.                        *)

\* All that is parsed is a directive with the prefix in use.
LEMMA ParsedLines ==
    ASSUME NEW lines \in Seq(JobLine), NEW p \in Prefix
    PROVE  LET ps == ParseScript(lines, p)
           IN /\ ps \in Seq(JobLine) /\ CodeFree(ps)
              /\ \A k \in DOMAIN ps : ps[k].prefix = p
  <1> DEFINE d == Directives(lines, p)
             a == OtherLines(d)
             b == ResourceLines(d)
             g == <<Generated("hetjob"), Generated("one_task")>>
  <1>0. PICK G : G = {x \in JobLine : x # Code /\ x.prefix = p}
    OBVIOUS
  <1>1. d \in Seq(G)
    <2>1. d \in Seq(JobLine) /\ CodeFree(d) /\ \A k \in DOMAIN d : d[k].prefix = p
      BY DirectivesAt
    <2> HIDE DEF d
    <2>2. \A k \in DOMAIN d : d[k] \in G
      BY <1>0, <2>1 DEF CodeFree
    <2>3. Len(d) \in Nat /\ DOMAIN d = 1..Len(d) /\ d = [k \in 1..Len(d) |-> d[k]]
      BY <2>1
    <2> QED
      BY <2>2, <2>3
  <1>2. Slurm => g \in Seq(G)
    <2> SUFFICES ASSUME Slurm
                 PROVE  g \in Seq(G)
      OBVIOUS
    <2>1. p = DefaultPrefix
      BY DEF Prefix
    <2>2. /\ Generated("hetjob").prefix = p /\ Generated("hetjob").option = "hetjob"
          /\ Generated("one_task").prefix = p /\ Generated("one_task").option = "one_task"
      BY <2>1 DEF Generated
    <2>3. Generated("hetjob") \in G /\ Generated("one_task") \in G
      BY <1>0, <2>2, CodeOption, LineKinds
    <2> QED
      BY <2>3
  <1> HIDE DEF d, g
  <1>3. a \in Seq(G) /\ b \in Seq(G)
    BY <1>1, PickedType
  <1> HIDE DEF a, b
  <1>4. a \o b \in Seq(G)
    BY <1>3, ConcatProperties
  <1>5. Slurm => a \o b \o g \in Seq(G)
    BY <1>2, <1>4, ConcatProperties
  <1>6. ParseScript(lines, p) \in Seq(G)
    BY <1>1, <1>5 DEF ParseScript, d, a, b, g
  <1>7. \A k \in DOMAIN ParseScript(lines, p) : ParseScript(lines, p)[k] \in G
    BY <1>6
  <1> QED
    BY <1>0, <1>7, ParseScriptType DEF CodeFree

LEMMA MadeLines ==
    ASSUME NEW lines \in Seq(JobLine), NEW p \in Prefix
    PROVE  LET made == ParseScript(lines, p) \o <<Code>>
           IN /\ EndsInCode(made)
              /\ \A k \in 1..(Len(made) - 1) : made[k].prefix = p
  <1> DEFINE ps == ParseScript(lines, p)
             made == ps \o <<Code>>
  <1>1. ps \in Seq(JobLine) /\ CodeFree(ps) /\ \A k \in DOMAIN ps : ps[k].prefix = p
    BY ParsedLines
  <1> HIDE DEF ps
  <1>2. /\ made \in Seq(JobLine) /\ Len(made) = Len(ps) + Len(<<Code>>)
        /\ \A i \in 1..(Len(ps) + Len(<<Code>>)) :
              made[i] = IF i <= Len(ps) THEN ps[i] ELSE <<Code>>[i - Len(ps)]
    BY <1>1, GeneratedType, ConcatProperties
  <1> HIDE DEF made, Code
  <1>3. Len(<<Code>>) = 1 /\ <<Code>>[1] = Code
    OBVIOUS
  <1>4. Len(ps) \in Nat /\ DOMAIN ps = 1..Len(ps)
    BY <1>1, LenProperties
  <1>5. /\ Len(made) = Len(ps) + 1
        /\ made[Len(made)] = Code
        /\ \A k \in 1..(Len(made) - 1) : k \in DOMAIN ps /\ made[k] = ps[k]
    BY <1>2, <1>3, <1>4
  <1> QED
    <2>1. \A k \in 1..(Len(made) - 1) : made[k] # Code /\ made[k].prefix = p
      BY <1>1, <1>5 DEF CodeFree
    <2>2. Len(made) # 0
      BY <1>4, <1>5
    <2>3. EndsInCode(made)
      BY <1>2, <1>5, <2>1, <2>2 DEF EndsInCode
    <2> QED
      BY <2>1, <2>3 DEF made, ps

-----------------------------------------------------------------------------
(* The parts of a heterogeneous job.                                       *)

\* All directives of the user with these options are about part 0.
First(lines, options) ==
    \A k \in DOMAIN lines : lines[k].option \in options =>
        \A i \in 1..(k - 1) : lines[i].option # "hetjob"

\* What is not taken for a resource.
Others == UserOption \ {"nodes"}

NamesFirst(lines) == First(lines, Others)

ResourcesFirst(lines) == First(lines, {"nodes"})

NoParts(lines) == \A k \in DOMAIN lines : lines[k].option # "hetjob"

LEMMA PickedNamesFirst ==
    ASSUME NEW S, NEW s \in Seq(S), NamesFirst(s), NEW I
    PROVE  NamesFirst(Picked(s, I))
  <1> DEFINE P == I \cap DOMAIN s
             t == Picked(s, I)
  <1>1. PICK h : Takes(s, P, t, h)
    BY PickedAt
  <1>2. t \in Seq(S)
    BY PickedAt
  <1>3. /\ DOMAIN t = 1..Len(t) /\ Len(t) \in Nat
        /\ DOMAIN s = 1..Len(s) /\ Len(s) \in Nat
    BY <1>2, LenProperties
  <1> HIDE DEF t
  <1> SUFFICES ASSUME NEW k \in DOMAIN t, t[k].option \in Others,
                      NEW i \in 1..(k - 1)
               PROVE  t[i].option # "hetjob"
    BY DEF NamesFirst, First, t
  <1>4. i \in DOMAIN t /\ i < k /\ i \in 1..Len(t) /\ k \in 1..Len(t)
    BY <1>3
  <1>5. h[i] \in P /\ h[k] \in P /\ t[i] = s[h[i]] /\ t[k] = s[h[k]] /\ h[i] < h[k]
    BY <1>1, <1>4 DEF Takes
  <1>6. h[i] \in 1..(h[k] - 1) /\ h[k] \in DOMAIN s
    BY <1>3, <1>5
  <1> QED
    BY <1>5, <1>6 DEF NamesFirst, First

LEMMA DirectivesNamesFirst ==
    ASSUME NEW S, NEW lines \in Seq(S), NamesFirst(lines), NEW p
    PROVE  NamesFirst(Directives(lines, p))
  <1> DEFINE h == Header(lines)
  <1>1. h \in Seq(S) /\ \A k \in DOMAIN h : k \in DOMAIN lines /\ h[k] = lines[k]
    BY HeaderAt
  <1>2. DOMAIN h = 1..Len(h) /\ Len(h) \in Nat
    BY <1>1, LenProperties
  <1> HIDE DEF h
  <1>3. \A k \in DOMAIN h : \A i \in 1..(k - 1) : i \in DOMAIN h
    BY <1>2
  <1>4. NamesFirst(h)
    BY <1>1, <1>3 DEF NamesFirst, First
  <1> QED
    BY <1>1, <1>4, PickedNamesFirst DEF Directives, h

\* Where the lines of the parts of a script are.
InParts(m, a, b, g, c) ==
    /\ DOMAIN m = 1..(Len(a) + Len(b) + Len(g) + Len(c))
    /\ \A k \in DOMAIN m :
          IF k <= Len(a) THEN k \in DOMAIN a /\ m[k] = a[k]
          ELSE IF k <= Len(a) + Len(b)
          THEN k - Len(a) \in DOMAIN b /\ m[k] = b[k - Len(a)]
          ELSE \/ \E i \in DOMAIN g : m[k] = g[i]
               \/ \E i \in DOMAIN c : m[k] = c[i]

LEMMA FourParts ==
    ASSUME NEW S, NEW a \in Seq(S), NEW b \in Seq(S), NEW g \in Seq(S), NEW c \in Seq(S)
    PROVE  InParts(a \o b \o g \o c, a, b, g, c)
  <1> DEFINE ab == a \o b
             abg == ab \o g
             m == abg \o c
  <1>1. /\ Len(a) \in Nat /\ DOMAIN a = 1..Len(a) /\ Len(b) \in Nat /\ DOMAIN b = 1..Len(b)
        /\ Len(g) \in Nat /\ DOMAIN g = 1..Len(g) /\ Len(c) \in Nat /\ DOMAIN c = 1..Len(c)
    BY LenProperties
  <1>2. /\ ab \in Seq(S) /\ Len(ab) = Len(a) + Len(b)
        /\ \A i \in 1..(Len(a) + Len(b)) : ab[i] = IF i <= Len(a) THEN a[i] ELSE b[i - Len(a)]
    BY ConcatProperties
  <1> HIDE DEF ab
  <1>3. ab \in Seq(S)
    BY <1>2
  <1>4. /\ abg \in Seq(S) /\ Len(abg) = Len(ab) + Len(g)
        /\ \A i \in 1..(Len(ab) + Len(g)) : abg[i] = IF i <= Len(ab) THEN ab[i] ELSE g[i - Len(ab)]
    BY <1>3, ConcatProperties
  <1> HIDE DEF abg
  <1>5. abg \in Seq(S)
    BY <1>4
  <1>6. /\ m \in Seq(S) /\ Len(m) = Len(abg) + Len(c)
        /\ \A i \in 1..(Len(abg) + Len(c)) : m[i] = IF i <= Len(abg) THEN abg[i] ELSE c[i - Len(abg)]
    BY <1>5, ConcatProperties
  <1>7. DOMAIN m = 1..(Len(a) + Len(b) + Len(g) + Len(c))
    BY <1>1, <1>2, <1>4, <1>6, LenProperties
  <1> HIDE DEF m
  <1>8. ASSUME NEW k \in DOMAIN m
        PROVE  IF k <= Len(a) THEN k \in DOMAIN a /\ m[k] = a[k]
               ELSE IF k <= Len(a) + Len(b)
               THEN k - Len(a) \in DOMAIN b /\ m[k] = b[k - Len(a)]
               ELSE \/ \E i \in DOMAIN g : m[k] = g[i]
                    \/ \E i \in DOMAIN c : m[k] = c[i]
    <2>1. k \in Nat /\ 1 <= k /\ k <= Len(a) + Len(b) + Len(g) + Len(c)
      BY <1>1, <1>7
    <2>2. CASE k <= Len(a)
      BY <1>1, <1>2, <1>4, <1>6, <2>1, <2>2
    <2>3. CASE Len(a) < k /\ k <= Len(a) + Len(b)
      BY <1>1, <1>2, <1>4, <1>6, <2>1, <2>3
    <2>4. CASE Len(a) + Len(b) < k /\ k <= Len(a) + Len(b) + Len(g)
      <3>1. m[k] = abg[k]
        BY <1>1, <1>2, <1>4, <1>6, <2>1, <2>4
      <3>2. abg[k] = g[k - Len(ab)] /\ k - Len(ab) \in DOMAIN g
        BY <1>1, <1>2, <1>4, <2>1, <2>4
      <3> QED
        BY <1>1, <2>1, <2>4, <3>1, <3>2
    <2>5. CASE Len(a) + Len(b) + Len(g) < k
      <3>1. k - Len(abg) \in DOMAIN c /\ m[k] = c[k - Len(abg)]
        BY <1>1, <1>2, <1>4, <1>6, <2>1, <2>5
      <3> QED
        BY <1>1, <2>1, <2>5, <3>1
    <2> QED
      BY <1>1, <2>1, <2>2, <2>3, <2>4, <2>5
  <1>9. InParts(m, a, b, g, c)
    BY <1>7, <1>8 DEF InParts
  <1> QED
    BY <1>9 DEF m, abg, ab

\* In a new script the parts come after all that was found, and the resources
\* after everything else that was.
LEMMA ArrangedLines ==
    ASSUME Slurm, NEW lines \in Seq(JobLine), NEW p,
           NamesFirst(Directives(lines, p))
    PROVE  LET m == ParseScript(lines, p) \o <<Code>>
           IN /\ NamesFirst(m)
              /\ NoParts(Directives(lines, p)) => ResourcesFirst(m)
  <1> DEFINE d == Directives(lines, p)
             a == OtherLines(d)
             b == ResourceLines(d)
             g == <<Generated("hetjob"), Generated("one_task")>>
             c == <<Code>>
             m == a \o b \o g \o c
             R == {k \in DOMAIN d : IsResource(d[k])}
             O == {k \in DOMAIN d : ~IsResource(d[k])}
  <1>1. d \in Seq(JobLine)
    BY DirectivesAt
  <1>2. ParseScript(lines, p) \o <<Code>> = m
    BY DEF ParseScript
  <1> HIDE DEF d
  <1>4. a \in Seq(JobLine) /\ b \in Seq(JobLine)
    BY <1>1, PickedType
  <1>5. g \in Seq(JobLine) /\ c \in Seq(JobLine)
    BY GeneratedType
  <1>6. /\ \A k \in DOMAIN a : a[k].option \notin {"nodes", "one_task"}
        /\ \A k \in DOMAIN b : b[k].option \in {"nodes", "one_task"}
    <2>1. {a[k] : k \in DOMAIN a} = {d[i] : i \in O \cap DOMAIN d}
      BY <1>1, PickedElements DEF OtherLines
    <2>2. {b[k] : k \in DOMAIN b} = {d[i] : i \in R \cap DOMAIN d}
      BY <1>1, PickedElements DEF ResourceLines
    <2> HIDE DEF a, b
    <2>3. \A k \in DOMAIN a : \E i \in O : a[k] = d[i]
      BY <2>1
    <2>4. \A k \in DOMAIN b : \E i \in R : b[k] = d[i]
      BY <2>2
    <2> QED
      BY <2>3, <2>4 DEF IsResource
  <1>7. /\ \A i \in DOMAIN g : g[i].option \in {"hetjob", "one_task"}
        /\ \A i \in DOMAIN c : c[i].option = "code"
    <2>1. DOMAIN g = {1, 2} /\ g[1].option = "hetjob" /\ g[2].option = "one_task"
      BY DEF Generated
    <2>2. DOMAIN c = {1} /\ c[1].option = "code"
      BY CodeOption
    <2> HIDE DEF g, c
    <2> QED
      BY <2>1, <2>2
  <1>3. NoParts(d) => NoParts(a)
    <2>1. {a[k] : k \in DOMAIN a} = {d[i] : i \in O \cap DOMAIN d}
      BY <1>1, PickedElements DEF OtherLines
    <2> HIDE DEF a
    <2>2. \A k \in DOMAIN a : \E i \in DOMAIN d : a[k] = d[i]
      BY <2>1
    <2> QED
      BY <2>2 DEF NoParts
  <1>8. NamesFirst(a)
    BY <1>1, PickedNamesFirst DEF OtherLines, d
  <1> HIDE DEF a, b, g, c
  <1>9. /\ Len(a) \in Nat /\ DOMAIN a = 1..Len(a) /\ Len(b) \in Nat
        /\ Len(g) \in Nat /\ Len(c) \in Nat
    BY <1>4, <1>5, LenProperties
  <1>10. InParts(m, a, b, g, c)
    BY <1>4, <1>5, FourParts
  <1> HIDE DEF m
  <1>11. \A k \in DOMAIN m : k <= Len(a) => k \in DOMAIN a /\ m[k] = a[k]
    BY <1>10 DEF InParts
  <1>12. \A k \in DOMAIN m : Len(a) < k /\ k <= Len(a) + Len(b) =>
            m[k].option \in {"nodes", "one_task"}
    BY <1>6, <1>9, <1>10 DEF InParts
  <1>13. \A k \in DOMAIN m : Len(a) + Len(b) < k =>
            m[k].option \in {"hetjob", "one_task", "code"}
    BY <1>7, <1>9, <1>10 DEF InParts
  <1>14. \A k \in DOMAIN m : k \in Nat /\ \A i \in 1..(k - 1) : i \in DOMAIN m /\ i < k
    BY <1>9, <1>10 DEF InParts
  <1>15. NamesFirst(m)
    <2> SUFFICES ASSUME NEW k \in DOMAIN m, m[k].option \in Others,
                        NEW i \in 1..(k - 1)
                 PROVE  m[i].option # "hetjob"
      BY DEF NamesFirst, First
    <2>1. m[k].option \notin {"nodes", "hetjob", "one_task", "code"}
      BY OptionNames DEF Others
    <2>2. k <= Len(a)
      BY <1>9, <1>12, <1>13, <1>14, <2>1
    <2>3. m[k] = a[k] /\ m[i] = a[i] /\ k \in DOMAIN a
      BY <1>9, <1>11, <1>14, <2>2
    <2> QED
      BY <1>8, <2>3 DEF NamesFirst, First
  <1>16. ASSUME NoParts(d)
         PROVE  ResourcesFirst(m)
    <2> SUFFICES ASSUME NEW k \in DOMAIN m, m[k].option = "nodes", NEW i \in 1..(k - 1)
                 PROVE  m[i].option # "hetjob"
      BY DEF ResourcesFirst, First
    <2>1. k <= Len(a) + Len(b)
      BY <1>9, <1>13, <1>14
    <2>2. i \in DOMAIN m /\ i <= Len(a) + Len(b) /\ i < k
      BY <1>9, <1>14, <2>1
    <2>3. CASE i <= Len(a)
      BY <1>3, <1>11, <1>16, <2>2, <2>3 DEF NoParts
    <2>4. CASE Len(a) < i
      BY <1>12, <2>2, <2>4
    <2> QED
      BY <1>9, <1>14, <2>2, <2>3, <2>4
  <1> QED
    BY <1>2, <1>15, <1>16 DEF d

\* The script of the last job, when it was made of directives only.
MadeOfDirectives ==
    status = "submitted" /\ script.shebang =>
        /\ job # 0 /\ jobscript.shebang /\ prefixes # {}
        /\ EndsInCode(jobscript.lines)
        /\ \A p \in Prefix : prefixes = {p} =>
              /\ \A k \in 1..(Len(jobscript.lines) - 1) : jobscript.lines[k].prefix = p
              /\ \A o \in UserOption :
                    CountOf(jobscript.lines, o) = CountOf(Directives(script.lines, p), o)
        /\ Slurm => NamesFirst(jobscript.lines)
        /\ Slurm /\ job = 1 => ResourcesFirst(jobscript.lines)

\* What the script of the next job needs for it.
LEMMA MadeAgain ==
    ASSUME scheduler' = scheduler, script' = script,
           NEW made, jobscript'.shebang, jobscript'.lines = made, prefixes' # {},
           NEW n, job' = n, n # 0,
           EndsInCode(made),
           \A p \in Prefix : prefixes' = {p} =>
              /\ \A k \in 1..(Len(made) - 1) : made[k].prefix = p
              /\ \A o \in UserOption :
                    CountOf(made, o) = CountOf(Directives(script.lines, p), o),
           Slurm => NamesFirst(made),
           Slurm /\ n = 1 => ResourcesFirst(made)
    PROVE  MadeOfDirectives'
  <1>1. /\ Prefix' = Prefix /\ UserOption' = UserOption /\ JobLine' = JobLine /\ Slurm' = Slurm
        /\ NameOption' = NameOption /\ ArrayOption' = ArrayOption
    BY SameScheduler DEF NameOption, ArrayOption
  <1>2. EndsInCode(jobscript.lines)'
    BY <1>1 DEF EndsInCode
  <1>3. /\ Slurm' => NamesFirst(jobscript.lines)'
        /\ Slurm' /\ job' = 1 => ResourcesFirst(jobscript.lines)'
    BY <1>1 DEF NamesFirst, ResourcesFirst, First, Others
  <1>4. ASSUME NEW p \in Prefix', prefixes' = {p}
        PROVE  /\ \A k \in 1..(Len(jobscript'.lines) - 1) : jobscript'.lines[k].prefix = p
               /\ \A o \in UserOption' :
                     CountOf(jobscript'.lines, o) = CountOf(Directives(script'.lines, p), o)
    BY <1>1, <1>4
  <1> QED
    BY <1>2, <1>3, <1>4 DEF MadeOfDirectives

LEMMA WsubMakes ==
    ASSUME JobTypes, OInv, NEW args \in Arg, NEW prefix \in Prefix, Wsub(args, prefix),
           Submitted(AsSpelled(FilterCommandCl(args)), script, prefix)
    PROVE  MadeOfDirectives'
  <1> DEFINE lines == script.lines
             made == ParseScript(lines, prefix) \o <<Code>>
  <1>1. /\ scheduler' = scheduler /\ script' = script /\ job' = 1
        /\ jobscript' = CreateJobscript(script, prefix) /\ prefixes' = prefixes \cup {prefix}
    BY DEF Wsub, Submitted, Ask, OInv, NothingAsked
  <1>2. lines \in Seq(JobLine) /\ lines \in Seq(Line) /\ script.shebang \in BOOLEAN
    BY ScriptIsJobScript DEF JobTypes
  <1> SUFFICES ASSUME script.shebang
               PROVE  MadeOfDirectives'
    BY <1>1 DEF MadeOfDirectives
  <1>3. jobscript'.shebang /\ jobscript'.lines = made
    BY <1>1, <1>2, CreateJobscriptLines
  <1>4. EndsInCode(made) /\ \A k \in 1..(Len(made) - 1) : made[k].prefix = prefix
    BY <1>2, MadeLines
  <1>5. \A o \in UserOption : CountOf(made, o) = CountOf(Directives(lines, prefix), o)
    <2> SUFFICES ASSUME NEW o \in UserOption
                 PROVE  CountOf(made, o) = CountOf(Directives(lines, prefix), o)
      OBVIOUS
    <2>1. o # "hetjob"
      BY OptionNames
    <2>2. CountOf(Directives(lines, prefix), o) \in Nat
      BY <1>2, CountMade
    <2> QED
      BY <1>2, <2>1, <2>2, CountMade
  <1>6. ASSUME Slurm
        PROVE  NamesFirst(made) /\ ResourcesFirst(made)
    <2> DEFINE d == Directives(lines, prefix)
    <2>1. NoParts(d)
      <3>1. d \in Seq(Line) /\ CodeFree(d)
        BY <1>2, DirectivesAt
      <3> HIDE DEF d
      <3>2. \A k \in DOMAIN d : d[k] \in Line /\ d[k] # Code
        BY <3>1 DEF CodeFree
      <3> QED
        BY <3>2, LineKinds, OptionNames DEF NoParts
    <2>2. NamesFirst(d)
      <3>1. d \in Seq(Line)
        BY <1>2, DirectivesAt
      <3> HIDE DEF d
      <3>2. \A k \in DOMAIN d : \A i \in 1..(k - 1) : i \in DOMAIN d
        BY <3>1, LenProperties
      <3> QED
        BY <2>1, <3>2 DEF NamesFirst, First, NoParts
    <2> QED
      BY <1>2, <1>6, <2>1, <2>2, ArrangedLines
  <1>7. prefixes' # {} /\ \A p \in Prefix : prefixes' = {p} => p = prefix
    BY <1>1
  <1>8. \A p \in Prefix : prefixes' = {p} =>
           /\ \A k \in 1..(Len(made) - 1) : made[k].prefix = p
           /\ \A o \in UserOption :
                 CountOf(made, o) = CountOf(Directives(script.lines, p), o)
    BY <1>4, <1>5, <1>7
  <1> HIDE DEF made
  <1> QED
    BY <1>1, <1>3, <1>4, <1>6, <1>7, <1>8, MadeAgain

LEMMA WresumeMakes ==
    ASSUME JobTypes, MadeOfDirectives, NEW args \in Arg, NEW prefix \in Prefix,
           Wresume(args, prefix),
           Submitted(ResumeCommand(args, prefix), jobscript, prefix)
    PROVE  MadeOfDirectives'
  <1> DEFINE lines == jobscript.lines
             made == ParseScript(lines, prefix) \o <<Code>>
  <1>1. /\ scheduler' = scheduler /\ script' = script /\ job' = job + 1 /\ status = "submitted"
        /\ jobscript' = CreateJobscript(jobscript, prefix) /\ prefixes' = prefixes \cup {prefix}
    BY DEF Wresume, Submitted, Ask
  <1>2. lines \in Seq(JobLine) /\ jobscript.shebang \in BOOLEAN
    BY DEF JobTypes
  <1>3. script.shebang =>
           /\ job # 0 /\ jobscript.shebang /\ prefixes # {} /\ EndsInCode(lines)
           /\ \A p \in Prefix : prefixes = {p} =>
                 /\ \A k \in 1..(Len(lines) - 1) : lines[k].prefix = p
                 /\ \A o \in UserOption :
                       CountOf(lines, o) = CountOf(Directives(script.lines, p), o)
           /\ Slurm => NamesFirst(lines)
    BY <1>1 DEF MadeOfDirectives
  <1> SUFFICES ASSUME script.shebang
               PROVE  MadeOfDirectives'
    BY <1>1 DEF MadeOfDirectives
  <1>4. jobscript'.shebang /\ jobscript'.lines = made
    BY <1>1, <1>2, <1>3, CreateJobscriptLines
  <1>5. EndsInCode(made) /\ \A k \in 1..(Len(made) - 1) : made[k].prefix = prefix
    BY <1>2, MadeLines
  <1>6. ASSUME NEW p \in Prefix, prefixes' = {p}, NEW o \in UserOption
        PROVE  CountOf(made, o) = CountOf(Directives(script.lines, p), o)
    <2>1. prefix = p /\ prefixes = {p}
      <3>1. prefixes' = prefixes \cup {prefix} /\ prefixes # {}
        BY <1>1, <1>3
      <3> QED
        BY <3>1, <1>6
    <2>2. CountOf(Directives(lines, p), o) = CountOf(lines, o)
      BY <1>3, <2>1, CountReadBack
    <2>3. CountOf(made, o) = CountOf(Directives(lines, p), o)
      <3>1. o # "hetjob"
        BY OptionNames
      <3>2. CountOf(Directives(lines, prefix), o) \in Nat
        BY <1>2, CountMade
      <3> QED
        BY <1>2, <2>1, <3>1, <3>2, CountMade
    <2> QED
      BY <1>3, <2>1, <2>2, <2>3
  <1>7. Slurm => NamesFirst(made)
    <2>1. Slurm => NamesFirst(Directives(lines, prefix))
      BY <1>2, <1>3, DirectivesNamesFirst
    <2> QED
      BY <1>2, <2>1, ArrangedLines
  <1>10. job + 1 # 1 /\ job + 1 # 0
    <2>1. job \in Nat /\ job # 0
      BY <1>3, SomeJob DEF JobTypes
    <2> QED
      BY <2>1
  <1>8. prefixes' # {} /\ \A p \in Prefix : prefixes' = {p} => p = prefix
    BY <1>1
  <1>9. \A p \in Prefix : prefixes' = {p} =>
           /\ \A k \in 1..(Len(made) - 1) : made[k].prefix = p
           /\ \A o \in UserOption :
                 CountOf(made, o) = CountOf(Directives(script.lines, p), o)
    BY <1>5, <1>6, <1>8
  <1> HIDE DEF made
  <1> QED
    BY <1>1, <1>4, <1>5, <1>7, <1>8, <1>9, <1>10, MadeAgain

LEMMA MadeNext ==
    JobTypes /\ OInv /\ MadeOfDirectives /\ [Next]_vars => MadeOfDirectives'
  <1> SUFFICES ASSUME JobTypes, OInv, MadeOfDirectives, [Next]_vars
               PROVE  MadeOfDirectives'
    OBVIOUS
  <1>1. ASSUME NEW how, Fails(how), how # "submitted"
        PROVE  MadeOfDirectives'
    BY <1>1 DEF Fails, MadeOfDirectives
  <1>2. CASE WsubFails \/ WresumeFails
    BY <1>1, <1>2 DEF WsubFails, WresumeFails
  <1>3. ASSUME NEW args \in Arg, NEW prefix \in Prefix, Wsub(args, prefix)
        PROVE  MadeOfDirectives'
    BY <1>1, <1>3, WsubMakes DEF Wsub
  <1>4. ASSUME NEW args \in Arg, NEW prefix \in Prefix, Wresume(args, prefix)
        PROVE  MadeOfDirectives'
    BY <1>1, <1>4, WresumeMakes DEF Wresume
  <1>5. CASE UNCHANGED vars
    <2>1. UNCHANGED <<scheduler, script, status, job, jobscript, prefixes>>
      BY <1>5 DEF vars
    <2>2. /\ Prefix' = Prefix /\ UserOption' = UserOption /\ JobLine' = JobLine /\ Slurm' = Slurm
          /\ NameOption' = NameOption /\ ArrayOption' = ArrayOption
      BY <2>1, SameScheduler DEF NameOption, ArrayOption
    <2> QED
      BY <2>1, <2>2 DEF MadeOfDirectives, EndsInCode, NamesFirst, ResourcesFirst, First, Others
  <1> QED
    BY <1>2, <1>3, <1>4, <1>5 DEF Next

THEOREM MadeInvariance == Spec => []MadeOfDirectives
  <1>1. Init => MadeOfDirectives
    BY DEF Init, MadeOfDirectives
  <1> QED
    BY <1>1, MadeNext, TypesInvariance, OptionsInvariance, PTL DEF Spec

\* In a chain of any length no directive of the user's script is lost or doubled,
\* when all command lines go by one prefix.
THEOREM DirectivesAreKept == Spec => []DirectivesKept
  <1>1. MadeOfDirectives => DirectivesKept
    BY DEF MadeOfDirectives, DirectivesKept, UserOption
  <1> QED
    BY <1>1, MadeInvariance, PTL

\* In a chain of any length the directives that are not taken for resources are
\* about part 0 of each job, and all others about that of the first job.
THEOREM FirstPartIsKept == Spec => []FirstPartKept
  <1>1. ASSUME MadeOfDirectives
        PROVE  FirstPartKept
    <2> SUFFICES ASSUME Slurm, status = "submitted", script.shebang,
                        NEW k \in DOMAIN jobscript.lines,
                        jobscript.lines[k].option \in UserOption,
                        job = 1 \/ ~IsResource(jobscript.lines[k])
                 PROVE  Group(k) = 0
      BY DEF FirstPartKept
    <2>1. /\ NamesFirst(jobscript.lines)
          /\ job = 1 => ResourcesFirst(jobscript.lines)
      BY <1>1 DEF MadeOfDirectives
    <2>2. \/ jobscript.lines[k].option \in Others
          \/ job = 1 /\ jobscript.lines[k].option = "nodes"
      BY DEF Others, IsResource
    <2>3. {i \in 1..(k - 1) : jobscript.lines[i].option = "hetjob"} = {}
      BY <2>1, <2>2 DEF NamesFirst, ResourcesFirst, First
    <2> QED
      BY <2>3, FS_EmptySet DEF Group
  <1> QED
    BY <1>1, MadeInvariance, PTL

=============================================================================
