-------------------------- MODULE ForkServerProofs --------------------------
(***************************************************************************)
(* The safety properties of ForkServer, for every set of pids and wait     *)
(* statuses and every number of runs per seed.                             *)
(***************************************************************************)
EXTENDS ForkServer, TLAPS, SequenceTheorems

\* What is left in the status pipe of the answer to the current request: the pid is
\* still in front of the status while the fuzzer has not read it.
NoWord == st = <<>>
PidOnly == IF fz = "asked" THEN st = <<kid>> ELSE st = <<>>
WholeAnswer == IF fz = "asked" THEN st = <<kid, word>> ELSE st = <<word>>

\* The server is somewhere in its answer.
Answering ==
  \/ srv = "read" /\ ctl = 1 /\ fz = "asked" /\ NoWord /\ life = "none" /\ own = Nothing
  \/ srv = "forked" /\ ctl = 0 /\ fz = "asked" /\ NoWord /\ own = Nothing /\ kid \in Pids
  \/ srv = "wait" /\ ctl = 0 /\ PidOnly /\ own = Nothing /\ kid \in Pids
  \/ /\ srv = "reaped" /\ ctl = 0 /\ PidOnly /\ own = word /\ kid \in Pids
     /\ life = "none"
  \/ /\ srv = "read" /\ ctl = 0 /\ WholeAnswer /\ own = word /\ kid \in Pids
     /\ life = "none"
  \/ /\ srv = "dead"
     /\ \/ NoWord
        \/ PidOnly /\ kid \in Pids
        \/ WholeAnswer /\ kid \in Pids /\ own = word /\ life = "none" /\ ctl = 0

\* Where the two sides are, relative to each other, while no run was cut short.
Protocol ==
  /\ fz = "boot" =>
       /\ ctl = 0 /\ life = "none" /\ childPid <= 0 /\ verdict = "none"
       /\ \/ srv = "boot" /\ st = <<>>
          \/ srv = "read" /\ st = <<0>>
          \/ srv = "dead" /\ st \in {<<>>, <<0>>}
  /\ fz = "idle" =>
       /\ ctl = 0 /\ st = <<>> /\ childPid <= 0
       /\ (srv = "read" /\ life = "none") \/ srv = "dead"
  /\ fz = "asked" => Answering /\ childPid <= 0 /\ ~lastRunTimedOut
  /\ fz \in {"polling", "expired"} => Answering /\ childPid = kid /\ kid \in Pids
  /\ fz \in {"polling", "expired"} => ~lastRunTimedOut
  /\ fz = "timedout" => Answering /\ childPid <= 0 /\ lastRunTimedOut
  /\ fz = "leaving" => srv = "dead" \/ (srv = "read" /\ ctl = 0 /\ childPid <= 0)
  /\ fz \notin {"boot", "idle", "leaving", "exited"} => verdict = "none"
  /\ fz = "leaving" /\ ~fatal => childPid <= 0

\* While nobody has asked the fuzzer to stop, only an expired wait kills a child, and
\* only a failed fork ends the server.
Undisturbed ==
  /\ fz \in {"asked", "polling", "expired"} /\ (life = "zombie" \/ own # Nothing) =>
       word # SIGKILL
  /\ srv = "dead" /\ fz \notin {"leaving", "exited"} => fz = "asked" /\ st = <<>>

\* The inductive invariant.
Inv ==
  /\ TypeOK
  /\ word \in Ends \cup {0, SIGKILL, ExecFailed}
  /\ cut => stopSoon
  /\ ~cut => Protocol
  /\ ~stopSoon => Undisturbed
  /\ InStep /\ JudgedByOwnChild /\ NoStrayKill /\ FatalOnlyWhenDead /\ NoneLeft
-----------------------------------------------------------------------------
(* The words of an answer as they go through the pipe.                     *)

\* Words enter the status pipe at the end.
LEMMA Written ==
  ASSUME NEW a \in Nat, NEW b \in Nat
  PROVE  Append(<<>>, a) = <<a>> /\ Append(<<a>>, b) = <<a, b>>
<1>1. Append(<<>>, a) = <<a>>
  OBVIOUS
<1>2. /\ Append(<<a>>, b) \in Seq(Nat) /\ Len(Append(<<a>>, b)) = 2
      /\ Append(<<a>>, b)[1] = a /\ Append(<<a>>, b)[2] = b
  BY <<a>> \in Seq(Nat), AppendProperties
<1>3. <<a, b>> \in Seq(Nat) /\ Len(<<a, b>>) = 2 /\ <<a, b>>[1] = a /\ <<a, b>>[2] = b
  OBVIOUS
<1>4. \A i \in 1..2 : Append(<<a>>, b)[i] = <<a, b>>[i]
  BY <1>2, <1>3
<1>5. Append(<<a>>, b) = <<a, b>>
  BY <1>2, <1>3, <1>4, SeqEqual
<1> QED
  BY <1>1, <1>5

\* Words leave the status pipe in front.
LEMMA WordsRead ==
  ASSUME NEW a \in Nat, NEW b \in Nat
  PROVE  /\ Head(<<a>>) = a /\ Tail(<<a>>) = <<>> /\ <<a>> # <<>>
         /\ Head(<<a, b>>) = a /\ Tail(<<a, b>>) = <<b>> /\ <<a, b>> # <<>>
OBVIOUS

\* Pids are positive, and what is known of the end of a child.
LEMMA Words ==
  /\ \A p \in Pids : p \in Nat /\ p > 0
  /\ \A w \in Ends \cup {0, SIGKILL, ExecFailed} : w \in Nat /\ ~Stopped(w)
<1>1. \A w \in Ends : w \in Nat /\ ~Stopped(w)
  BY EndsAssumption DEF Stopped
<1>2. ~Stopped(0) /\ ~Stopped(9) /\ ~Stopped(256)
  BY DEF Stopped
<1> QED
  BY <1>1, <1>2, PidAssumption DEF SIGKILL, ExecFailed

\* The initial states satisfy the invariant.
LEMMA InitInv == Init => Inv
<1> SUFFICES ASSUME Init PROVE Inv
  OBVIOUS
<1>1. TypeOK
  <2>1. hardKill \in BOOLEAN
    BY KillAssumption DEF Init
  <2>2. st \in Seq(Nat) /\ left \in 0..RunsPerSeed
    BY RunsAssumption DEF Init
  <2>3. /\ stopSoon \in BOOLEAN /\ lastRunTimedOut \in BOOLEAN /\ fatal \in BOOLEAN
        /\ failSig \in BOOLEAN /\ cut \in BOOLEAN /\ stray \subseteq {"other", "reaped"}
    BY Zenon DEF Init
  <2> QED
    BY <2>1, <2>2, <2>3 DEF Init, TypeOK, Nothing
<1>2. Protocol /\ Undisturbed
  BY DEF Init, Protocol, Undisturbed
<1> QED
  BY <1>1, <1>2
  DEF Init, Inv, InStep, JudgedByOwnChild, NoStrayKill, FatalOnlyWhenDead, NoneLeft

\* Stop preserves the invariant.
LEMMA StopInv == Inv /\ Stop => Inv'
<1> SUFFICES ASSUME Inv, Stop PROVE Inv'
  OBVIOUS
<1> USE Words DEF Nothing
<1>1. TypeOK' /\ word' \in Ends \cup {0, SIGKILL, ExecFailed} /\ (cut' => stopSoon')
  <2>1. stray' \subseteq {"other", "reaped"} /\ stopSoon' \in BOOLEAN
    BY Zenon DEF Inv, TypeOK, fuzzVars, kidVars, Stop, KillChild, Amiss
  <2>2. word' \in Ends \cup {0, SIGKILL, ExecFailed} /\ (cut' => stopSoon')
    BY DEF Inv, TypeOK, fuzzVars, kidVars, Stop, KillChild, Amiss
  <2>3. st' \in Seq(Nat) /\ childPid' \in Int /\ childStatus' \in Int
    BY DEF Inv, TypeOK, fuzzVars, kidVars, Stop, KillChild, Amiss
  <2>4. /\ left' \in 0..RunsPerSeed /\ ctl' \in Nat
        /\ verdict' \in {"none", "kept", "rejected", "crash", "timeout", "error"}
    BY RunsAssumption DEF Inv, TypeOK, fuzzVars, kidVars, Stop, KillChild, Amiss
  <2> QED
    BY <2>1, <2>2, <2>3, <2>4 DEF Inv, TypeOK, fuzzVars, kidVars, Stop, KillChild, Amiss
<1>2. ASSUME ~cut' PROVE Protocol'
  BY <1>2, Written, WordsRead
  DEF Inv, TypeOK, Protocol, Answering, NoWord, PidOnly, WholeAnswer, Undisturbed,
      NoneLeft, fuzzVars, kidVars, Stop, KillChild, Amiss
<1>3. ASSUME ~stopSoon' PROVE Undisturbed'
  BY <1>3, EndsAssumption
  DEF Inv, Undisturbed, Protocol, Answering, NoWord, PidOnly, WholeAnswer, NoneLeft,
      ExecFailed, SIGKILL, fuzzVars, kidVars, Stop, KillChild, Amiss
<1>4. InStep' /\ NoneLeft'
  BY <1>2 DEF Inv, TypeOK, Protocol, InStep, NoneLeft, fuzzVars, kidVars, Stop, KillChild, Amiss
<1>5. JudgedByOwnChild'
  BY <1>2
  DEF Inv, TypeOK, Protocol, JudgedByOwnChild, Answering, NoWord, PidOnly, WholeAnswer,
      Undisturbed, NoneLeft, fuzzVars, kidVars, Stop, KillChild, Amiss
<1>6. NoStrayKill' /\ FatalOnlyWhenDead'
  BY DEF Inv, TypeOK, Protocol, Answering, NoWord, PidOnly, WholeAnswer, Undisturbed,
      NoStrayKill, FatalOnlyWhenDead, fuzzVars, kidVars, Stop, KillChild, Amiss
<1> QED
  BY <1>1, <1>2, <1>3, <1>4, <1>5, <1>6 DEF Inv

\* HandshakeDone preserves the invariant.
LEMMA HandshakeDoneInv == Inv /\ HandshakeDone => Inv'
<1> SUFFICES ASSUME Inv, HandshakeDone PROVE Inv'
  OBVIOUS
<1> USE Words DEF Nothing
<1>1. TypeOK' /\ word' \in Ends \cup {0, SIGKILL, ExecFailed} /\ (cut' => stopSoon')
  BY RunsAssumption DEF Inv, TypeOK, fuzzVars, kidVars, HandshakeDone
<1>2. ASSUME ~cut' PROVE Protocol'
  BY <1>2, Written, WordsRead
  DEF Inv, TypeOK, Protocol, Answering, NoWord, PidOnly, WholeAnswer, Undisturbed,
      NoneLeft, fuzzVars, kidVars, HandshakeDone
<1>3. ASSUME ~stopSoon' PROVE Undisturbed'
  BY <1>3, EndsAssumption
  DEF Inv, Undisturbed, Protocol, Answering, NoWord, PidOnly, WholeAnswer, NoneLeft,
      ExecFailed, SIGKILL, fuzzVars, kidVars, HandshakeDone
<1>4. InStep' /\ NoneLeft'
  BY <1>2 DEF Inv, TypeOK, Protocol, InStep, NoneLeft, fuzzVars, kidVars, HandshakeDone
<1>5. JudgedByOwnChild'
  BY <1>2
  DEF Inv, TypeOK, Protocol, JudgedByOwnChild, Answering, NoWord, PidOnly, WholeAnswer,
      Undisturbed, NoneLeft, fuzzVars, kidVars, HandshakeDone
<1>6. NoStrayKill' /\ FatalOnlyWhenDead'
  BY DEF Inv, TypeOK, Protocol, Answering, NoWord, PidOnly, WholeAnswer, Undisturbed,
      NoStrayKill, FatalOnlyWhenDead, fuzzVars, kidVars, HandshakeDone
<1> QED
  BY <1>1, <1>2, <1>3, <1>4, <1>5, <1>6 DEF Inv

\* HandshakeFails preserves the invariant.
LEMMA HandshakeFailsInv == Inv /\ HandshakeFails => Inv'
<1> SUFFICES ASSUME Inv, HandshakeFails PROVE Inv'
  OBVIOUS
<1> USE Words DEF Nothing
<1>1. TypeOK' /\ word' \in Ends \cup {0, SIGKILL, ExecFailed} /\ (cut' => stopSoon')
  BY RunsAssumption DEF Inv, TypeOK, fuzzVars, kidVars, HandshakeFails, Fatal
<1>2. ASSUME ~cut' PROVE Protocol'
  BY <1>2, Written, WordsRead
  DEF Inv, TypeOK, Protocol, Answering, NoWord, PidOnly, WholeAnswer, Undisturbed,
      NoneLeft, fuzzVars, kidVars, HandshakeFails, Fatal
<1>3. ASSUME ~stopSoon' PROVE Undisturbed'
  BY <1>3, EndsAssumption
  DEF Inv, Undisturbed, Protocol, Answering, NoWord, PidOnly, WholeAnswer, NoneLeft,
      ExecFailed, SIGKILL, fuzzVars, kidVars, HandshakeFails, Fatal
<1>4. InStep' /\ NoneLeft'
  BY <1>2
  DEF Inv, TypeOK, Protocol, InStep, NoneLeft, fuzzVars, kidVars, HandshakeFails, Fatal
<1>5. JudgedByOwnChild'
  BY <1>2
  DEF Inv, TypeOK, Protocol, JudgedByOwnChild, Answering, NoWord, PidOnly, WholeAnswer,
      Undisturbed, NoneLeft, fuzzVars, kidVars, HandshakeFails, Fatal
<1>6. NoStrayKill' /\ FatalOnlyWhenDead'
  BY DEF Inv, TypeOK, Protocol, Answering, NoWord, PidOnly, WholeAnswer, Undisturbed,
      NoStrayKill, FatalOnlyWhenDead, fuzzVars, kidVars, HandshakeFails, Fatal
<1> QED
  BY <1>1, <1>2, <1>3, <1>4, <1>5, <1>6 DEF Inv

\* NextSeed preserves the invariant.
LEMMA NextSeedInv == Inv /\ NextSeed => Inv'
<1> SUFFICES ASSUME Inv, NextSeed PROVE Inv'
  OBVIOUS
<1> USE Words DEF Nothing
<1>1. TypeOK' /\ word' \in Ends \cup {0, SIGKILL, ExecFailed} /\ (cut' => stopSoon')
  BY RunsAssumption DEF Inv, TypeOK, fuzzVars, kidVars, NextSeed
<1>2. ASSUME ~cut' PROVE Protocol'
  BY <1>2, Written, WordsRead
  DEF Inv, TypeOK, Protocol, Answering, NoWord, PidOnly, WholeAnswer, Undisturbed,
      NoneLeft, fuzzVars, kidVars, NextSeed
<1>3. ASSUME ~stopSoon' PROVE Undisturbed'
  BY <1>3, EndsAssumption
  DEF Inv, Undisturbed, Protocol, Answering, NoWord, PidOnly, WholeAnswer, NoneLeft,
      ExecFailed, SIGKILL, fuzzVars, kidVars, NextSeed
<1>4. InStep' /\ NoneLeft'
  BY <1>2 DEF Inv, TypeOK, Protocol, InStep, NoneLeft, fuzzVars, kidVars, NextSeed
<1>5. JudgedByOwnChild'
  BY <1>2
  DEF Inv, TypeOK, Protocol, JudgedByOwnChild, Answering, NoWord, PidOnly, WholeAnswer,
      Undisturbed, NoneLeft, fuzzVars, kidVars, NextSeed
<1>6. NoStrayKill' /\ FatalOnlyWhenDead'
  BY DEF Inv, TypeOK, Protocol, Answering, NoWord, PidOnly, WholeAnswer, Undisturbed,
      NoStrayKill, FatalOnlyWhenDead, fuzzVars, kidVars, NextSeed
<1> QED
  BY <1>1, <1>2, <1>3, <1>4, <1>5, <1>6 DEF Inv

\* Request preserves the invariant.
LEMMA RequestInv == Inv /\ Request => Inv'
<1> SUFFICES ASSUME Inv, Request PROVE Inv'
  OBVIOUS
<1> USE Words DEF Nothing
<1>1. TypeOK' /\ word' \in Ends \cup {0, SIGKILL, ExecFailed} /\ (cut' => stopSoon')
  <2>1. lastRunTimedOut' \in BOOLEAN /\ failSig' \in BOOLEAN /\ fatal' \in BOOLEAN /\ cut' \in BOOLEAN
    BY Zenon DEF Inv, TypeOK, fuzzVars, kidVars, Request, CutOrFatal, CutShort, Fatal, Judge
  <2>2. word' \in Ends \cup {0, SIGKILL, ExecFailed} /\ (cut' => stopSoon')
    BY DEF Inv, TypeOK, fuzzVars, kidVars, Request, CutOrFatal, CutShort, Fatal, Judge
  <2>3. st' \in Seq(Nat) /\ childPid' \in Int /\ childStatus' \in Int
    BY DEF Inv, TypeOK, fuzzVars, kidVars, Request, CutOrFatal, CutShort, Fatal, Judge
  <2>4. /\ left' \in 0..RunsPerSeed /\ ctl' \in Nat
        /\ verdict' \in {"none", "kept", "rejected", "crash", "timeout", "error"}
    BY RunsAssumption
    DEF Inv, TypeOK, fuzzVars, kidVars, Request, CutOrFatal, CutShort, Fatal, Judge
  <2> QED
    BY <2>1, <2>2, <2>3, <2>4
    DEF Inv, TypeOK, fuzzVars, kidVars, Request, CutOrFatal, CutShort, Fatal, Judge
<1>2. ASSUME ~cut' PROVE Protocol'
  BY <1>2, Written, WordsRead
  DEF Inv, TypeOK, Protocol, Answering, NoWord, PidOnly, WholeAnswer, Undisturbed,
      NoneLeft, fuzzVars, kidVars, Request, CutOrFatal, CutShort, Fatal, Judge
<1>3. ASSUME ~stopSoon' PROVE Undisturbed'
  BY <1>3, EndsAssumption
  DEF Inv, Undisturbed, Protocol, Answering, NoWord, PidOnly, WholeAnswer, NoneLeft,
      ExecFailed, SIGKILL, fuzzVars, kidVars, Request, CutOrFatal, CutShort, Fatal, Judge
<1>4. InStep' /\ NoneLeft'
  BY <1>2
  DEF Inv, TypeOK, Protocol, InStep, NoneLeft, fuzzVars, kidVars, Request, CutOrFatal,
      CutShort, Fatal, Judge
<1>5. JudgedByOwnChild'
  BY <1>2
  DEF Inv, TypeOK, Protocol, JudgedByOwnChild, Answering, NoWord, PidOnly, WholeAnswer,
      Undisturbed, NoneLeft, fuzzVars, kidVars, Request, CutOrFatal, CutShort, Fatal,
      Judge
<1>6. NoStrayKill' /\ FatalOnlyWhenDead'
  BY DEF Inv, TypeOK, Protocol, Answering, NoWord, PidOnly, WholeAnswer, Undisturbed,
      NoStrayKill, FatalOnlyWhenDead, fuzzVars, kidVars, Request, CutOrFatal, CutShort,
      Fatal, Judge
<1> QED
  BY <1>1, <1>2, <1>3, <1>4, <1>5, <1>6 DEF Inv

\* ReadPid preserves the invariant.
LEMMA ReadPidInv == Inv /\ ReadPid => Inv'
<1> SUFFICES ASSUME Inv, ReadPid PROVE Inv'
  OBVIOUS
<1> USE Words DEF Nothing
<1>1. TypeOK' /\ word' \in Ends \cup {0, SIGKILL, ExecFailed} /\ (cut' => stopSoon')
  <2>1. fatal' \in BOOLEAN /\ cut' \in BOOLEAN
    BY Zenon DEF Inv, TypeOK, fuzzVars, kidVars, ReadPid, CutOrFatal, CutShort, Fatal, Judge
  <2>2. word' \in Ends \cup {0, SIGKILL, ExecFailed} /\ (cut' => stopSoon')
    BY DEF Inv, TypeOK, fuzzVars, kidVars, ReadPid, CutOrFatal, CutShort, Fatal, Judge
  <2>3. st' \in Seq(Nat) /\ childPid' \in Int /\ childStatus' \in Int
    BY DEF Inv, TypeOK, fuzzVars, kidVars, ReadPid, CutOrFatal, CutShort, Fatal, Judge
  <2>4. /\ left' \in 0..RunsPerSeed /\ ctl' \in Nat
        /\ verdict' \in {"none", "kept", "rejected", "crash", "timeout", "error"}
    BY RunsAssumption
    DEF Inv, TypeOK, fuzzVars, kidVars, ReadPid, CutOrFatal, CutShort, Fatal, Judge
  <2> QED
    BY <2>1, <2>2, <2>3, <2>4
    DEF Inv, TypeOK, fuzzVars, kidVars, ReadPid, CutOrFatal, CutShort, Fatal, Judge
<1>2. ASSUME ~cut' PROVE Protocol'
  <2>1. Answering /\ fz = "asked" /\ st # <<>> /\ kid \in Nat /\ word \in Nat
    BY <1>2 DEF Inv, TypeOK, Protocol, ReadPid, CutOrFatal, CutShort, Fatal
  <2>2. kid \in Pids /\ (st = <<kid>> \/ st = <<kid, word>>)
    BY <2>1 DEF Answering, NoWord, PidOnly, WholeAnswer
  <2>3. childPid' = kid /\ fz' = "polling"
    BY <2>2, <2>1, WordsRead DEF ReadPid
  <2>4. Answering'
    <3>1. CASE st = <<kid>>
      <4>1. st' = <<>>
        BY <3>1, <2>1, WordsRead DEF ReadPid
      <4>2. st # <<kid, word>>
        BY <3>1, <2>1
      <4> QED
        BY <4>1, <4>2, <2>1, <2>2, <2>3, <3>1
        DEF ReadPid, Answering, NoWord, PidOnly, WholeAnswer, kidVars
    <3>2. CASE st = <<kid, word>>
      <4>1. st' = <<word>>
        BY <3>2, <2>1, WordsRead DEF ReadPid
      <4>2. st # <<kid>>
        BY <3>2, <2>1
      <4> QED
        BY <4>1, <4>2, <2>1, <2>2, <2>3, <3>2
        DEF ReadPid, Answering, NoWord, PidOnly, WholeAnswer, kidVars
    <3> QED
      BY <2>2, <3>1, <3>2
  <2> QED
    BY <1>2, <2>1, <2>2, <2>3, <2>4 DEF Inv, Protocol, ReadPid, kidVars
<1>3. ASSUME ~stopSoon' PROVE Undisturbed'
  BY <1>3, EndsAssumption
  DEF Inv, Undisturbed, Protocol, Answering, NoWord, PidOnly, WholeAnswer, NoneLeft,
      ExecFailed, SIGKILL, fuzzVars, kidVars, ReadPid, CutOrFatal, CutShort, Fatal, Judge
<1>4. InStep' /\ NoneLeft'
  BY <1>2
  DEF Inv, TypeOK, Protocol, InStep, NoneLeft, fuzzVars, kidVars, ReadPid, CutOrFatal,
      CutShort, Fatal, Judge
<1>5. JudgedByOwnChild'
  BY <1>2
  DEF Inv, TypeOK, Protocol, JudgedByOwnChild, Answering, NoWord, PidOnly, WholeAnswer,
      Undisturbed, NoneLeft, fuzzVars, kidVars, ReadPid, CutOrFatal, CutShort, Fatal,
      Judge
<1>6. NoStrayKill' /\ FatalOnlyWhenDead'
  BY DEF Inv, TypeOK, Protocol, Answering, NoWord, PidOnly, WholeAnswer, Undisturbed,
      NoStrayKill, FatalOnlyWhenDead, fuzzVars, kidVars, ReadPid, CutOrFatal, CutShort,
      Fatal, Judge
<1> QED
  BY <1>1, <1>2, <1>3, <1>4, <1>5, <1>6 DEF Inv

\* ReadEof preserves the invariant.
LEMMA ReadEofInv == Inv /\ ReadEof => Inv'
<1> SUFFICES ASSUME Inv, ReadEof PROVE Inv'
  OBVIOUS
<1> USE Words DEF Nothing
<1>1. TypeOK' /\ word' \in Ends \cup {0, SIGKILL, ExecFailed} /\ (cut' => stopSoon')
  <2>1. fatal' \in BOOLEAN /\ cut' \in BOOLEAN
    BY Zenon
    DEF Inv, TypeOK, fuzzVars, kidVars, ReadEof, CutOrFatal, CutShort, Fatal, Judge, Eof
  <2>2. word' \in Ends \cup {0, SIGKILL, ExecFailed} /\ (cut' => stopSoon')
    BY DEF Inv, TypeOK, fuzzVars, kidVars, ReadEof, CutOrFatal, CutShort, Fatal, Judge, Eof
  <2>3. st' \in Seq(Nat) /\ childPid' \in Int /\ childStatus' \in Int
    BY DEF Inv, TypeOK, fuzzVars, kidVars, ReadEof, CutOrFatal, CutShort, Fatal, Judge, Eof
  <2>4. /\ left' \in 0..RunsPerSeed /\ ctl' \in Nat
        /\ verdict' \in {"none", "kept", "rejected", "crash", "timeout", "error"}
    BY RunsAssumption
    DEF Inv, TypeOK, fuzzVars, kidVars, ReadEof, CutOrFatal, CutShort, Fatal, Judge, Eof
  <2> QED
    BY <2>1, <2>2, <2>3, <2>4
    DEF Inv, TypeOK, fuzzVars, kidVars, ReadEof, CutOrFatal, CutShort, Fatal, Judge, Eof
<1>2. ASSUME ~cut' PROVE Protocol'
  BY <1>2, Written, WordsRead
  DEF Inv, TypeOK, Protocol, Answering, NoWord, PidOnly, WholeAnswer, Undisturbed,
      NoneLeft, fuzzVars, kidVars, ReadEof, CutOrFatal, CutShort, Fatal, Judge, Eof
<1>3. ASSUME ~stopSoon' PROVE Undisturbed'
  BY <1>3, EndsAssumption
  DEF Inv, Undisturbed, Protocol, Answering, NoWord, PidOnly, WholeAnswer, NoneLeft,
      ExecFailed, SIGKILL, fuzzVars, kidVars, ReadEof, CutOrFatal, CutShort, Fatal, Judge,
      Eof
<1>4. InStep' /\ NoneLeft'
  BY <1>2
  DEF Inv, TypeOK, Protocol, InStep, NoneLeft, fuzzVars, kidVars, ReadEof, CutOrFatal,
      CutShort, Fatal, Judge, Eof
<1>5. JudgedByOwnChild'
  BY <1>2
  DEF Inv, TypeOK, Protocol, JudgedByOwnChild, Answering, NoWord, PidOnly, WholeAnswer,
      Undisturbed, NoneLeft, fuzzVars, kidVars, ReadEof, CutOrFatal, CutShort, Fatal,
      Judge, Eof
<1>6. NoStrayKill' /\ FatalOnlyWhenDead'
  BY DEF Inv, TypeOK, Protocol, Answering, NoWord, PidOnly, WholeAnswer, Undisturbed,
      NoStrayKill, FatalOnlyWhenDead, fuzzVars, kidVars, ReadEof, CutOrFatal, CutShort,
      Fatal, Judge, Eof
<1> QED
  BY <1>1, <1>2, <1>3, <1>4, <1>5, <1>6 DEF Inv

\* PollReady preserves the invariant.
LEMMA PollReadyInv == Inv /\ PollReady => Inv'
<1> SUFFICES ASSUME Inv, PollReady PROVE Inv'
  OBVIOUS
<1> USE Words DEF Nothing
<1>1. TypeOK' /\ word' \in Ends \cup {0, SIGKILL, ExecFailed} /\ (cut' => stopSoon')
  <2>1. fatal' \in BOOLEAN /\ cut' \in BOOLEAN
    BY Zenon
    DEF Inv, TypeOK, fuzzVars, kidVars, PollReady, CutOrFatal, CutShort, Fatal, Judge,
        Eof, Finish, Outcome
  <2>2. word' \in Ends \cup {0, SIGKILL, ExecFailed} /\ (cut' => stopSoon')
    BY DEF Inv, TypeOK, fuzzVars, kidVars, PollReady, CutOrFatal, CutShort, Fatal, Judge,
        Eof, Finish, Outcome
  <2>3. st' \in Seq(Nat) /\ childPid' \in Int /\ childStatus' \in Int
    <3>1. CASE st # <<>> /\ ~stopSoon /\ Finish
      <4>1. Head(st) \in Nat /\ Tail(st) \in Seq(Nat)
        BY <3>1, HeadTailProperties DEF Inv, TypeOK
      <4> QED
        BY <3>1, <4>1 DEF Inv, TypeOK, Finish
    <3>2. CASE UNCHANGED <<childPid, childStatus, st>>
      BY <3>2 DEF Inv, TypeOK
    <3> QED
      BY <3>1, <3>2 DEF PollReady
  <2>4. /\ left' \in 0..RunsPerSeed /\ ctl' \in Nat
        /\ verdict' \in {"none", "kept", "rejected", "crash", "timeout", "error"}
    BY RunsAssumption
    DEF Inv, TypeOK, fuzzVars, kidVars, PollReady, CutOrFatal, CutShort, Fatal, Judge,
        Eof, Finish, Outcome
  <2> QED
    BY <2>1, <2>2, <2>3, <2>4
    DEF Inv, TypeOK, fuzzVars, kidVars, PollReady, CutOrFatal, CutShort, Fatal, Judge,
        Eof, Finish, Outcome
<1>2. ASSUME ~cut' PROVE Protocol'
  BY <1>2, Written, WordsRead
  DEF Inv, TypeOK, Protocol, Answering, NoWord, PidOnly, WholeAnswer, Undisturbed,
      NoneLeft, fuzzVars, kidVars, PollReady, CutOrFatal, CutShort, Fatal, Judge, Eof,
      Finish, Outcome
<1>3. ASSUME ~stopSoon' PROVE Undisturbed'
  BY <1>3, EndsAssumption
  DEF Inv, Undisturbed, Protocol, Answering, NoWord, PidOnly, WholeAnswer, NoneLeft,
      ExecFailed, SIGKILL, fuzzVars, kidVars, PollReady, CutOrFatal, CutShort, Fatal,
      Judge, Eof, Finish, Outcome
<1>4. InStep' /\ NoneLeft'
  BY <1>2
  DEF Inv, TypeOK, Protocol, InStep, NoneLeft, fuzzVars, kidVars, PollReady, CutOrFatal,
      CutShort, Fatal, Judge, Eof, Finish, Outcome
<1>5. JudgedByOwnChild'
  BY <1>2
  DEF Inv, TypeOK, Protocol, JudgedByOwnChild, Answering, NoWord, PidOnly, WholeAnswer,
      Undisturbed, NoneLeft, fuzzVars, kidVars, PollReady, CutOrFatal, CutShort, Fatal,
      Judge, Eof, Finish, Outcome
<1>6. NoStrayKill' /\ FatalOnlyWhenDead'
  BY DEF Inv, TypeOK, Protocol, Answering, NoWord, PidOnly, WholeAnswer, Undisturbed,
      NoStrayKill, FatalOnlyWhenDead, fuzzVars, kidVars, PollReady, CutOrFatal, CutShort,
      Fatal, Judge, Eof, Finish, Outcome
<1> QED
  BY <1>1, <1>2, <1>3, <1>4, <1>5, <1>6 DEF Inv

\* PollExpires preserves the invariant.
LEMMA PollExpiresInv == Inv /\ PollExpires => Inv'
<1> SUFFICES ASSUME Inv, PollExpires PROVE Inv'
  OBVIOUS
<1> USE Words DEF Nothing
<1>1. TypeOK' /\ word' \in Ends \cup {0, SIGKILL, ExecFailed} /\ (cut' => stopSoon')
  BY RunsAssumption DEF Inv, TypeOK, fuzzVars, kidVars, PollExpires
<1>2. ASSUME ~cut' PROVE Protocol'
  BY <1>2, Written, WordsRead
  DEF Inv, TypeOK, Protocol, Answering, NoWord, PidOnly, WholeAnswer, Undisturbed,
      NoneLeft, fuzzVars, kidVars, PollExpires
<1>3. ASSUME ~stopSoon' PROVE Undisturbed'
  BY <1>3, EndsAssumption
  DEF Inv, Undisturbed, Protocol, Answering, NoWord, PidOnly, WholeAnswer, NoneLeft,
      ExecFailed, SIGKILL, fuzzVars, kidVars, PollExpires
<1>4. InStep' /\ NoneLeft'
  BY <1>2 DEF Inv, TypeOK, Protocol, InStep, NoneLeft, fuzzVars, kidVars, PollExpires
<1>5. JudgedByOwnChild'
  BY <1>2
  DEF Inv, TypeOK, Protocol, JudgedByOwnChild, Answering, NoWord, PidOnly, WholeAnswer,
      Undisturbed, NoneLeft, fuzzVars, kidVars, PollExpires
<1>6. NoStrayKill' /\ FatalOnlyWhenDead'
  BY DEF Inv, TypeOK, Protocol, Answering, NoWord, PidOnly, WholeAnswer, Undisturbed,
      NoStrayKill, FatalOnlyWhenDead, fuzzVars, kidVars, PollExpires
<1> QED
  BY <1>1, <1>2, <1>3, <1>4, <1>5, <1>6 DEF Inv

\* KillExpired preserves the invariant.
LEMMA KillExpiredInv == Inv /\ KillExpired => Inv'
<1> SUFFICES ASSUME Inv, KillExpired PROVE Inv'
  OBVIOUS
<1> USE Words DEF Nothing
<1>1. TypeOK' /\ word' \in Ends \cup {0, SIGKILL, ExecFailed} /\ (cut' => stopSoon')
  <2>1. stray' \subseteq {"other", "reaped"} /\ lastRunTimedOut' \in BOOLEAN
    BY Zenon DEF Inv, TypeOK, fuzzVars, kidVars, KillExpired, KillChild, Amiss
  <2>2. word' \in Ends \cup {0, SIGKILL, ExecFailed} /\ (cut' => stopSoon')
    BY DEF Inv, TypeOK, fuzzVars, kidVars, KillExpired, KillChild, Amiss
  <2>3. st' \in Seq(Nat) /\ childPid' \in Int /\ childStatus' \in Int
    BY DEF Inv, TypeOK, fuzzVars, kidVars, KillExpired, KillChild, Amiss
  <2>4. /\ left' \in 0..RunsPerSeed /\ ctl' \in Nat
        /\ verdict' \in {"none", "kept", "rejected", "crash", "timeout", "error"}
    BY RunsAssumption DEF Inv, TypeOK, fuzzVars, kidVars, KillExpired, KillChild, Amiss
  <2> QED
    BY <2>1, <2>2, <2>3, <2>4 DEF Inv, TypeOK, fuzzVars, kidVars, KillExpired, KillChild, Amiss
<1>2. ASSUME ~cut' PROVE Protocol'
  BY <1>2, Written, WordsRead
  DEF Inv, TypeOK, Protocol, Answering, NoWord, PidOnly, WholeAnswer, Undisturbed,
      NoneLeft, fuzzVars, kidVars, KillExpired, KillChild, Amiss
<1>3. ASSUME ~stopSoon' PROVE Undisturbed'
  BY <1>3, EndsAssumption
  DEF Inv, Undisturbed, Protocol, Answering, NoWord, PidOnly, WholeAnswer, NoneLeft,
      ExecFailed, SIGKILL, fuzzVars, kidVars, KillExpired, KillChild, Amiss
<1>4. InStep' /\ NoneLeft'
  BY <1>2
  DEF Inv, TypeOK, Protocol, InStep, NoneLeft, fuzzVars, kidVars, KillExpired, KillChild, Amiss
<1>5. JudgedByOwnChild'
  BY <1>2
  DEF Inv, TypeOK, Protocol, JudgedByOwnChild, Answering, NoWord, PidOnly, WholeAnswer,
      Undisturbed, NoneLeft, fuzzVars, kidVars, KillExpired, KillChild, Amiss
<1>6. NoStrayKill' /\ FatalOnlyWhenDead'
  BY DEF Inv, TypeOK, Protocol, Answering, NoWord, PidOnly, WholeAnswer, Undisturbed,
      NoStrayKill, FatalOnlyWhenDead, fuzzVars, kidVars, KillExpired, KillChild, Amiss
<1> QED
  BY <1>1, <1>2, <1>3, <1>4, <1>5, <1>6 DEF Inv

\* ReadLate preserves the invariant.
LEMMA ReadLateInv == Inv /\ ReadLate => Inv'
<1> SUFFICES ASSUME Inv, ReadLate PROVE Inv'
  OBVIOUS
<1> USE Words DEF Nothing
<1>1. TypeOK' /\ word' \in Ends \cup {0, SIGKILL, ExecFailed} /\ (cut' => stopSoon')
  BY RunsAssumption DEF Inv, TypeOK, fuzzVars, kidVars, ReadLate, Finish, Outcome, Judge
<1>2. ASSUME ~cut' PROVE Protocol'
  BY <1>2, Written, WordsRead
  DEF Inv, TypeOK, Protocol, Answering, NoWord, PidOnly, WholeAnswer, Undisturbed,
      NoneLeft, fuzzVars, kidVars, ReadLate, Finish, Outcome, Judge
<1>3. ASSUME ~stopSoon' PROVE Undisturbed'
  BY <1>3, EndsAssumption
  DEF Inv, Undisturbed, Protocol, Answering, NoWord, PidOnly, WholeAnswer, NoneLeft,
      ExecFailed, SIGKILL, fuzzVars, kidVars, ReadLate, Finish, Outcome, Judge
<1>4. InStep' /\ NoneLeft'
  BY <1>2
  DEF Inv, TypeOK, Protocol, InStep, NoneLeft, fuzzVars, kidVars, ReadLate, Finish,
      Outcome, Judge
<1>5. JudgedByOwnChild'
  BY <1>2
  DEF Inv, TypeOK, Protocol, JudgedByOwnChild, Answering, NoWord, PidOnly, WholeAnswer,
      Undisturbed, NoneLeft, fuzzVars, kidVars, ReadLate, Finish, Outcome, Judge
<1>6. NoStrayKill' /\ FatalOnlyWhenDead'
  BY DEF Inv, TypeOK, Protocol, Answering, NoWord, PidOnly, WholeAnswer, Undisturbed,
      NoStrayKill, FatalOnlyWhenDead, fuzzVars, kidVars, ReadLate, Finish, Outcome, Judge
<1> QED
  BY <1>1, <1>2, <1>3, <1>4, <1>5, <1>6 DEF Inv

\* AtExit preserves the invariant.
LEMMA AtExitInv == Inv /\ AtExit => Inv'
<1> SUFFICES ASSUME Inv, AtExit PROVE Inv'
  OBVIOUS
<1> USE Words DEF Nothing
<1>1. TypeOK' /\ word' \in Ends \cup {0, SIGKILL, ExecFailed} /\ (cut' => stopSoon')
  <2>1. stray' \subseteq {"other", "reaped"}
    <3>1. stray' = stray \/ stray' = stray \cup Amiss(childPid)
      BY Zenon DEF AtExit
    <3>2. Amiss(childPid) \subseteq {"other", "reaped"}
      BY Zenon DEF Amiss
    <3> QED
      BY <3>1, <3>2 DEF Inv, TypeOK, AtExit, fuzzVars
  <2>2. word' \in Ends \cup {0, SIGKILL, ExecFailed} /\ (cut' => stopSoon')
    BY DEF Inv, TypeOK, fuzzVars, kidVars, AtExit
  <2>3. st' \in Seq(Nat) /\ childPid' \in Int /\ childStatus' \in Int
    BY DEF Inv, TypeOK, fuzzVars, kidVars, AtExit
  <2>4. /\ left' \in 0..RunsPerSeed /\ ctl' \in Nat
        /\ verdict' \in {"none", "kept", "rejected", "crash", "timeout", "error"}
    BY RunsAssumption DEF Inv, TypeOK, fuzzVars, kidVars, AtExit
  <2> QED
    BY <2>1, <2>2, <2>3, <2>4 DEF Inv, TypeOK, fuzzVars, kidVars, AtExit
<1>2. ASSUME ~cut' PROVE Protocol'
  BY <1>2, Written, WordsRead
  DEF Inv, TypeOK, Protocol, Answering, NoWord, PidOnly, WholeAnswer, Undisturbed,
      NoneLeft, fuzzVars, kidVars, AtExit, Amiss
<1>3. ASSUME ~stopSoon' PROVE Undisturbed'
  BY <1>3, EndsAssumption
  DEF Inv, Undisturbed, Protocol, Answering, NoWord, PidOnly, WholeAnswer, NoneLeft,
      ExecFailed, SIGKILL, fuzzVars, kidVars, AtExit
<1>4. InStep' /\ NoneLeft'
  BY <1>2 DEF Inv, TypeOK, Protocol, InStep, NoneLeft, fuzzVars, kidVars, AtExit, Amiss
<1>5. JudgedByOwnChild'
  BY <1>2
  DEF Inv, TypeOK, Protocol, JudgedByOwnChild, Answering, NoWord, PidOnly, WholeAnswer,
      Undisturbed, NoneLeft, fuzzVars, kidVars, AtExit, Amiss
<1>6. NoStrayKill' /\ FatalOnlyWhenDead'
  BY DEF Inv, TypeOK, Protocol, Answering, NoWord, PidOnly, WholeAnswer, Undisturbed,
      NoStrayKill, FatalOnlyWhenDead, fuzzVars, kidVars, AtExit, Amiss
<1> QED
  BY <1>1, <1>2, <1>3, <1>4, <1>5, <1>6 DEF Inv

\* Hello preserves the invariant.
LEMMA HelloInv == Inv /\ Hello => Inv'
<1> SUFFICES ASSUME Inv, Hello PROVE Inv'
  OBVIOUS
<1> USE Words DEF Nothing
<1>1. TypeOK' /\ word' \in Ends \cup {0, SIGKILL, ExecFailed} /\ (cut' => stopSoon')
  BY RunsAssumption DEF Inv, TypeOK, fuzzVars, kidVars, Hello
<1>2. ASSUME ~cut' PROVE Protocol'
  BY <1>2, Written, WordsRead
  DEF Inv, TypeOK, Protocol, Answering, NoWord, PidOnly, WholeAnswer, Undisturbed,
      NoneLeft, fuzzVars, kidVars, Hello
<1>3. ASSUME ~stopSoon' PROVE Undisturbed'
  BY <1>3, EndsAssumption
  DEF Inv, Undisturbed, Protocol, Answering, NoWord, PidOnly, WholeAnswer, NoneLeft,
      ExecFailed, SIGKILL, fuzzVars, kidVars, Hello
<1>4. InStep' /\ NoneLeft'
  BY <1>2 DEF Inv, TypeOK, Protocol, InStep, NoneLeft, fuzzVars, kidVars, Hello
<1>5. JudgedByOwnChild'
  BY <1>2
  DEF Inv, TypeOK, Protocol, JudgedByOwnChild, Answering, NoWord, PidOnly, WholeAnswer,
      Undisturbed, NoneLeft, fuzzVars, kidVars, Hello
<1>6. NoStrayKill' /\ FatalOnlyWhenDead'
  BY DEF Inv, TypeOK, Protocol, Answering, NoWord, PidOnly, WholeAnswer, Undisturbed,
      NoStrayKill, FatalOnlyWhenDead, fuzzVars, kidVars, Hello
<1> QED
  BY <1>1, <1>2, <1>3, <1>4, <1>5, <1>6 DEF Inv

\* Fork preserves the invariant.
LEMMA ForkInv == Inv /\ Fork => Inv'
<1> SUFFICES ASSUME Inv, Fork PROVE Inv'
  OBVIOUS
<1> USE Words DEF Nothing
<1>1. TypeOK' /\ word' \in Ends \cup {0, SIGKILL, ExecFailed} /\ (cut' => stopSoon')
  BY RunsAssumption DEF Inv, TypeOK, fuzzVars, kidVars, Fork
<1>2. ASSUME ~cut' PROVE Protocol'
  BY <1>2, Written, WordsRead
  DEF Inv, TypeOK, Protocol, Answering, NoWord, PidOnly, WholeAnswer, Undisturbed,
      NoneLeft, fuzzVars, kidVars, Fork
<1>3. ASSUME ~stopSoon' PROVE Undisturbed'
  BY <1>3, EndsAssumption
  DEF Inv, TypeOK, Undisturbed, Protocol, Answering, NoWord, PidOnly, WholeAnswer,
      NoneLeft, ExecFailed, SIGKILL, fuzzVars, kidVars, Fork
<1>4. InStep' /\ NoneLeft'
  BY <1>2 DEF Inv, TypeOK, Protocol, InStep, NoneLeft, fuzzVars, kidVars, Fork
<1>5. JudgedByOwnChild'
  BY <1>2
  DEF Inv, TypeOK, Protocol, JudgedByOwnChild, Answering, NoWord, PidOnly, WholeAnswer,
      Undisturbed, NoneLeft, fuzzVars, kidVars, Fork
<1>6. NoStrayKill' /\ FatalOnlyWhenDead'
  BY DEF Inv, TypeOK, Protocol, Answering, NoWord, PidOnly, WholeAnswer, Undisturbed,
      NoStrayKill, FatalOnlyWhenDead, fuzzVars, kidVars, Fork
<1> QED
  BY <1>1, <1>2, <1>3, <1>4, <1>5, <1>6 DEF Inv

\* WritePid preserves the invariant.
LEMMA WritePidInv == Inv /\ WritePid => Inv'
<1> SUFFICES ASSUME Inv, WritePid PROVE Inv'
  OBVIOUS
<1> USE Words DEF Nothing
<1>1. TypeOK' /\ word' \in Ends \cup {0, SIGKILL, ExecFailed} /\ (cut' => stopSoon')
  BY RunsAssumption DEF Inv, TypeOK, fuzzVars, kidVars, WritePid
<1>2. ASSUME ~cut' PROVE Protocol'
  BY <1>2, Written, WordsRead
  DEF Inv, TypeOK, Protocol, Answering, NoWord, PidOnly, WholeAnswer, Undisturbed,
      NoneLeft, fuzzVars, kidVars, WritePid
<1>3. ASSUME ~stopSoon' PROVE Undisturbed'
  BY <1>3, EndsAssumption
  DEF Inv, Undisturbed, Protocol, Answering, NoWord, PidOnly, WholeAnswer, NoneLeft,
      ExecFailed, SIGKILL, fuzzVars, kidVars, WritePid
<1>4. InStep' /\ NoneLeft'
  BY <1>2 DEF Inv, TypeOK, Protocol, InStep, NoneLeft, fuzzVars, kidVars, WritePid
<1>5. JudgedByOwnChild'
  BY <1>2
  DEF Inv, TypeOK, Protocol, JudgedByOwnChild, Answering, NoWord, PidOnly, WholeAnswer,
      Undisturbed, NoneLeft, fuzzVars, kidVars, WritePid
<1>6. NoStrayKill' /\ FatalOnlyWhenDead'
  BY DEF Inv, TypeOK, Protocol, Answering, NoWord, PidOnly, WholeAnswer, Undisturbed,
      NoStrayKill, FatalOnlyWhenDead, fuzzVars, kidVars, WritePid
<1> QED
  BY <1>1, <1>2, <1>3, <1>4, <1>5, <1>6 DEF Inv

\* Reap preserves the invariant.
LEMMA ReapInv == Inv /\ Reap => Inv'
<1> SUFFICES ASSUME Inv, Reap PROVE Inv'
  OBVIOUS
<1> USE Words DEF Nothing
<1>1. TypeOK' /\ word' \in Ends \cup {0, SIGKILL, ExecFailed} /\ (cut' => stopSoon')
  BY RunsAssumption DEF Inv, TypeOK, fuzzVars, kidVars, Reap
<1>2. ASSUME ~cut' PROVE Protocol'
  BY <1>2, Written, WordsRead
  DEF Inv, TypeOK, Protocol, Answering, NoWord, PidOnly, WholeAnswer, Undisturbed,
      NoneLeft, fuzzVars, kidVars, Reap
<1>3. ASSUME ~stopSoon' PROVE Undisturbed'
  BY <1>3, EndsAssumption
  DEF Inv, Undisturbed, Protocol, Answering, NoWord, PidOnly, WholeAnswer, NoneLeft,
      ExecFailed, SIGKILL, fuzzVars, kidVars, Reap
<1>4. InStep' /\ NoneLeft'
  BY <1>2 DEF Inv, TypeOK, Protocol, InStep, NoneLeft, fuzzVars, kidVars, Reap
<1>5. JudgedByOwnChild'
  BY <1>2
  DEF Inv, TypeOK, Protocol, JudgedByOwnChild, Answering, NoWord, PidOnly, WholeAnswer,
      Undisturbed, NoneLeft, fuzzVars, kidVars, Reap
<1>6. NoStrayKill' /\ FatalOnlyWhenDead'
  BY DEF Inv, TypeOK, Protocol, Answering, NoWord, PidOnly, WholeAnswer, Undisturbed,
      NoStrayKill, FatalOnlyWhenDead, fuzzVars, kidVars, Reap
<1> QED
  BY <1>1, <1>2, <1>3, <1>4, <1>5, <1>6 DEF Inv

\* WriteStatus preserves the invariant.
LEMMA WriteStatusInv == Inv /\ WriteStatus => Inv'
<1> SUFFICES ASSUME Inv, WriteStatus PROVE Inv'
  OBVIOUS
<1> USE Words DEF Nothing
<1>1. TypeOK' /\ word' \in Ends \cup {0, SIGKILL, ExecFailed} /\ (cut' => stopSoon')
  BY RunsAssumption DEF Inv, TypeOK, fuzzVars, kidVars, WriteStatus
<1>2. ASSUME ~cut' PROVE Protocol'
  <2>1. /\ Answering /\ fz \in {"asked", "polling", "expired", "timedout"}
        /\ kid \in Nat /\ word \in Nat
    BY <1>2 DEF Inv, TypeOK, Protocol, NoneLeft, WriteStatus, fuzzVars
  <2>2. ctl = 0 /\ PidOnly /\ own = word /\ kid \in Pids /\ life = "none"
    BY <2>1 DEF Answering, WriteStatus
  <2>3. WholeAnswer'
    BY <2>1, <2>2, Written DEF PidOnly, WholeAnswer, WriteStatus, fuzzVars, kidVars
  <2>4. Answering'
    BY <2>2, <2>3 DEF Answering, WriteStatus, kidVars
  <2> QED
    BY <1>2, <2>1, <2>4 DEF Inv, Protocol, WriteStatus, fuzzVars, kidVars
<1>3. ASSUME ~stopSoon' PROVE Undisturbed'
  BY <1>3, EndsAssumption
  DEF Inv, Undisturbed, Protocol, Answering, NoWord, PidOnly, WholeAnswer, NoneLeft,
      ExecFailed, SIGKILL, fuzzVars, kidVars, WriteStatus
<1>4. InStep' /\ NoneLeft'
  BY <1>2 DEF Inv, TypeOK, Protocol, InStep, NoneLeft, fuzzVars, kidVars, WriteStatus
<1>5. JudgedByOwnChild'
  BY <1>2
  DEF Inv, TypeOK, Protocol, JudgedByOwnChild, Answering, NoWord, PidOnly, WholeAnswer,
      Undisturbed, NoneLeft, fuzzVars, kidVars, WriteStatus
<1>6. NoStrayKill' /\ FatalOnlyWhenDead'
  BY DEF Inv, TypeOK, Protocol, Answering, NoWord, PidOnly, WholeAnswer, Undisturbed,
      NoStrayKill, FatalOnlyWhenDead, fuzzVars, kidVars, WriteStatus
<1> QED
  BY <1>1, <1>2, <1>3, <1>4, <1>5, <1>6 DEF Inv

\* Child preserves the invariant.
LEMMA ChildInv == Inv /\ Child => Inv'
<1> SUFFICES ASSUME Inv, Child PROVE Inv'
  OBVIOUS
<1> USE Words DEF Nothing
<1>1. TypeOK' /\ word' \in Ends \cup {0, SIGKILL, ExecFailed} /\ (cut' => stopSoon')
  <2>1. failSig' \in BOOLEAN
    BY Zenon DEF Inv, TypeOK, fuzzVars, kidVars, Child
  <2>2. word' \in Ends \cup {0, SIGKILL, ExecFailed} /\ (cut' => stopSoon')
    BY DEF Inv, TypeOK, fuzzVars, kidVars, Child
  <2>3. st' \in Seq(Nat) /\ childPid' \in Int /\ childStatus' \in Int
    BY DEF Inv, TypeOK, fuzzVars, kidVars, Child
  <2>4. /\ left' \in 0..RunsPerSeed /\ ctl' \in Nat
        /\ verdict' \in {"none", "kept", "rejected", "crash", "timeout", "error"}
    BY RunsAssumption DEF Inv, TypeOK, fuzzVars, kidVars, Child
  <2> QED
    BY <2>1, <2>2, <2>3, <2>4 DEF Inv, TypeOK, fuzzVars, kidVars, Child
<1>2. ASSUME ~cut' PROVE Protocol'
  BY <1>2, Written, WordsRead
  DEF Inv, TypeOK, Protocol, Answering, NoWord, PidOnly, WholeAnswer, Undisturbed,
      NoneLeft, fuzzVars, kidVars, Child
<1>3. ASSUME ~stopSoon' PROVE Undisturbed'
  BY <1>3, EndsAssumption
  DEF Inv, Undisturbed, Protocol, Answering, NoWord, PidOnly, WholeAnswer, NoneLeft,
      ExecFailed, SIGKILL, fuzzVars, kidVars, Child
<1>4. InStep' /\ NoneLeft'
  BY <1>2 DEF Inv, TypeOK, Protocol, InStep, NoneLeft, fuzzVars, kidVars, Child
<1>5. JudgedByOwnChild'
  BY <1>2
  DEF Inv, TypeOK, Protocol, JudgedByOwnChild, Answering, NoWord, PidOnly, WholeAnswer,
      Undisturbed, NoneLeft, fuzzVars, kidVars, Child
<1>6. NoStrayKill' /\ FatalOnlyWhenDead'
  BY DEF Inv, TypeOK, Protocol, Answering, NoWord, PidOnly, WholeAnswer, Undisturbed,
      NoStrayKill, FatalOnlyWhenDead, fuzzVars, kidVars, Child
<1> QED
  BY <1>1, <1>2, <1>3, <1>4, <1>5, <1>6 DEF Inv

\* Every step preserves the invariant.
LEMMA NextInv == Inv /\ [Next]_vars => Inv'
<1> SUFFICES ASSUME Inv, [Next]_vars PROVE Inv'
  OBVIOUS
<1>1. CASE UNCHANGED vars
  BY <1>1 DEF vars, fuzzVars, kidVars, Inv, TypeOK, Protocol, Answering, NoWord, PidOnly,
      WholeAnswer, Undisturbed, InStep, JudgedByOwnChild, NoStrayKill, FatalOnlyWhenDead,
      NoneLeft
<1>2. CASE Fuzzer
  BY <1>2, HandshakeDoneInv, HandshakeFailsInv, NextSeedInv, RequestInv, ReadPidInv,
     ReadEofInv, PollReadyInv, PollExpiresInv, KillExpiredInv, ReadLateInv, AtExitInv
  DEF Fuzzer
<1>3. CASE Server
  BY <1>3, HelloInv, ForkInv, WritePidInv, ReapInv, WriteStatusInv DEF Server
<1> QED
  BY <1>1, <1>2, <1>3, StopInv, ChildInv DEF Next, Done

\* The invariant holds in every reachable state.
LEMMA Invariance == Spec => []Inv
<1> QED
  BY InitInv, NextInv, PTL DEF Spec

\* Type correctness, for all pids, wait statuses and numbers of runs.
THEOREM ServerTypeCorrect == Spec => []TypeOK
<1>1. Inv => TypeOK
  BY DEF Inv
<1> QED
  BY <1>1, Invariance, PTL

\* Both pipes are empty and no child is left when the next test case is written,
\* through every race of a timeout with the answer.
THEOREM InStepCorrect == Spec => []InStep
<1>1. Inv => InStep
  BY DEF Inv
<1> QED
  BY <1>1, Invariance, PTL

\* A graph is judged by how its own child has ended, unless a run was cut short.
THEOREM JudgedCorrect == Spec => []JudgedByOwnChild
<1>1. Inv => JudgedByOwnChild
  BY DEF Inv
<1> QED
  BY <1>1, Invariance, PTL

\* Unless a run was cut short, the pid the fuzzer signals is that of the run whose status
\* it awaits.  Whether the child is still there is not said: see NoReapedPidKilled.
THEOREM KillCorrect == Spec => []NoStrayKill
<1>1. Inv => NoStrayKill
  BY DEF Inv
<1> QED
  BY <1>1, Invariance, PTL

\* The fuzzer gives up only when its server is dead, and leaves nothing running.
THEOREM EndCorrect == Spec => []EndsCleanly
<1>1. Inv => EndsCleanly
  BY DEF Inv, EndsCleanly
<1> QED
  BY <1>1, Invariance, PTL
=============================================================================
