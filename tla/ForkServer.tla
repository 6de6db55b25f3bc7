----------------------------- MODULE ForkServer -----------------------------
(***************************************************************************)
(* How the fuzzer runs its target: sgf-forkserver.c and its callers.  The  *)
(* fuzzer asks a faux server, over a control pipe, for a child; the server *)
(* forks it and answers on a status pipe with two words, the pid and,      *)
(* after waitpid, the wait status.  Both words are 32-bit integers and     *)
(* nothing tells one from the other but their order.  The fuzzer's side    *)
(* may time out and kill the child, and a stop signal may arrive anywhere. *)
(***************************************************************************)
EXTENDS Integers, Sequences

CONSTANTS Pids,        \* pids a child may get
          Ends,        \* wait statuses a target ends with by itself
          Rejections,  \* exit codes by which the runtime rejects a graph
          HardKills,   \* whether fsrv_kill_signal is SIGKILL: {FALSE} by default
          RunsPerSeed  \* runs of one fuzz_one call, which does not look at stop_soon

ASSUME PidAssumption == Pids \subseteq Nat \ {0}
ASSUME RunsAssumption == RunsPerSeed \in Nat \ {0}
ASSUME KillAssumption == HardKills \subseteq BOOLEAN

SIGKILL == 9          \* also the wait status of a process it has ended
ExecFailed == 256     \* the wait status of exit(1)
Nothing == -1
ASSUME EndsAssumption ==    \* without WUNTRACED, waitpid reports no stopped child
  Ends \subseteq Nat /\ SIGKILL \notin Ends /\ \A w \in Ends : w % 256 # 127

VARIABLES
  fz,          \* where the fuzzer is
  left,        \* runs left in this call of fuzz_one
  stopSoon,    \* sgf->stop_soon
  childPid, childStatus, lastRunTimedOut,   \* of fsrv
  verdict,     \* what the caller made of the last run
  fatal,       \* the fuzzer has given up with FATAL
  ctl,         \* words in the control pipe
  st,          \* the words in the status pipe
  srv,         \* where the server is
  hardKill,    \* fsrv_kill_signal is SIGKILL; SIGTERM, the default, is handled
  kid, life, word,   \* the last child of the server: its pid, its life, its wait status
  failSig,     \* trace_bits hold EXEC_FAIL_SIG
  own,         \* history: the wait status of the child of the last request
  cut,         \* history: some run returned 0 because of stop_soon
  stray        \* history: what was amiss with the pids a signal was sent to

fuzzVars == <<fz, left, stopSoon, childPid, childStatus, lastRunTimedOut, verdict, fatal, cut>>
kidVars == <<kid, life, word, failSig>>
vars == <<fuzzVars, ctl, st, srv, hardKill, kidVars, own, stray>>

Init ==
  /\ fz = "boot" /\ left = 0 /\ stopSoon = FALSE
  /\ childPid = 0 /\ childStatus = 0 /\ lastRunTimedOut = FALSE
  /\ verdict = "none" /\ fatal = FALSE /\ cut = FALSE
  /\ ctl = 0 /\ st = <<>> /\ srv = "boot" /\ hardKill \in HardKills
  /\ kid = 0 /\ life = "none" /\ word = 0 /\ failSig = FALSE
  /\ own = Nothing /\ stray = {}

-----------------------------------------------------------------------------
(* Signals                                                                 *)
Eof == st = <<>> /\ srv = "dead"

\* Mutant: kill is not called.
KillNobody(p) == UNCHANGED <<kidVars, stray>>

\* "other": the pid is not, or is no more, that of the run whose status is awaited.
\* "reaped": the server, or init in its stead, has collected the child, so that the
\* kernel may have given its pid to any other process.
Amiss(p) ==
  {k \in {"other", "reaped"} : /\ p > 0
                              /\ \/ k = "other" /\ (p # kid \/ fz \notin {"polling", "expired"})
                                 \/ k = "reaped" /\ life # "running"
                                                /\ (life = "none" \/ srv = "dead")}

\* kill(p, SIGKILL): the target ends, a child that was already reaped is no more.
KillChild(p) ==
  /\ IF p = kid /\ life = "running"
       THEN life' = "zombie" /\ word' = SIGKILL
       ELSE UNCHANGED <<life, word>>
  /\ stray' = stray \cup Amiss(p)
  /\ UNCHANGED <<kid, failSig>>

\* afl_states_stop in the signal handler.  The server inherits the handler, in
\* which its own copy of the state names no process, and survives a SIGTERM.
Stop ==
  /\ fz \notin {"leaving", "exited"} /\ stopSoon' = TRUE
  /\ IF childPid > 0 THEN KillChild(childPid) ELSE UNCHANGED <<kidVars, stray>>
  /\ srv' = IF hardKill THEN "dead" ELSE srv
  /\ UNCHANGED <<fz, left, childPid, childStatus, lastRunTimedOut, verdict, fatal, cut,
                 ctl, st, hardKill, own>>

-----------------------------------------------------------------------------
(* afl_fsrv_start: waiting for the server's hello                          *)
Fatal == fz' = "leaving" /\ fatal' = TRUE

HandshakeDone ==
  /\ fz = "boot" /\ st # <<>> /\ ~stopSoon
  /\ st' = Tail(st) /\ fz' = "idle"
  /\ UNCHANGED <<left, stopSoon, childPid, childStatus, lastRunTimedOut, verdict, fatal, cut,
                 ctl, srv, hardKill, kidVars, own, stray>>

\* The wait timed out, was interrupted or met the end of the file.
HandshakeFails ==
  /\ fz = "boot" /\ (st = <<>> \/ stopSoon)
  /\ Fatal /\ srv' = "dead"
  /\ lastRunTimedOut' = (st = <<>> /\ srv # "dead")
  /\ UNCHANGED <<left, stopSoon, childPid, childStatus, verdict, cut, ctl, st, hardKill,
                 kidVars, own, stray>>

-----------------------------------------------------------------------------
(* afl_fsrv_run_target and what skeleton_graph_fuzz_stuff makes of it      *)
Exited(w) == w % 128 = 0
Signaled(w) == w % 128 \notin {0, 127}
Stopped(w) == w % 256 = 127

\* FSRV_RUN_OK, with which every early return is taken for a run.
Judge(w) ==
  IF Exited(w) /\ (w \div 256) \in Rejections THEN "rejected" ELSE "kept"

\* Mutant: the timeout is not looked at.
OutcomeUntimed(w) ==
  IF failSig THEN "error" ELSE IF Signaled(w) THEN "crash" ELSE Judge(w)

Outcome(w) ==
  IF failSig THEN "error"
  ELSE IF lastRunTimedOut THEN "timeout"
  ELSE IF Signaled(w) THEN "crash" ELSE Judge(w)

\* return 0
CutShort ==
  /\ stopSoon /\ fz' = "idle" /\ cut' = TRUE
  /\ verdict' = Judge(childStatus) /\ UNCHANGED fatal

CutOrFatal ==
  \/ CutShort
  \/ ~stopSoon /\ Fatal /\ UNCHANGED <<verdict, cut>>

\* The main loop looks at stop_soon between two calls of fuzz_one only.
NextSeed ==
  /\ fz = "idle" /\ left = 0
  /\ IF stopSoon THEN fz' = "leaving" /\ UNCHANGED left
     ELSE left' = RunsPerSeed /\ UNCHANGED fz
  /\ UNCHANGED <<stopSoon, childPid, childStatus, lastRunTimedOut, verdict, fatal, cut,
                 ctl, st, srv, hardKill, kidVars, own, stray>>

Request ==
  /\ fz = "idle" /\ left > 0 /\ left' = left - 1
  /\ failSig' = FALSE
  /\ IF srv = "dead"
       THEN CutOrFatal /\ UNCHANGED <<lastRunTimedOut, ctl>>
       ELSE /\ ctl' = ctl + 1 /\ lastRunTimedOut' = FALSE /\ fz' = "asked"
            /\ verdict' = "none" /\ UNCHANGED <<fatal, cut>>
  /\ own' = Nothing
  /\ UNCHANGED <<stopSoon, childPid, childStatus, st, srv, hardKill, kid, life, word, stray>>

ReadPid ==
  /\ fz = "asked" /\ st # <<>>
  /\ childPid' = Head(st) /\ st' = Tail(st)
  /\ IF childPid' > 0 THEN fz' = "polling" /\ UNCHANGED <<verdict, fatal, cut>>
     ELSE CutOrFatal
  /\ UNCHANGED <<left, stopSoon, childStatus, lastRunTimedOut, ctl, srv, hardKill, kidVars,
                 own, stray>>

\* The read of the pid, or of the status after a timeout, meets the end of the file.
ReadEof ==
  /\ fz \in {"asked", "timedout"} /\ Eof /\ CutOrFatal
  /\ UNCHANGED <<left, stopSoon, childPid, childStatus, lastRunTimedOut, ctl, st, srv,
                 hardKill, kidVars, own, stray>>

\* The status is here: the end of afl_fsrv_run_target.
Finish ==
  LET w == Head(st) IN
  /\ childStatus' = w /\ st' = Tail(st)
  /\ childPid' = IF Stopped(w) THEN childPid ELSE Nothing
  /\ verdict' = Outcome(w) /\ fz' = "idle"
  /\ UNCHANGED <<left, stopSoon, lastRunTimedOut, fatal, cut, ctl, srv, hardKill, kidVars,
                 own, stray>>

\* read_s32_timed: poll returns because of a word or of the end of the file.
PollReady ==
  /\ fz = "polling"
  /\ \/ st # <<>> /\ ~stopSoon /\ Finish
     \/ /\ (st # <<>> /\ stopSoon) \/ Eof
        /\ CutOrFatal
        /\ UNCHANGED <<left, stopSoon, childPid, childStatus, lastRunTimedOut, ctl, st, srv,
                       hardKill, kidVars, own, stray>>

PollExpires ==
  /\ fz = "polling" /\ st = <<>> /\ srv # "dead"
  /\ childStatus' = Nothing /\ fz' = "expired"
  /\ UNCHANGED <<left, stopSoon, childPid, lastRunTimedOut, verdict, fatal, cut,
                 ctl, st, srv, hardKill, kidVars, own, stray>>

\* By now the child may have ended, and its status may have been written.
KillExpired ==
  /\ fz = "expired" /\ KillChild(childPid) /\ childPid' = Nothing
  /\ lastRunTimedOut' = TRUE /\ fz' = "timedout"
  /\ UNCHANGED <<left, stopSoon, childStatus, verdict, fatal, cut, ctl, st, srv, hardKill, own>>

\* Mutant: the late answer is not read.
ReadNothing ==
  /\ fz = "timedout"
  /\ verdict' = "timeout" /\ fz' = "idle"
  /\ UNCHANGED <<left, stopSoon, childPid, childStatus, lastRunTimedOut, fatal, cut, ctl, st,
                 srv, hardKill, kidVars, own, stray>>

ReadLate == fz = "timedout" /\ st # <<>> /\ Finish

-----------------------------------------------------------------------------
(* Leaving: afl_fsrv_deinit, unless the program ends with FATAL, and at_exit *)

\* Mutant: only the server is killed.
KillServerOnly ==
  /\ fz = "leaving" /\ fz' = "exited" /\ srv' = "dead"
  /\ UNCHANGED <<left, stopSoon, childPid, childStatus, lastRunTimedOut, verdict, fatal, cut,
                 ctl, st, hardKill, kidVars, own, stray>>

\* killpg reaches the server and its child: the server leads a session of its own.
\* SGF_KILL_SIGNAL is not set: the signal is SIGKILL, here and in KillChild.
AtExit ==
  /\ fz = "leaving" /\ fz' = "exited" /\ srv' = "dead"
  /\ life' = IF life = "running" THEN "zombie" ELSE life
  /\ word' = IF life = "running" THEN SIGKILL ELSE word
  /\ stray' = IF fatal THEN stray ELSE stray \cup Amiss(childPid)
  /\ childPid' = IF fatal THEN childPid ELSE Nothing
  /\ UNCHANGED <<left, stopSoon, childStatus, lastRunTimedOut, verdict, fatal, cut, ctl, st,
                 hardKill, kid, failSig, own>>

Fuzzer ==
  \/ HandshakeDone \/ HandshakeFails
  \/ NextSeed \/ Request \/ ReadPid \/ ReadEof
  \/ PollReady \/ PollExpires \/ KillExpired \/ ReadLate
  \/ AtExit

-----------------------------------------------------------------------------
(* The faux server and its child                                           *)
Hello ==
  /\ srv = "boot" /\ srv' = "read" /\ st' = Append(st, 0)
  /\ UNCHANGED <<fuzzVars, ctl, hardKill, kidVars, own, stray>>

Fork ==
  /\ srv = "read" /\ ctl > 0 /\ ctl' = ctl - 1
  /\ \/ \E p \in Pids :
          kid' = p /\ life' = "running" /\ srv' = "forked"
     \/ srv' = "dead" /\ UNCHANGED <<kid, life>>     \* PFATAL
  /\ UNCHANGED <<fuzzVars, st, hardKill, word, failSig, own, stray>>

WritePid ==
  /\ srv = "forked" /\ srv' = "wait" /\ st' = Append(st, kid)
  /\ UNCHANGED <<fuzzVars, ctl, hardKill, kidVars, own, stray>>

Reap ==
  /\ srv = "wait" /\ life = "zombie"
  /\ srv' = "reaped" /\ life' = "none" /\ own' = word
  /\ UNCHANGED <<fuzzVars, ctl, st, hardKill, kid, word, failSig, stray>>

WriteStatus ==
  /\ srv = "reaped" /\ srv' = "read" /\ st' = Append(st, word)
  /\ UNCHANGED <<fuzzVars, ctl, hardKill, kidVars, own, stray>>

Server == Hello \/ Fork \/ WritePid \/ Reap \/ WriteStatus

\* The target ends, or could not be executed; it may also never end.
Child ==
  /\ life = "running" /\ life' = "zombie"
  /\ \/ word' \in Ends /\ UNCHANGED failSig
     \/ word' = ExecFailed /\ failSig' = TRUE
  /\ UNCHANGED <<fuzzVars, ctl, st, srv, hardKill, kid, own, stray>>

Done == fz = "exited" /\ UNCHANGED vars

Next == Fuzzer \/ Stop \/ Server \/ Child \/ Done

\* The processes run and the kernel delivers; targets may hang and nobody has to stop.
Spec == Init /\ [][Next]_vars /\ WF_vars(Fuzzer) /\ WF_vars(Server)

-----------------------------------------------------------------------------
\* Type correctness.
TypeOK ==
  /\ fz \in {"boot", "idle", "asked", "polling", "expired", "timedout", "leaving", "exited"}
  /\ left \in 0..RunsPerSeed
  /\ stopSoon \in BOOLEAN /\ lastRunTimedOut \in BOOLEAN /\ fatal \in BOOLEAN
  /\ hardKill \in BOOLEAN /\ failSig \in BOOLEAN /\ cut \in BOOLEAN
  /\ stray \subseteq {"other", "reaped"}
  /\ childPid \in Int /\ childStatus \in Int /\ own \in Int /\ word \in Nat
  /\ verdict \in {"none", "kept", "rejected", "crash", "timeout", "error"}
  /\ ctl \in Nat /\ st \in Seq(Nat)
  /\ srv \in {"boot", "read", "forked", "wait", "reaped", "dead"}
  /\ kid \in Pids \cup {0} /\ life \in {"none", "running", "zombie"}

\* Unless a stop signal has cut a run short, the next test case is written and the next
\* request made with both pipes empty, no child of an earlier run left, and the server
\* waiting: a timeout that races the answer leaves nothing behind.
InStep ==
  fz = "idle" /\ ~cut =>
    ctl = 0 /\ st = <<>> /\ srv \in {"read", "dead"} /\ (srv = "read" => life = "none")

\* Unless a run was cut short, the caller judges a graph by how its own child has ended,
\* and never takes the fuzzer's SIGKILL for a crash or an answer of the target.
JudgedByOwnChild ==
  verdict \in {"crash", "kept", "rejected"} /\ ~cut =>
    childStatus = own /\ own # SIGKILL

\* Unless a run was cut short, child_pid is signalled only while the fuzzer waits for
\* the status of the run the pid came with: it never holds a word that is not a pid, nor
\* the pid of an earlier run.  The server may have reaped that child meanwhile: no other
\* process is hit only if its pid was not given away in between (NoReapedPidKilled).
NoStrayKill == "other" \in stray => cut

\* The fuzzer gives up only when its server is dead, never because the two sides
\* misunderstand each other.
FatalOnlyWhenDead == fatal => srv = "dead"

\* Whenever the fuzzer has ended, its server and the target have ended too, whatever
\* the signals did and whether or not the server reacts to them.
NoneLeft == fz = "exited" => srv = "dead" /\ life # "running"

\* However the fuzzer ends, it has not given up on a living server and leaves neither
\* server nor target behind.
EndsCleanly == FatalOnlyWhenDead /\ NoneLeft

\* Although a target may hang, every run returns, or ends the program, as long as no
\* run was cut short.
RunsReturn == fz = "asked" ~> (fz \in {"idle", "exited"} \/ cut)

\* As long as the server lives, a graph is judged by how its own child has ended.
JudgedWhileServed ==
  verdict \in {"crash", "kept", "rejected"} /\ srv # "dead" =>
    childStatus = own /\ own # SIGKILL

\* No run cut short, nor anything else, makes child_pid hold a word that is not its pid.
NoStrayKillAlways == "other" \notin stray

\* A pid is never signalled after its child was reaped.
NoReapedPidKilled == "reaped" \notin stray

\* After a stop signal the fuzzer ends.
StopEnds == stopSoon ~> fz = "exited"
=============================================================================
