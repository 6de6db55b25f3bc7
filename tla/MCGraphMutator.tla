--------------------------- MODULE MCGraphMutator ---------------------------
(***************************************************************************)
(* Small programs.  Thread 0 writes the locations, which the seed has, and *)
(* starts the others.                                                      *)
(***************************************************************************)
EXTENDS GraphSoundness

I(type, mode, loc) == [type |-> type, mode |-> mode, loc |-> loc, after |-> {}]
After(i, S) == [i EXCEPT !.after = S]
Campaign(code, seed, feedback, guided) ==
  [code |-> [t \in Threads |-> IF t \in 1..Len(code) THEN code[t] ELSE <<>>],
   seed |-> [t \in Threads |-> IF t = 1 THEN seed ELSE 0],
   feedback |-> feedback, guided |-> guided, listed |-> [t \in Threads |-> {}]]
Listing(cp, S) == [cp EXCEPT !.listed = [t \in Threads |-> IF t \in DOMAIN S THEN S[t] ELSE {}]]

\* Two CAS on x, and a message passed through y.
CasPassing == <<
  <<I("WRITE", "RLX", "x"), I("WRITE", "RLX", "y")>>,
  <<After(I("CAS", "ACQ_REL", "x"), {<<1, 2>>}), I("WRITE", "REL", "y")>>,
  <<After(I("READ", "ACQ", "y"), {<<1, 2>>}), I("CAS", "RLX", "x"), I("READ", "RLX", "x")>>,
  <<After(I("RMW", "REL", "x"), {<<1, 2>>}), I("WRITE", "RLX", "x")>> >>

\* A message passed by fences, with a non-atomic payload.
Fences == <<
  <<I("WRITE", "NON_ATOMIC", "x"), I("WRITE", "RLX", "y")>>,
  <<After(I("WRITE", "NON_ATOMIC", "x"), {<<1, 2>>}), I("FENCE", "REL", NoLocation), I("WRITE", "RLX", "y")>>,
  <<After(I("READ", "RLX", "y"), {<<1, 2>>}), I("FENCE", "ACQ", NoLocation), I("READ", "NON_ATOMIC", "x")>> >>

\* Two RMWs, a non-atomic write and a release write of one location.
RmwChain == <<
  <<I("WRITE", "RLX", "x")>>,
  <<After(I("WRITE", "NON_ATOMIC", "x"), {<<1, 1>>}), I("WRITE", "REL", "x")>>,
  <<After(I("RMW", "ACQ", "x"), {<<1, 1>>})>>,
  <<After(I("READ", "RLX", "x"), {<<1, 1>>}), I("RMW", "RLX", "x")>> >>

\* Thread 1 goes on after it has started thread 2, and joins it.
Join == <<
  <<I("WRITE", "RLX", "x"), I("WRITE", "RLX", "x"), After(I("RMW", "ACQ", "x"), {<<2, 2>>}), I("READ", "RLX", "x")>>,
  <<After(I("READ", "RLX", "x"), {<<1, 1>>}), I("WRITE", "REL", "x")>> >>

\* Thread 1 goes on after it has started thread 2, and reads nothing.
Stray == <<
  <<I("WRITE", "RLX", "x"), I("WRITE", "RLX", "x")>>,
  <<After(I("READ", "RLX", "x"), {<<1, 1>>}), I("READ", "RLX", "x")>> >>

\* Thread 1 joins thread 2 before its last instruction, a read.
JoinLast == <<
  <<I("WRITE", "RLX", "x"), I("WRITE", "RLX", "x"), After(I("READ", "ACQ", "x"), {<<2, 1>>})>>,
  <<After(I("READ", "RLX", "x"), {<<1, 1>>})>> >>

\* Thread 1 joins thread 2, which reads, before its RMW; thread 3 has another one.
ChainJoin == <<
  <<I("WRITE", "RLX", "x"), After(I("RMW", "RLX", "x"), {<<2, 1>>})>>,
  <<After(I("READ", "RLX", "x"), {<<1, 1>>})>>,
  <<After(I("RMW", "RLX", "x"), {<<1, 1>>})>> >>

MCThreads == 1..4
MCLocations == {"x", "y"}
MCCampaigns == {Campaign(CasPassing, 2, TRUE, TRUE),
                Campaign(Fences, 2, FALSE, TRUE),
                Campaign(RmwChain, 1, TRUE, FALSE),
                Campaign(ChainJoin, 1, TRUE, FALSE),
                Campaign(Join, 1, TRUE, FALSE),
                Campaign(Join, 1, TRUE, TRUE),
                Listing(Campaign(Join, 1, TRUE, TRUE), <<{"x", "y"}>>),
                Campaign(Stray, 1, TRUE, TRUE),
                Campaign(JoinLast, 1, FALSE, TRUE),
                Campaign(JoinLast, 1, FALSE, FALSE)}
=============================================================================
