--------------------------- MODULE MCWmmScheduler ---------------------------
(***************************************************************************)
(* Programs and graph sets for model checking WmmScheduler.                *)
(***************************************************************************)
EXTENDS WmmVerdict, TLC

NoOp == [op |-> "fence", ev |-> None, loc |-> None, val |-> 0, cmp |-> 0,
         weak |-> FALSE, child |-> None]
Store(e, l, v) == [NoOp EXCEPT !.op = "store", !.ev = e, !.loc = l, !.val = v]
Load(e, l)     == [NoOp EXCEPT !.op = "load", !.ev = e, !.loc = l]
Rmw(e, l, d)   == [NoOp EXCEPT !.op = "rmw", !.ev = e, !.loc = l, !.val = d]
Cas(e, l, old, new, wk) ==
  [NoOp EXCEPT !.op = "cas", !.ev = e, !.loc = l, !.cmp = old, !.val = new, !.weak = wk]
Fence(e)       == [NoOp EXCEPT !.ev = e]
Create(c)      == [NoOp EXCEPT !.op = "create", !.child = c]
Join(c)        == [NoOp EXCEPT !.op = "join", !.child = c]

\* All graphs over a set of events that eg.c accepts, where types[e] are the
\* node types that event e may carry.
GraphsOver(types) ==
  UNION {
    UNION {
      {[type |-> ty, rf |-> r] :
         r \in [{e \in D : ReadLike(ty[e])} -> {e \in D : WriteLike(ty[e])}]}
      : ty \in {f \in [D -> NodeType] : \A e \in D : f[e] \in types[e]}}
    : D \in (SUBSET DOMAIN types) \ {{}}}

-----------------------------------------------------------------------------
(* Message passing: main initialises x, two threads write and read.        *)
MpProg ==
  [t \in 0..2 |->
     CASE t = 0 -> <<Store(<<0, 1, 1>>, "x", 0), Create(1), Create(2), Join(1), Join(2)>>
       [] t = 1 -> <<Store(<<1, 2, 1>>, "x", 1), Store(<<1, 3, 1>>, "y", 1)>>
       [] t = 2 -> <<Load(<<2, 4, 1>>, "y"), Load(<<2, 5, 1>>, "x")>>]

MpTypes ==
  (<<0, 1, 1>> :> {"WRITE"}) @@ (<<1, 2, 1>> :> {"WRITE"})
  @@ (<<1, 3, 1>> :> {"WRITE", "RMW", "FENCE"}) @@ (<<2, 4, 1>> :> {"READ"})
  @@ (<<2, 5, 1>> :> {"READ", "CAS_FAIL"})

MpEvents == DOMAIN MpTypes
MpGraphs == GraphsOver(MpTypes)
-----------------------------------------------------------------------------
(* Compare-exchange: a strong one, a weak one and an increment of x.       *)
CasProg ==
  [t \in 0..2 |->
     CASE t = 0 -> <<Store(<<0, 1, 1>>, "x", 0), Create(1), Create(2), Join(1), Join(2)>>
       [] t = 1 -> <<Cas(<<1, 2, 1>>, "x", 0, 1, FALSE), Rmw(<<1, 3, 1>>, "x", 3)>>
       [] t = 2 -> <<Cas(<<2, 4, 1>>, "x", 0, 2, TRUE), Fence(<<2, 5, 1>>)>>]

CasTypes ==
  (<<0, 1, 1>> :> {"WRITE"})
  @@ (<<1, 2, 1>> :> {"CAS_SUCCESS", "CAS_FAIL", "RMW", "WRITE"})
  @@ (<<1, 3, 1>> :> {"RMW", "CAS_FAIL"})
  @@ (<<2, 4, 1>> :> {"CAS_SUCCESS", "CAS_FAIL", "READ"})
  @@ (<<2, 5, 1>> :> {"FENCE"})

CasEvents == DOMAIN CasTypes
CasGraphs == {g \in GraphsOver(CasTypes) : <<0, 1, 1>> \in DOMAIN g.type}
-----------------------------------------------------------------------------
(* main joins a thread and then stores what another thread waits for.      *)
JoinProg ==
  [t \in 0..2 |->
     CASE t = 0 -> <<Create(1), Create(2), Join(1), Store(<<0, 1, 1>>, "x", 1), Join(2)>>
       [] t = 1 -> <<Store(<<1, 2, 1>>, "y", 1)>>
       [] t = 2 -> <<Load(<<2, 3, 1>>, "x")>>]

JoinTypes ==
  (<<0, 1, 1>> :> {"WRITE"}) @@ (<<1, 2, 1>> :> {"WRITE"}) @@ (<<2, 3, 1>> :> {"READ"})

JoinEvents == DOMAIN JoinTypes
JoinGraphs == GraphsOver(JoinTypes)
-----------------------------------------------------------------------------
(* main waits for a store of the thread it has yet to create.              *)
OrphanProg ==
  [t \in 0..1 |->
     CASE t = 0 -> <<Load(<<0, 1, 1>>, "x"), Create(1), Join(1)>>
       [] t = 1 -> <<Store(<<1, 2, 1>>, "x", 1)>>]

OrphanTypes == (<<0, 1, 1>> :> {"READ"}) @@ (<<1, 2, 1>> :> {"WRITE"})
OrphanEvents == DOMAIN OrphanTypes
OrphanGraphs == GraphsOver(OrphanTypes)
-----------------------------------------------------------------------------
(* main joins one thread and returns while another waits for its own store. *)
DetachedProg ==
  [t \in 0..2 |->
     CASE t = 0 -> <<Create(1), Create(2), Join(1)>>
       [] t = 1 -> <<Store(<<1, 2, 1>>, "y", 1)>>
       [] t = 2 -> <<Load(<<2, 3, 1>>, "x"), Store(<<2, 4, 1>>, "x", 1)>>]

DetachedTypes ==
  (<<1, 2, 1>> :> {"WRITE"}) @@ (<<2, 3, 1>> :> {"READ"}) @@ (<<2, 4, 1>> :> {"WRITE"})

DetachedEvents == DOMAIN DetachedTypes
DetachedGraphs == {g \in GraphsOver(DetachedTypes) : DOMAIN g.type = DetachedEvents}
-----------------------------------------------------------------------------
(* One thread stores forty times to x, one more than scheduler.c keeps per  *)
(* address; another thread reads the first or the last of these stores.    *)
EvictWrites == {<<1, i, 1>> : i \in 1..40}
EvictRead == <<2, 41, 1>>
EvictEvents == EvictWrites \cup {EvictRead}

EvictProg ==
  [t \in 0..2 |->
     CASE t = 0 -> <<Create(1), Create(2), Join(1), Join(2)>>
       [] t = 1 -> [i \in 1..40 |-> Store(<<1, i, 1>>, "x", i % ValMod)]
       [] t = 2 -> <<Load(EvictRead, "x")>>]

EvictGraphs ==
  {[type |-> [e \in EvictEvents |-> IF e = EvictRead THEN "READ" ELSE "WRITE"],
    rf |-> (EvictRead :> w)] : w \in {<<1, 1, 1>>, <<1, 40, 1>>}}
-----------------------------------------------------------------------------
(* Which programs the theorems about VerdictCorrect and NextEventsComplete  *)
(* speak of: the first two.  Each of the others has a run that refutes one. *)
ASSUME MpAndCasQualify ==
  Prog \in {MpProg, CasProg} => ForkJoin /\ HistorySuffices

ASSUME OthersDoNot ==
  Prog \in {JoinProg, DetachedProg, EvictProg} => ~(ForkJoin /\ HistorySuffices)
=============================================================================
