------------------------------ MODULE Responder ------------------------------
(***************************************************************************)
(* How a receiver answers probes: the budget of every source address       *)
(* (core/discovery/ratelimit.go) and the addresses an answer lists         *)
(* (core/discovery/responder.go).                                          *)
(*                                                                         *)
(* Time is counted in ticks, and tokens in the part of a token that a tick *)
(* adds, Cost of which make one: Cost > 1 gives times between the tokens.  *)
(* Addresses are the number of the configuration of the interfaces they    *)
(* were listed from.                                                       *)
(***************************************************************************)
EXTENDS Integers, FiniteSets, Sequences, Functions

CONSTANTS
  Sources,     \* addresses probes come from
  Burst,       \* answers in a row (AnnouncesPerSecond)
  Cost,        \* ticks that pay for one answer
  Idle,        \* ticks a source is remembered (idleEviction)
  MaxTracked,  \* sources in the table (maxTrackedSources)
  TTL,         \* ticks a list of addresses is good for (candidateTTL)
  MaxClock,    \* bound: ticks
  MaxMoves     \* bound: changes of the interfaces

\* idleEviction is far longer than a bucket takes to fill.
ASSUME ResponderAssumption ==
  /\ {Burst, Cost, MaxTracked, TTL} \subseteq Nat \ {0}
  /\ Idle \in Nat /\ Idle >= Burst * Cost
  /\ MaxClock \in Nat /\ MaxMoves \in Nat

VARIABLES
  clock,   \* the time
  bucket,  \* the table of sources
  moved,   \* when the interfaces have changed
  cached,  \* the list of addresses kept, and when it was made; -1: none
  sent,    \* history: when each source was answered, since the table was last dropped
  answer   \* history: the last answer

responderVars == <<clock, bucket, moved, cached, sent, answer>>

moves == Len(moved)  \* the configuration the interfaces are in

Full == Burst * Cost

ResponderTypeOK ==
  /\ clock \in 0..MaxClock /\ moved \in Seq(0..clock) /\ moves <= MaxMoves
  /\ DOMAIN bucket \subseteq Sources /\ Cardinality(DOMAIN bucket) <= MaxTracked
  /\ \A s \in DOMAIN bucket : bucket[s] \in [tokens: 0..Full, last: 0..clock]
  /\ cached \in [addrs: -1..moves, at: 0..clock]
  /\ sent \in [Sources -> Seq(0..clock)]
  /\ answer \in [addrs: 0..moves, at: 0..clock, listed: BOOLEAN]

ResponderInit ==
  /\ clock = 0 /\ moved = <<>>
  /\ bucket = <<>>
  /\ cached = [addrs |-> -1, at |-> 0]
  /\ sent = [s \in Sources |-> <<>>]
  /\ answer = [addrs |-> 0, at |-> 0, listed |-> TRUE]

Least(a, b) == IF a <= b THEN a ELSE b

Fresh == [tokens |-> Full, last |-> clock]

\* The table that allow finds or makes for a source: a full one is dropped for a new source.
TableFor(s) ==
  IF s \in DOMAIN bucket THEN bucket
  ELSE IF Cardinality(DOMAIN bucket) >= MaxTracked THEN [x \in {s} |-> Fresh]
  ELSE [x \in DOMAIN bucket \union {s} |-> IF x = s THEN Fresh ELSE bucket[x]]

Refilled(b) == Least(Full, b.tokens + (clock - b.last))

\* Mutant of Refuse: the time of the bucket is left alone when there is no token to take.
RefuseKeepsTime(s) ==
  LET table == TableFor(s) IN
  /\ Refilled(table[s]) < Cost
  /\ bucket' = [table EXCEPT ![s].tokens = Refilled(table[s])]
  /\ UNCHANGED <<clock, moved, cached, sent, answer>>

\* limiter.allow, and handle for a probe it refuses: silence, but the source was heard.
Refuse(s) ==
  LET table == TableFor(s) IN
  /\ Refilled(table[s]) < Cost
  /\ bucket' = [table EXCEPT ![s] = [tokens |-> Refilled(table[s]), last |-> clock]]
  /\ UNCHANGED <<clock, moved, cached, sent, answer>>

\* Responder.candidates: the list that is kept while it is recent, a new one, or the one that
\* is kept when the interfaces cannot be listed.
IsRecent == cached.addrs >= 0 /\ clock - cached.at < TTL

Listing(addrs, listed) ==
  \/ IsRecent /\ addrs = cached.addrs /\ listed /\ UNCHANGED cached
  \/ ~IsRecent /\ addrs = moves /\ listed /\ cached' = [addrs |-> moves, at |-> clock]
  \/ ~IsRecent /\ cached.addrs >= 0 /\ addrs = cached.addrs /\ ~listed /\ UNCHANGED cached

\* handle for a probe that is allowed.  The budget is spent before the answer is built, and an
\* answer that cannot be built is not sent.
Announce(s) ==
  LET table == TableFor(s)
      dropped == DOMAIN bucket \ DOMAIN table # {} IN
  /\ Refilled(table[s]) >= Cost
  /\ bucket' = [table EXCEPT ![s] = [tokens |-> Refilled(table[s]) - Cost, last |-> clock]]
  /\ LET log == IF dropped THEN [x \in Sources |-> <<>>] ELSE sent IN
       \/ /\ \E addrs \in 0..moves, listed \in BOOLEAN :
               /\ Listing(addrs, listed)
               /\ answer' = [addrs |-> addrs, at |-> clock, listed |-> listed]
          /\ sent' = [log EXCEPT ![s] = Append(@, clock)]
       \/ cached.addrs < 0 /\ sent' = log /\ UNCHANGED <<cached, answer>>
  /\ UNCHANGED <<clock, moved>>

EvictIdle ==
  /\ bucket' = Restrict(bucket, {s \in DOMAIN bucket : bucket[s].last >= clock - Idle})
  /\ UNCHANGED <<clock, moved, cached, sent, answer>>

Tick == clock < MaxClock /\ clock' = clock + 1 /\ UNCHANGED <<bucket, moved, cached, sent, answer>>

\* A tunnel comes up, or a lease is renewed.
Move ==
  /\ moves < MaxMoves /\ moved' = Append(moved, clock)
  /\ UNCHANGED <<clock, bucket, cached, sent, answer>>

ResponderNext == Tick \/ Move \/ EvictIdle \/ \E s \in Sources : Refuse(s) \/ Announce(s)

ResponderSpec == ResponderInit /\ [][ResponderNext]_responderVars

-----------------------------------------------------------------------------
\* No source is answered more often than its budget allows: over any time, Burst answers and
\* one more for every Cost ticks; forgetting a source that was quiet gives it nothing extra.
\* It holds from one drop of the table to the next: "rebuilding it costs nothing".  And the
\* addresses an answer lists were those of the machine less than TTL before, unless the
\* interfaces could not be listed ("a few seconds of staleness costs nothing").
AnswersAreInBudget ==
  /\ \A s \in Sources : \A i, j \in 1..Len(sent[s]) :
       i <= j => Cost * (j - i + 1) <= Full + (sent[s][j] - sent[s][i])
  /\ answer.listed /\ answer.addrs < moves =>
       answer.at - moved[answer.addrs + 1] < TTL
=============================================================================
