---------------------------- MODULE ApprovalGate ----------------------------
(***************************************************************************)
(* The approval gate in front of the server code and actions of community  *)
(* plugins (packages/approval/src/rpc-approval.ts): requests that wait for *)
(* the player, decisions for the session or for one dispatch, their        *)
(* expiry, the caps of the queue, and revocation. What is allowed without  *)
(* a decision (built-in plugins, trusted sources) does not come here.      *)
(*                                                                         *)
(* One session. Its scope names its incarnation and the plugins it loads,  *)
(* so a call may still carry an earlier one. An approval is looked up      *)
(* under scope, plugin and action.                                         *)
(***************************************************************************)
EXTENDS Integers, FiniteSets

CONSTANTS
  Keys,        \* tripleKey: the <<scope, plugin, action>> calls are made under
  Payloads,
  GrantTTL,    \* ONE_TIME_GRANT_TTL_MS
  StaleTTL,    \* STALE_PENDING_TTL_MS
  PerSession,  \* MAX_PENDING_PER_SESSION
  Global,      \* MAX_PENDING_GLOBAL
  MaxAsks,     \* bound: requests for the player
  LastTime     \* bound: the clock

ASSUME ApprovalAssumption == {GrantTTL, StaleTTL, PerSession, Global, MaxAsks, LastTime} \subseteq Nat

VARIABLES
  pending,      \* requests waiting for the player, as [id, key, payload, at]
  sessionCache, \* keys allowed for the session
  oneTime,      \* oneTimeGrants: key -> [payload, issued]
  gateClock,
  asks,         \* approval ids given out
  answer,       \* outcome of the last evaluation
  consents,     \* history: what the player has allowed and a dispatch may use
  withdrawn     \* history: ids asked for before a revocation of their plugin

gateVars == <<pending, sessionCache, oneTime, gateClock, asks, answer, consents, withdrawn>>

Scope(k) == k[1]
Plugin(k) == k[2]
Plugins == {Plugin(k) : k \in Keys}

Asked == [id : 1..MaxAsks, key : Keys, payload : Payloads, at : 0..LastTime]
NoGrant == [issued |-> -1]
NoAnswer == [verdict |-> "none"]

GateInit ==
  /\ pending = {} /\ sessionCache = {} /\ oneTime = [k \in Keys |-> NoGrant]
  /\ gateClock = 0 /\ asks = 0 /\ answer = NoAnswer
  /\ consents = {} /\ withdrawn = {}

Answer(verdict, k, x) == answer' = [verdict |-> verdict, key |-> k, payload |-> x]

-----------------------------------------------------------------------------
Granted(k) == oneTime[k] # NoGrant
Fresh(k) == gateClock - oneTime[k].issued <= GrantTTL

\* Mutant: a one-time approval serves any payload of its action.
ServesAny(k, x) == Granted(k) /\ Fresh(k)

\* consumeOneTimeIfFresh finds one
Serves(k, x) == Granted(k) /\ Fresh(k) /\ oneTime[k].payload = x

\* The one-time grant of k is gone, used or expired.
Drop(k) == oneTime' = [oneTime EXCEPT ![k] = NoGrant]

\* sweepStalePending
Current == {r \in pending : r.at >= gateClock - StaleTTL}

AskPlayer(k, x) ==
  LET same == {r \in Current : r.key = k /\ r.payload = x}
  IN IF same # {}
     THEN /\ pending' = Current /\ UNCHANGED asks
          /\ Answer("pending", k, x)
     ELSE IF \/ Cardinality(Current) >= Global
             \/ Cardinality({r \in Current : Scope(r.key) = Scope(k)}) >= PerSession
     THEN /\ pending' = Current /\ UNCHANGED asks
          /\ Answer("rejected", k, x)
     ELSE /\ asks < MaxAsks /\ asks' = asks + 1
          /\ pending' = Current \cup {[id |-> asks', key |-> k, payload |-> x, at |-> gateClock]}
          /\ Answer("pending", k, x)

\* evaluate
Evaluate(k, x) ==
  /\ IF k \in sessionCache
     THEN Answer("session-cached", k, x) /\ UNCHANGED <<pending, oneTime, asks, consents>>
     ELSE IF Serves(k, x)
     THEN /\ Answer("one-time-grant", k, x) /\ Drop(k)
          /\ consents' = {c \in consents : ~(c.key = k /\ c.payload = x /\ c.kind = "once")}
          /\ UNCHANGED <<pending, asks>>
     ELSE /\ AskPlayer(k, x)
          /\ IF Granted(k) /\ ~Fresh(k) THEN Drop(k) ELSE UNCHANGED oneTime
          /\ UNCHANGED consents
  /\ UNCHANGED <<sessionCache, gateClock, withdrawn>>

\* decide. For a caller of another scope it changes nothing.
Decide(r, decision) ==
  /\ r \in pending
  /\ pending' = pending \ {r}
  /\ sessionCache' = IF decision = "session" THEN sessionCache \cup {r.key} ELSE sessionCache
  /\ oneTime' = IF decision = "once"
       THEN [oneTime EXCEPT ![r.key] = [payload |-> r.payload, issued |-> gateClock]]
       ELSE oneTime
  /\ consents' = IF decision = "deny" THEN consents
       ELSE consents \cup {[kind |-> decision, key |-> r.key, payload |-> r.payload,
                            id |-> r.id, at |-> gateClock]}
  /\ answer' = NoAnswer
  /\ UNCHANGED <<gateClock, asks, withdrawn>>

\* hasGrant, asked before a plugin's code is imported: it consumes nothing and
\* clears expired grants, up to the one it looks for.
HasGrant(k) ==
  /\ k \notin sessionCache
  /\ \E gone \in SUBSET {h \in Keys : Granted(h) /\ ~Fresh(h)} :
       /\ ~(Granted(k) /\ Fresh(k)) => gone = {h \in Keys : Granted(h) /\ ~Fresh(h)}
       /\ oneTime' = [h \in Keys |-> IF h \in gone THEN NoGrant ELSE oneTime[h]]
  /\ answer' = NoAnswer
  /\ UNCHANGED <<pending, sessionCache, gateClock, asks, consents, withdrawn>>

\* revoke of a plugin, or of the whole session: disable, deletion, new scope.
Revoke(plugins) ==
  /\ sessionCache' = {k \in sessionCache : Plugin(k) \notin plugins}
  /\ oneTime' = [k \in Keys |-> IF Plugin(k) \in plugins THEN NoGrant ELSE oneTime[k]]
  /\ pending' = {r \in pending : Plugin(r.key) \notin plugins}
  /\ withdrawn' = withdrawn \cup {r.id : r \in {r \in pending : Plugin(r.key) \in plugins}}
  /\ consents' = {c \in consents : Plugin(c.key) \notin plugins}
  /\ answer' = NoAnswer
  /\ UNCHANGED <<gateClock, asks>>

GateTick ==
  /\ gateClock < LastTime /\ gateClock' = gateClock + 1
  /\ answer' = NoAnswer
  /\ UNCHANGED <<pending, sessionCache, oneTime, asks, consents, withdrawn>>

GateNext ==
  \/ \E k \in Keys : HasGrant(k) \/ \E x \in Payloads : Evaluate(k, x)
  \/ \E r \in pending, d \in {"deny", "once", "session"} : Decide(r, d)
  \/ \E p \in Plugins : Revoke({p})
  \/ Revoke(Plugins)
  \/ GateTick

GateSpec == GateInit /\ [][GateNext]_gateVars

-----------------------------------------------------------------------------
GateTypeOK ==
  /\ pending \subseteq Asked
  /\ sessionCache \subseteq Keys
  /\ \A k \in Keys : Granted(k) => oneTime[k] \in [payload : Payloads, issued : 0..LastTime]
  /\ gateClock \in 0..LastTime /\ asks \in 0..MaxAsks
  /\ withdrawn \subseteq 1..asks

\* Every call the gate lets through stands on a decision of the player for the
\* same scope and action that no revocation has withdrawn, and whose request
\* was asked after the last one: one for the session, or one for a single
\* dispatch of the same payload, recent and not used before.
AllowedByPlayer ==
  [][answer'.verdict \in {"session-cached", "one-time-grant"} =>
       \E c \in consents :
         /\ c.key = answer'.key /\ c.id \notin withdrawn
         /\ \/ c.kind = "session"
            \/ /\ c.kind = "once" /\ c.payload = answer'.payload
               /\ gateClock - c.at <= GrantTTL]_gateVars
=============================================================================
