---------------------------- MODULE Services_proofs ----------------------------
(***************************************************************************)
(* The services keep, put together, what each was proved to keep alone:    *)
(* a step of another service leaves the variables of this one as they are. *)
(***************************************************************************)
EXTENDS Services, Sequences, FiniteLemmas, FiniteSetTheorems,
        WellFoundedInduction, TLAPS

(* What goes wrong is decided at the start.                                *)
LEMMA FaultsStay == [Next]_vars => UNCHANGED <<focus, faults, subscribed, currency, document>>
BY DEF Next, vars, WD!DeliveryNext, PA!AddressNext, RF!RefundsNext, HW!WalletNext,
       RL!LimiterNext, RA!RatesNext, ST!SettingsNext, WA!WhatsAppNext, LC!LifecycleNext

---------------------------------------------------------------------------
(* The circuit breaker                                                     *)

CBP == INSTANCE CircuitBreaker_proofs

(* Seen alone, the circuit breaker starts as it does by itself.            *)
LEMMA BreakerStarts == Init => CBP!BreakerInit
BY DEF Init, CB!BreakerInit, CBP!BreakerInit

(* Seen alone, the circuit breaker takes its own steps, or none.           *)
LEMMA BreakerSteps == [Next]_vars => [CBP!BreakerNext]_(CBP!breakerVars)
<1> SUFFICES ASSUME [Next]_vars PROVE CB!BreakerNext \/ UNCHANGED breakerVars
  BY DEF breakerVars, CBP!breakerVars, CB!BreakerNext, CBP!BreakerNext, CB!Execute, CBP!Execute,
         CB!StartCall, CBP!StartCall, CB!StartProbe, CBP!StartProbe, CB!OnSuccess, CBP!OnSuccess,
         CB!OnFailure, CBP!OnFailure, CB!CountedUpTo, CBP!CountedUpTo, CB!CoolDown, CBP!CoolDown,
         CB!Trip, CBP!Trip, CB!Reset, CBP!Reset
<1> QED BY DEF Next, vars, breakerVars

(* In the API process a result opens the circuit breaker only as the last  *)
(* of FailureThreshold failures in a row, and closes it only as the last   *)
(* of SuccessThreshold successes in a row.                                 *)
THEOREM TransitionsEarnedTheorem == Spec => TransitionsEarned
<1>1. Init => CBP!BreakerInit
  BY BreakerStarts
<1>2. [Next]_vars => [CBP!BreakerNext]_(CBP!breakerVars)
  BY BreakerSteps
<1>3. CBP!BreakerConstants
  BY ServicesAssumption DEF CB!BreakerConstants, CBP!BreakerConstants
<1>4. CBP!BreakerSpec => CBP!TransitionsEarned
  BY <1>3, CBP!BreakerTransitionsEarned
<1>5. [CBP!TransitionEarned]_(CBP!breakerVars) => [CB!TransitionEarned]_(CB!breakerVars)
  BY DEF CB!TransitionEarned, CBP!TransitionEarned, CB!breakerVars, CBP!breakerVars
<1> QED BY <1>1, <1>2, <1>4, <1>5, PTL
        DEF Spec, CBP!BreakerSpec, CBP!TransitionsEarned, TransitionsEarned, CB!TransitionsEarned

---------------------------------------------------------------------------
(* Settings                                                                *)

Calls == Updates \cup Getters

(* What a getter answers that finds no copy.                               *)
Row == IF stored = NoDocument THEN ST!Defaults ELSE stored

OneCall ==
    \A c, d \in Calls :
        asking[c].at \notin {"no", "ended"} /\ asking[d].at \notin {"no", "ended"} => c = d

CopyIsRow ==
    (\A c \in Calls : asking[c].at \notin {"del", "set"}) => cached \in {NoDocument, stored}

(* What a call holds was made from the row, and nobody changes that before *)
(* the call does.                                                          *)
HoldsRow ==
    \A c \in Calls :
        /\ asking[c].at = "fill" => stored # NoDocument /\ asking[c].doc = stored
        /\ asking[c].at = "write" => asking[c].doc = ST!Merge(Row, PatchOf[c])
        /\ asking[c].at \in {"del", "set"} => stored # NoDocument /\ asking[c].doc = stored

SettingsSafe ==
    faults = {} => OneCall /\ CopyIsRow /\ HoldsRow /\ applied = Row

OnlyUpdatesWrite == \A c \in Calls : asking[c].at = "write" => c \in Updates

SettingsInv == ST!SettingsTypeOK /\ OnlyUpdatesWrite /\ SettingsSafe

LEMMA DocumentTypes ==
    ASSUME ST!SettingsConstants
    PROVE  /\ ST!Defaults \in ST!Documents
           /\ \A doc \in ST!Documents, c \in Updates : ST!Merge(doc, PatchOf[c]) \in ST!Documents
           /\ NoDocument \notin ST!Documents
BY DEF ST!SettingsConstants, ST!Defaults, ST!Documents, ST!Fields, ST!Merge

LEMMA SettingsStarts == ASSUME ST!SettingsConstants, Init PROVE SettingsInv
BY DocumentTypes
   DEF Init, ST!SettingsInit, SettingsInv, SettingsSafe, ST!SettingsTypeOK, ST!Steps, OneCall,
       CopyIsRow, HoldsRow, OnlyUpdatesWrite, Row, Calls

(* Only the call that takes the step moves.                                *)
OnlyMoves(c, step, doc) ==
    asking' = [asking EXCEPT ![c] = [at |-> step, doc |-> doc]]

LEMMA Moved ==
    ASSUME ST!SettingsTypeOK, NEW c \in Calls, NEW step, NEW doc, OnlyMoves(c, step, doc)
    PROVE  /\ asking'[c].at = step /\ asking'[c].doc = doc
           /\ \A d \in Calls : d # c => asking'[d] = asking[d]
           /\ step \in ST!Steps /\ doc \in ST!Documents =>
                 asking' \in [Calls -> [at : ST!Steps, doc : ST!Documents]]
BY DEF ST!SettingsTypeOK, OnlyMoves, Calls

LEMMA MovesAt ==
    ASSUME ST!SettingsTypeOK, NEW c \in Calls, NEW step, ST!AskingAt(c, step)
    PROVE  OnlyMoves(c, step, asking[c].doc)
<1>1. asking[c] \in [at : ST!Steps, doc : ST!Documents]
  BY DEF ST!SettingsTypeOK, Calls
<1>2. [asking[c] EXCEPT !.at = step] = [at |-> step, doc |-> asking[c].doc]
  BY <1>1
<1> QED BY <1>2 DEF ST!AskingAt, OnlyMoves

LEMMA Answers ==
    ASSUME ST!SettingsConstants, NEW c \in Calls, NEW doc \in ST!Documents, ST!Answered(c, doc)
    PROVE  \E step \in {"ended", "write"}, held \in ST!Documents :
              /\ OnlyMoves(c, step, held)
              /\ step = "write" => c \in Updates /\ held = ST!Merge(doc, PatchOf[c])
<1>1. CASE c \in Getters
  BY <1>1 DEF ST!Answered, ST!Holds, OnlyMoves
<1>2. CASE c \notin Getters
  <2>1. c \in Updates
    BY <1>2 DEF Calls
  <2>2. ST!Merge(doc, PatchOf[c]) \in ST!Documents
    BY <2>1, DocumentTypes
  <2> QED BY <1>2, <2>1, <2>2 DEF ST!Answered, ST!Holds, OnlyMoves
<1> QED BY <1>1, <1>2

(* Whatever goes wrong, settings keep their types.                         *)
LEMMA SettingsKeepTypes ==
    ASSUME ST!SettingsConstants, ST!SettingsTypeOK, OnlyUpdatesWrite, ST!SettingsNext
    PROVE  ST!SettingsTypeOK' /\ OnlyUpdatesWrite'
<1> DEFINE Askings == [Calls -> [at : ST!Steps, doc : ST!Documents]]
           Typed == {a \in Askings : \A c \in Calls : a[c].at = "write" => c \in Updates}
<1> USE DEF ST!SettingsNext
<1>0. /\ asking \in Typed
      /\ stored \in ST!Documents \cup {NoDocument} /\ cached \in ST!Documents \cup {NoDocument}
      /\ expires \in BOOLEAN /\ applied \in ST!Documents
  BY DEF ST!SettingsTypeOK, OnlyUpdatesWrite, Calls
<1>a. ASSUME NEW c \in Calls, NEW step \in ST!Steps, NEW doc \in ST!Documents,
             step = "write" => c \in Updates, OnlyMoves(c, step, doc)
      PROVE  asking' \in Typed
  <2>1. asking' \in Askings /\ asking'[c].at = step
    BY <1>a, Moved
  <2>2. \A d \in Calls : d # c => asking'[d] = asking[d]
    BY <1>a, Moved
  <2> QED BY <2>1, <2>2, <1>0, <1>a
<1> HIDE DEF Typed
<1>1. ASSUME NEW c \in Calls, NEW step \in ST!Steps \ {"write"},
             ST!AskingAt(c, step)
      PROVE  asking' \in Typed
  <2>1. asking[c].doc \in ST!Documents
    BY <1>0 DEF Typed
  <2> QED BY <1>1, <2>1, <1>a, MovesAt
<1>2. ASSUME NEW c \in Calls, NEW doc \in ST!Documents, ST!Answered(c, doc)
      PROVE  asking' \in Typed
  BY <1>2, <1>a, Answers DEF ST!Steps
<1>3. ASSUME NEW c \in Calls, NEW step \in ST!Steps \ {"write"}, NEW doc \in ST!Documents,
             ST!Holds(c, step, doc)
      PROVE  asking' \in Typed
  BY <1>3, <1>a DEF ST!Holds, OnlyMoves
<1>4. ST!Defaults \in ST!Documents
  BY DocumentTypes
<1>5. SUFFICES /\ asking' \in Typed
               /\ stored' \in ST!Documents \cup {NoDocument}
               /\ cached' \in ST!Documents \cup {NoDocument}
               /\ expires' \in BOOLEAN /\ applied' \in ST!Documents
  BY <1>0 DEF ST!SettingsTypeOK, OnlyUpdatesWrite, Calls, Typed
<1>6. {"get", "load", "fill", "del", "set", "ended"} \subseteq ST!Steps \ {"write"}
  BY DEF ST!Steps
<1>7. CASE ST!Expire
  BY <1>7, <1>0 DEF ST!Expire
<1>8. ASSUME NEW c \in Calls,
             \/ ST!Ask(c) \/ ST!GetCached(c) \/ ST!GetThrows(c) \/ ST!LoadDocument(c)
             \/ ST!FillCache(c) \/ ST!Upsert(c) \/ ST!DeleteCached(c) \/ ST!SetCached(c)
             \/ ST!UpdateFails(c)
      PROVE  /\ asking' \in Typed
             /\ stored' \in ST!Documents \cup {NoDocument}
             /\ cached' \in ST!Documents \cup {NoDocument}
             /\ expires' \in BOOLEAN /\ applied' \in ST!Documents
  <2>0. asking[c].doc \in ST!Documents
    BY <1>0 DEF Typed
  <2>1. CASE ST!Ask(c)
    BY <2>1, <1>0, <1>3, <1>4, <1>6 DEF ST!Ask
  <2>2. CASE ST!GetCached(c)
    BY <2>2, <1>0, <1>1, <1>2, <1>6 DEF ST!GetCached
  <2>3. CASE ST!GetThrows(c)
    BY <2>3, <1>0, <1>1, <1>2, <1>4, <1>6 DEF ST!GetThrows
  <2>4. CASE ST!LoadDocument(c)
    BY <2>4, <1>0, <1>2, <1>3, <1>4, <1>6 DEF ST!LoadDocument
  <2>5. CASE ST!FillCache(c)
    BY <2>5, <2>0, <1>0, <1>2, <1>4 DEF ST!FillCache, ST!SetEx
  <2>6. CASE ST!Upsert(c)
    <3>1. c \in Updates
      BY <2>6 DEF ST!Upsert, OnlyUpdatesWrite
    <3>2. ST!Merge(applied, PatchOf[c]) \in ST!Documents
      BY <3>1, <1>0, DocumentTypes
    <3> QED BY <2>6, <2>0, <3>2, <1>0, <1>1, <1>6 DEF ST!Upsert
  <2>7. CASE ST!DeleteCached(c)
    BY <2>7, <1>0, <1>1, <1>6 DEF ST!DeleteCached
  <2>8. CASE ST!SetCached(c)
    BY <2>8, <2>0, <1>0, <1>1, <1>6 DEF ST!SetCached, ST!SetEx
  <2>9. CASE ST!UpdateFails(c)
    BY <2>9, <1>0, <1>1, <1>6 DEF ST!UpdateFails
  <2> QED BY <1>8, <2>1, <2>2, <2>3, <2>4, <2>5, <2>6, <2>7, <2>8, <2>9
<1> QED BY <1>7, <1>8 DEF Calls

Alone(c) == \A d \in Calls : d # c => asking[d].at \in {"no", "ended"}

(* A call alone under way keeps what is safe if it keeps its own part.     *)
LEMMA AloneSafe ==
    ASSUME ST!SettingsTypeOK, NEW c \in Calls, Alone(c), NEW step, NEW doc,
           OnlyMoves(c, step, doc), applied' = Row',
           step \in {"fill", "del", "set"} => stored' # NoDocument /\ doc = stored',
           step = "write" => doc = ST!Merge(Row', PatchOf[c]),
           step \notin {"del", "set"} => cached' \in {NoDocument, stored'}
    PROVE  (OneCall /\ CopyIsRow /\ HoldsRow /\ applied = Row)'
<1>1. /\ asking'[c].at = step /\ asking'[c].doc = doc
      /\ \A d \in Calls : d # c => asking'[d].at \in {"no", "ended"}
  BY Moved DEF Alone
<1>2. OneCall'
  BY <1>1 DEF OneCall
<1>3. CopyIsRow'
  BY <1>1 DEF CopyIsRow
<1>4. HoldsRow'
  BY <1>1 DEF HoldsRow
<1> QED BY <1>2, <1>3, <1>4

LEMMA SettingsStaySafe ==
    ASSUME ST!SettingsConstants, SettingsInv, faults = {}, ST!SettingsNext
    PROVE  (OneCall /\ CopyIsRow /\ HoldsRow /\ applied = Row)'
<1>0. /\ ST!SettingsTypeOK /\ OnlyUpdatesWrite
      /\ OneCall /\ CopyIsRow /\ HoldsRow /\ applied = Row
  BY DEF SettingsInv, SettingsSafe
<1>1. CASE ST!Expire
  BY <1>0, <1>1 DEF ST!Expire, OneCall, CopyIsRow, HoldsRow, Row
<1>2. ASSUME NEW c \in Calls,
             \/ ST!Ask(c) \/ ST!GetCached(c) \/ ST!GetThrows(c) \/ ST!LoadDocument(c)
             \/ ST!FillCache(c) \/ ST!Upsert(c) \/ ST!DeleteCached(c) \/ ST!SetCached(c)
             \/ ST!UpdateFails(c)
      PROVE  (OneCall /\ CopyIsRow /\ HoldsRow /\ applied = Row)'
  <2>0. Alone(c) \/ asking[c].at \in {"no", "ended"}
    BY <1>0 DEF OneCall, Alone
  <2>1. CASE ST!Ask(c)
    <3>1. Alone(c)
      BY <2>1 DEF ST!Ask, Alone, Calls
    <3>2. cached \in {NoDocument, stored}
      BY <1>0, <2>1, <3>1 DEF CopyIsRow, ST!Ask, Alone
    <3>3. OnlyMoves(c, "get", ST!Defaults) /\ UNCHANGED <<stored, cached, applied>>
      BY <2>1 DEF ST!Ask, ST!Holds, OnlyMoves
    <3> QED BY <1>0, <3>1, <3>2, <3>3, AloneSafe DEF Row
  <2>2. CASE asking[c].at = "get"
    <3>1. Alone(c) /\ cached \in {NoDocument, stored}
      BY <1>0, <2>0, <2>2 DEF CopyIsRow, Alone
    <3>2. ST!GetCached(c)
      BY <1>2, <2>2 DEF ST!Ask, ST!GetThrows, ST!LoadDocument, ST!FillCache, ST!Upsert,
                        ST!DeleteCached, ST!SetCached, ST!UpdateFails
    <3>3. UNCHANGED <<stored, cached, applied>>
      BY <3>2 DEF ST!GetCached
    <3>4. CASE cached # NoDocument
      <4>1. cached \in ST!Documents /\ ST!Answered(c, cached) /\ cached = Row
        BY <1>0, <3>1, <3>2, <3>4 DEF ST!GetCached, ST!SettingsTypeOK, Row
      <4>2. PICK step \in {"ended", "write"}, held \in ST!Documents :
               /\ OnlyMoves(c, step, held)
               /\ step = "write" => c \in Updates /\ held = ST!Merge(cached, PatchOf[c])
        BY <4>1, Answers
      <4> QED BY <1>0, <3>1, <3>3, <4>1, <4>2, AloneSafe DEF Row
    <3>5. CASE cached = NoDocument
      <4>1. OnlyMoves(c, "load", asking[c].doc)
        BY <1>0, <3>2, <3>5, MovesAt DEF ST!GetCached
      <4> QED BY <1>0, <3>1, <3>3, <4>1, AloneSafe DEF Row
    <3> QED BY <3>4, <3>5
  <2>3. CASE asking[c].at = "load"
    <3>1. Alone(c) /\ cached \in {NoDocument, stored}
      BY <1>0, <2>0, <2>3 DEF CopyIsRow, Alone
    <3>2. ST!LoadDocument(c)
      BY <1>2, <2>3 DEF ST!Ask, ST!GetCached, ST!GetThrows, ST!FillCache, ST!Upsert,
                        ST!DeleteCached, ST!SetCached, ST!UpdateFails
    <3>3. UNCHANGED <<stored, cached, applied>>
      BY <3>2 DEF ST!LoadDocument
    <3>4. CASE stored # NoDocument /\ ST!Holds(c, "fill", stored)
      BY <1>0, <3>1, <3>3, <3>4, AloneSafe DEF Row, ST!Holds, OnlyMoves
    <3>5. CASE stored = NoDocument /\ ST!Answered(c, ST!Defaults)
      <4>1. PICK step \in {"ended", "write"}, held \in ST!Documents :
               /\ OnlyMoves(c, step, held)
               /\ step = "write" => c \in Updates /\ held = ST!Merge(ST!Defaults, PatchOf[c])
        BY <3>5, Answers, DocumentTypes
      <4> QED BY <1>0, <3>1, <3>3, <3>5, <4>1, AloneSafe DEF Row
    <3> QED BY <3>2, <3>4, <3>5 DEF ST!LoadDocument
  <2>4. CASE asking[c].at = "fill"
    <3>1. Alone(c) /\ stored # NoDocument /\ asking[c].doc = stored
      BY <1>0, <2>0, <2>4 DEF HoldsRow
    <3>2. ST!FillCache(c)
      BY <1>2, <2>4 DEF ST!Ask, ST!GetCached, ST!GetThrows, ST!LoadDocument, ST!Upsert,
                        ST!DeleteCached, ST!SetCached, ST!UpdateFails
    <3>3. UNCHANGED <<stored, applied>> /\ cached' = stored /\ ST!Answered(c, stored)
      BY <3>1, <3>2 DEF ST!FillCache, ST!SetEx
    <3>4. stored \in ST!Documents
      BY <1>0, <3>1 DEF ST!SettingsTypeOK
    <3>5. PICK step \in {"ended", "write"}, held \in ST!Documents :
             /\ OnlyMoves(c, step, held)
             /\ step = "write" => c \in Updates /\ held = ST!Merge(stored, PatchOf[c])
      BY <3>3, <3>4, Answers
    <3> QED BY <1>0, <3>1, <3>3, <3>5, AloneSafe DEF Row
  <2>5. CASE asking[c].at = "write"
    <3>1. Alone(c) /\ c \in Updates /\ asking[c].doc = ST!Merge(Row, PatchOf[c])
      BY <1>0, <2>0, <2>5 DEF HoldsRow, OnlyUpdatesWrite
    <3>2. ST!Upsert(c)
      BY <1>2, <2>5 DEF ST!Ask, ST!GetCached, ST!GetThrows, ST!LoadDocument, ST!FillCache,
                        ST!DeleteCached, ST!SetCached, ST!UpdateFails
    <3>3. asking[c].doc \in ST!Documents /\ NoDocument \notin ST!Documents
      BY <1>0, DocumentTypes DEF ST!SettingsTypeOK, Calls
    <3>4. PICK step \in {"del", "set"} : OnlyMoves(c, step, asking[c].doc)
      BY <1>0, <3>2, MovesAt DEF ST!Upsert
    <3>5. stored' = asking[c].doc /\ applied' = asking[c].doc
      BY <1>0, <3>1, <3>2 DEF ST!Upsert
    <3> QED BY <1>0, <3>1, <3>3, <3>4, <3>5, AloneSafe DEF Row
  <2>6. CASE asking[c].at \in {"del", "set"}
    <3>1. Alone(c) /\ stored # NoDocument /\ asking[c].doc = stored
      BY <1>0, <2>0, <2>6 DEF HoldsRow
    <3>2. ST!DeleteCached(c) \/ ST!SetCached(c)
      BY <1>2, <2>6 DEF ST!Ask, ST!GetCached, ST!GetThrows, ST!LoadDocument, ST!FillCache,
                        ST!Upsert, ST!UpdateFails
    <3>3. CASE ST!DeleteCached(c)
      <4>1. OnlyMoves(c, "set", stored) /\ UNCHANGED <<stored, applied>>
        BY <1>0, <3>1, <3>3, MovesAt DEF ST!DeleteCached
      <4> QED BY <1>0, <3>1, <4>1, AloneSafe DEF Row
    <3>4. CASE ST!SetCached(c)
      <4>1. OnlyMoves(c, "ended", stored) /\ UNCHANGED <<stored, applied>> /\ cached' = stored
        BY <1>0, <3>1, <3>4, MovesAt DEF ST!SetCached, ST!SetEx
      <4> QED BY <1>0, <3>1, <4>1, AloneSafe DEF Row
    <3> QED BY <3>2, <3>3, <3>4
  <2> QED BY <1>2, <2>1, <2>2, <2>3, <2>4, <2>5, <2>6
          DEF ST!GetCached, ST!GetThrows, ST!LoadDocument, ST!FillCache, ST!Upsert,
              ST!DeleteCached, ST!SetCached, ST!UpdateFails
<1> QED BY <1>1, <1>2 DEF ST!SettingsNext, Calls

(* No step of another service touches the settings.                        *)
LEMMA SettingsSteps ==
    [Next]_vars => ST!SettingsNext \/ UNCHANGED <<faults, document, settingsVars>>
BY FaultsStay DEF Next, vars, settingsVars

LEMMA SettingsInvariant == Spec => []SettingsInv
<1>0. ST!SettingsConstants
  BY ServicesAssumption
<1>1. Init => SettingsInv
  BY <1>0, SettingsStarts
<1>2. SettingsInv /\ [Next]_vars => SettingsInv'
  <2> SUFFICES ASSUME SettingsInv, [Next]_vars PROVE SettingsInv'
    OBVIOUS
  <2>1. CASE ST!SettingsNext
    <3>1. faults' = faults
      BY FaultsStay
    <3> QED BY <1>0, <2>1, <3>1, SettingsKeepTypes, SettingsStaySafe DEF SettingsInv, SettingsSafe
  <2>2. CASE UNCHANGED <<faults, document, settingsVars>>
    BY <2>2 DEF settingsVars, SettingsInv, SettingsSafe, ST!SettingsTypeOK, OnlyUpdatesWrite,
                OneCall, CopyIsRow, HoldsRow, Row
  <2> QED BY <2>1, <2>2, SettingsSteps
<1> QED BY <1>1, <1>2, PTL DEF Spec

(* While nothing overlaps and nothing throws, the row of the settings is   *)
(* the defaults with every update written so far merged in.                *)
THEOREM UpdatesKeptTheorem == Spec => []UpdatesKept
<1>1. SettingsInv => UpdatesKept
  BY DEF SettingsInv, SettingsSafe, Row, UpdatesKept, ST!UpdatesKept
<1> QED BY <1>1, SettingsInvariant, PTL

---------------------------------------------------------------------------
(* The rate limiter                                                        *)

(* Members of the window that were let through, unless a request has come  *)
(* for whose window they are too old.                                      *)
Young == {RL!MemberOf(r) : r \in {p \in HttpRequests :
             /\ http[p].at \in {"track", "passed"}
             /\ \A q \in RL!Arrived : http[p].time > http[q].time - Window}}

InWindow == Young \subseteq windowKey

(* The key expired with them: whoever runs the script from now on came so  *)
(* late that they are too old for it, unless it runs late.                 *)
Expired == \A m \in Young : clock >= m.time + WindowTtl

FewYoung == IsFiniteSet(Young) /\ Cardinality(Young) <= RequestLimit

WindowIsFull == IsFiniteSet(windowKey) /\ Cardinality(windowKey) <= RequestLimit

(* Nothing is from the future, and the key outlives its members' windows.  *)
Timely ==
    /\ \A r \in HttpRequests : http[r].time <= clock
    /\ \A m \in windowKey : m.time <= clock /\ m.time + WindowTtl <= windowExpires

YoungKept == ~late => InWindow \/ (Expired /\ FewYoung)

LimiterInv == RL!LimiterTypeOK /\ WindowIsFull /\ Timely /\ YoungKept

HttpSteps == {"no", "burst", "window", "track", "passed", "caught", "refused"}
HttpRecord == [at : HttpSteps, time : RL!Times, burst : BOOLEAN]

LEMMA LimiterStarts == ASSUME RL!LimiterConstants, Init PROVE LimiterInv
<1>1. IsFiniteSet({}) /\ Cardinality({}) = 0
  BY FS_EmptySet
<1>2. /\ clock = 0 /\ windowKey = {} /\ burstKey = {} /\ windowExpires = 0 /\ burstExpires = 0
      /\ http = [r \in HttpRequests |-> [at |-> "no", time |-> 0, burst |-> FALSE]]
      /\ RequestLimit \in Nat /\ Horizon \in Nat
  BY DEF Init, RL!LimiterInit, RL!LimiterConstants
<1>3. late = FALSE
  BY Zenon DEF Init, RL!LimiterInit
<1>4. Young = {} /\ Timely
  BY <1>2 DEF Young, Timely
<1>5. RL!LimiterTypeOK
  <2>1. late \in BOOLEAN
    BY <1>3, Zenon
  <2> QED BY <1>2, <2>1 DEF RL!LimiterTypeOK, RL!Times, RL!Member
<1> QED
  BY <1>1, <1>2, <1>4, <1>5 DEF LimiterInv, WindowIsFull, YoungKept, InWindow

LEMMA SameCardinality == \A S : RL!Cardinality(S) = Cardinality(S)
BY DEF RL!Cardinality, Cardinality

(* A request moves to a step and keeps its time.                           *)
LEMMA HttpMoves ==
    ASSUME RL!LimiterTypeOK, NEW r \in HttpRequests, NEW step \in HttpSteps, RL!HttpAt(r, step)
    PROVE  /\ http' \in [HttpRequests -> HttpRecord]
           /\ http'[r].at = step
           /\ \A q \in HttpRequests : http'[q].time = http[q].time
           /\ \A q \in HttpRequests : q # r => http'[q] = http[q]
<1>1. http \in [HttpRequests -> HttpRecord]
  BY DEF RL!LimiterTypeOK, HttpRecord, HttpSteps
<1>2. [http[r] EXCEPT !.at = step] = [at |-> step, time |-> http[r].time, burst |-> http[r].burst]
  BY <1>1 DEF HttpRecord
<1> QED BY <1>1, <1>2 DEF RL!HttpAt, HttpRecord

(* What the script does to a key.                                          *)
LEMMA Slides ==
    ASSUME RL!LimiterConstants, RL!LimiterTypeOK, NEW r \in HttpRequests,
           NEW key \in SUBSET RL!Member, NEW size \in Nat, NEW limit \in Nat
    PROVE  /\ RL!Slide(key, r, size, limit) \in SUBSET RL!Member
           /\ RL!Remaining(key, http[r].time - size) \in SUBSET key
           /\ \A m \in key : m.time > http[r].time - size => m \in RL!Slide(key, r, size, limit)
           /\ IsFiniteSet(key) /\ Cardinality(key) <= limit =>
                 /\ IsFiniteSet(RL!Slide(key, r, size, limit))
                 /\ Cardinality(RL!Slide(key, r, size, limit)) <= limit
<1> DEFINE remaining == RL!Remaining(key, http[r].time - size)
<1>1. RL!MemberOf(r) \in RL!Member
  BY DEF RL!MemberOf, RL!Member, RL!LimiterTypeOK, RL!LimiterConstants
<1>2. remaining \in SUBSET key /\ \A m \in key : m.time > http[r].time - size => m \in remaining
  BY DEF RL!Remaining
<1>3. RL!Slide(key, r, size, limit) = IF Cardinality(remaining) < limit
                                      THEN remaining \cup {RL!MemberOf(r)}
                                      ELSE remaining
  BY SameCardinality DEF RL!Slide
<1> HIDE DEF remaining
<1>4. ASSUME IsFiniteSet(key), Cardinality(key) <= limit
      PROVE  /\ IsFiniteSet(RL!Slide(key, r, size, limit))
             /\ Cardinality(RL!Slide(key, r, size, limit)) <= limit
  <2>1. IsFiniteSet(remaining) /\ Cardinality(remaining) \in Nat
        /\ Cardinality(remaining) <= Cardinality(key) /\ Cardinality(key) \in Nat
    BY <1>2, <1>4, FS_Subset, FS_CardinalityType
  <2>2. IsFiniteSet(remaining \cup {RL!MemberOf(r)})
        /\ Cardinality(remaining \cup {RL!MemberOf(r)}) <= Cardinality(remaining) + 1
    BY <2>1, FS_AddElement
  <2>3. Cardinality(remaining \cup {RL!MemberOf(r)}) \in Nat
    BY <2>2, FS_CardinalityType
  <2> QED BY <1>3, <1>4, <2>1, <2>2, <2>3
<1>5. RL!Slide(key, r, size, limit) \in SUBSET RL!Member
  BY <1>1, <1>2, <1>3
<1>6. \A m \in key : m.time > http[r].time - size => m \in RL!Slide(key, r, size, limit)
  BY <1>2, <1>3
<1> QED BY <1>2, <1>4, <1>5, <1>6 DEF remaining

LEMMA LimiterKeepsTypes ==
    ASSUME RL!LimiterConstants, RL!LimiterTypeOK, RL!LimiterNext
    PROVE  RL!LimiterTypeOK'
<1>0. /\ http \in [HttpRequests -> HttpRecord] /\ clock \in RL!Times
      /\ windowKey \in SUBSET RL!Member /\ burstKey \in SUBSET RL!Member
      /\ windowExpires \in Nat /\ burstExpires \in Nat /\ RL!Times \subseteq Nat
      /\ Window \in Nat /\ BurstWindow \in Nat /\ RequestLimit \in Nat /\ BurstLimit \in Nat
      /\ WindowTtl \in Nat /\ BurstTtl \in Nat
  BY DEF RL!LimiterTypeOK, HttpRecord, HttpSteps, RL!LimiterConstants, RL!Times
<1>6. late' \in BOOLEAN
  <2>1. late \in BOOLEAN
    BY Zenon DEF RL!LimiterTypeOK
  <2>2. late' = late \/ late' \in BOOLEAN
    BY Zenon DEF RL!LimiterNext, RL!Tick, RL!Arrive, RL!CheckBurst, RL!CheckWindow, RL!TrackBurst,
                 RL!RedisThrows
  <2> QED BY <2>1, <2>2, Zenon
<1>7. windowExpires' \in Nat /\ burstExpires' \in Nat
  <2>1. clock + WindowTtl \in Nat /\ clock + BurstTtl \in Nat
    BY <1>0
  <2>2. /\ windowExpires' \in {windowExpires, 0, clock + WindowTtl}
        /\ burstExpires' \in {burstExpires, 0, clock + BurstTtl}
    BY DEF RL!LimiterNext, RL!Tick, RL!Arrive, RL!CheckBurst, RL!CheckWindow, RL!TrackBurst,
           RL!RedisThrows
  <2> QED BY <1>0, <2>1, <2>2
<1>1. SUFFICES /\ http' \in [HttpRequests -> HttpRecord] /\ clock' \in RL!Times
               /\ windowKey' \in SUBSET RL!Member /\ burstKey' \in SUBSET RL!Member
  BY <1>6, <1>7 DEF RL!LimiterTypeOK, HttpRecord, HttpSteps
<1>2. {"track", "passed", "caught", "refused"} \subseteq HttpSteps
  BY DEF HttpSteps
<1>3. CASE RL!Tick
  BY <1>0, <1>3 DEF RL!Tick, RL!Times, RL!LimiterConstants
<1>4. ASSUME NEW r \in HttpRequests, RL!Arrive(r) \/ RL!CheckBurst(r)
      PROVE  /\ http' \in [HttpRequests -> HttpRecord] /\ clock' \in RL!Times
             /\ windowKey' \in SUBSET RL!Member /\ burstKey' \in SUBSET RL!Member
  <2>1. CASE RL!Arrive(r)
    BY <1>0, <2>1 DEF RL!Arrive, HttpRecord, HttpSteps
  <2>2. CASE RL!CheckBurst(r)
    <3>1. RL!Remaining(burstKey, http[r].time - BurstWindow) \in SUBSET burstKey
      BY DEF RL!Remaining
    <3>2. PICK b \in BOOLEAN : http' = [http EXCEPT ![r].at = "window", ![r].burst = b]
      <4>1. (RL!Cardinality(burstKey') >= BurstLimit) \in BOOLEAN
        OBVIOUS
      <4> QED BY <2>2, <4>1, Zenon DEF RL!CheckBurst
    <3>3. http' \in [HttpRequests -> HttpRecord]
      BY <1>0, <3>2 DEF HttpRecord, HttpSteps
    <3> QED BY <1>0, <2>2, <3>1, <3>3 DEF RL!CheckBurst
  <2> QED BY <1>4, <2>1, <2>2
<1>5. ASSUME NEW r \in HttpRequests, RL!CheckWindow(r) \/ RL!TrackBurst(r) \/ RL!RedisThrows(r)
      PROVE  /\ http' \in [HttpRequests -> HttpRecord] /\ clock' \in RL!Times
             /\ windowKey' \in SUBSET RL!Member /\ burstKey' \in SUBSET RL!Member
  <2>1. \E step \in {"track", "passed", "caught", "refused"} : RL!HttpAt(r, step)
    BY <1>5 DEF RL!CheckWindow, RL!TrackBurst, RL!RedisThrows
  <2>2. http' \in [HttpRequests -> HttpRecord]
    BY <1>2, <2>1, HttpMoves
  <2>3. /\ RL!Slide(windowKey, r, Window, RequestLimit) \in SUBSET RL!Member
        /\ RL!Slide(burstKey, r, BurstWindow, BurstLimit) \in SUBSET RL!Member
    BY <1>0, Slides
  <2> QED BY <1>0, <1>5, <2>2, <2>3 DEF RL!CheckWindow, RL!TrackBurst, RL!RedisThrows
<1> QED BY <1>3, <1>4, <1>5 DEF RL!LimiterNext

(* A request that has come keeps its time, so that only one that is let    *)
(* through becomes young.                                                  *)
LEMMA YoungStays ==
    ASSUME NEW r \in HttpRequests,
           \A q \in RL!Arrived : http'[q].time = http[q].time /\ http'[q].at # "no",
           \A q \in HttpRequests : q # r => http'[q] = http[q]
    PROVE  /\ Young' \subseteq Young \cup {RL!MemberOf(r)'}
           /\ (http'[r].at \in {"track", "passed"} => http[r].at \in {"track", "passed"})
                 => Young' \subseteq Young
<1> DEFINE after == {p \in HttpRequests :
                        /\ http'[p].at \in {"track", "passed"}
                        /\ \A q \in RL!Arrived' : http'[p].time > http'[q].time - Window}
<1>1. Young' = {RL!MemberOf(p)' : p \in after}
  BY DEF Young
<1>2. ASSUME NEW p \in after, http[p].at \in {"track", "passed"}
      PROVE  RL!MemberOf(p)' \in Young
  <2>1. p \in RL!Arrived /\ http'[p].time = http[p].time
    BY <1>2 DEF RL!Arrived
  <2>2. RL!MemberOf(p)' = RL!MemberOf(p)
    BY <2>1 DEF RL!MemberOf
  <2>3. \A q \in RL!Arrived : q \in RL!Arrived' /\ http'[q].time = http[q].time
    BY DEF RL!Arrived
  <2>4. \A q \in RL!Arrived : http[p].time > http[q].time - Window
    BY <2>1, <2>3
  <2> QED BY <1>2, <2>2, <2>4 DEF Young
<1>3. \A p \in after : p = r \/ http[p].at \in {"track", "passed"}
  OBVIOUS
<1>4. ASSUME http'[r].at \in {"track", "passed"} => http[r].at \in {"track", "passed"}
      PROVE  Young' \subseteq Young
  <2>1. \A p \in after : RL!MemberOf(p)' \in Young
    BY <1>2, <1>3, <1>4
  <2> HIDE DEF after
  <2> QED BY <1>1, <2>1
<1>5. Young' \subseteq Young \cup {RL!MemberOf(r)'}
  <2>1. \A p \in after : p = r \/ RL!MemberOf(p)' \in Young
    BY <1>2, <1>3
  <2> HIDE DEF after
  <2> QED BY <1>1, <2>1
<1> QED BY <1>4, <1>5, Zenon

LEMMA FewerYoung ==
    ASSUME YoungKept, Young' \subseteq Young, UNCHANGED <<clock, late, windowKey>>
    PROVE  YoungKept'
<1>1. InWindow => InWindow'
  BY DEF InWindow
<1>2. Expired => Expired'
  BY DEF Expired
<1>3. ASSUME FewYoung, RequestLimit \in Nat PROVE FewYoung'
  <2>1. IsFiniteSet(Young') /\ Cardinality(Young') <= Cardinality(Young)
    BY <1>3, FS_Subset DEF FewYoung
  <2> QED BY <1>3, <2>1, FS_CardinalityType DEF FewYoung
<1>4. RequestLimit \in Nat
  BY ServicesAssumption DEF RL!LimiterConstants
<1> QED BY <1>1, <1>2, <1>3, <1>4, Zenon DEF YoungKept

(* Whoever runs the script in time does not find the key expired with      *)
(* members that are young.                                                 *)
LEMMA InTime ==
    ASSUME RL!LimiterConstants, RL!LimiterTypeOK, YoungKept, NEW r \in HttpRequests,
           http[r].at = "window", ~late, ~(clock - http[r].time > WindowTtl - Window)
    PROVE  InWindow
<1>1. /\ clock \in Nat /\ WindowTtl \in Nat /\ Window \in Nat
      /\ \A p \in HttpRequests : http[p].time \in Nat
  BY DEF RL!LimiterTypeOK, RL!Times, RL!LimiterConstants
<1>2. ASSUME Expired PROVE Young = {}
  <2>1. SUFFICES ASSUME NEW m \in Young PROVE FALSE
    OBVIOUS
  <2>2. PICK p \in HttpRequests :
           m = RL!MemberOf(p) /\ \A q \in RL!Arrived : http[p].time > http[q].time - Window
    BY DEF Young
  <2>3. m.time = http[p].time
    BY <2>2 DEF RL!MemberOf
  <2>4. http[p].time > http[r].time - Window
    BY <2>2 DEF RL!Arrived
  <2>5. clock >= http[p].time + WindowTtl
    BY <1>2, <2>3 DEF Expired
  <2> QED BY <1>1, <2>4, <2>5
<1> QED BY <1>2 DEF YoungKept, InWindow

LEMMA TickSafe ==
    ASSUME RL!LimiterConstants, LimiterInv, RL!Tick
    PROVE  WindowIsFull' /\ Timely' /\ YoungKept'
<1>1. /\ clock' = clock + 1 /\ http' = http /\ clock \in Nat /\ WindowTtl \in Nat
      /\ \/ windowKey' = windowKey /\ windowExpires' = windowExpires
         \/ clock' >= windowExpires /\ windowKey' = {} /\ windowExpires' = 0
      /\ windowExpires \in Nat
      /\ \A p \in HttpRequests : http[p].time \in Nat
      /\ \A m \in windowKey : m.time \in Nat
  <2>1. clock' = clock + 1 /\ http' = http /\ clock \in Nat /\ windowExpires \in Nat
    BY DEF RL!Tick, LimiterInv, RL!LimiterTypeOK, RL!Times
  <2>2. \/ windowKey' = windowKey /\ windowExpires' = windowExpires
        \/ clock' >= windowExpires /\ windowKey' = {} /\ windowExpires' = 0
    BY <2>1 DEF RL!Tick
  <2>3. /\ WindowTtl \in Nat
        /\ \A p \in HttpRequests : http[p].time \in Nat
        /\ \A m \in windowKey : m.time \in Nat
    BY DEF LimiterInv, RL!LimiterTypeOK, RL!Times, RL!Member, RL!LimiterConstants
  <2> QED BY <2>1, <2>2, <2>3
<1>2. Young' = Young /\ late' = late
  BY <1>1 DEF Young, RL!MemberOf, RL!Arrived, RL!Tick
<1>3. WindowIsFull /\ Timely /\ YoungKept
  BY DEF LimiterInv
<1>4. Timely'
  BY <1>1, <1>3 DEF Timely
<1>5. \A m \in Young : m.time \in Nat
  BY <1>1 DEF Young, RL!MemberOf
<1>6. Expired /\ FewYoung => Expired' /\ FewYoung'
  BY <1>1, <1>2, <1>5 DEF Expired, FewYoung
<1>7. CASE windowKey' = windowKey
  BY <1>2, <1>3, <1>4, <1>6, <1>7 DEF WindowIsFull, YoungKept, InWindow
<1>8. CASE clock' >= windowExpires /\ windowKey' = {}
  <2>1. WindowIsFull'
    BY <1>8, FS_EmptySet, ServicesAssumption DEF WindowIsFull, RL!LimiterConstants
  <2>2. ASSUME InWindow PROVE Expired' /\ FewYoung'
    <3>1. \A m \in Young : clock' >= m.time + WindowTtl
      BY <1>1, <1>3, <1>5, <1>8, <2>2 DEF InWindow, Timely
    <3>2. IsFiniteSet(Young) /\ Cardinality(Young) <= Cardinality(windowKey)
      BY <1>3, <2>2, FS_Subset DEF InWindow, WindowIsFull
    <3>3. /\ Cardinality(Young) \in Nat /\ Cardinality(windowKey) \in Nat
          /\ RequestLimit \in Nat /\ Cardinality(windowKey) <= RequestLimit
      BY <1>3, <3>2, FS_CardinalityType DEF WindowIsFull, RL!LimiterConstants
    <3>4. Cardinality(Young) <= RequestLimit
      BY <3>2, <3>3
    <3> QED BY <1>2, <3>1, <3>2, <3>4 DEF Expired, FewYoung
  <2>3. YoungKept'
    BY <1>2, <1>3, <1>6, <2>2, Zenon DEF YoungKept
  <2> QED BY <1>4, <2>1, <2>3
<1> QED BY <1>1, <1>4, <1>7, <1>8

LEMMA LimiterStaysSafe ==
    ASSUME RL!LimiterConstants, LimiterInv, RL!LimiterNext
    PROVE  WindowIsFull' /\ Timely' /\ YoungKept'
<1>0. /\ RL!LimiterTypeOK /\ WindowIsFull /\ Timely
      /\ http \in [HttpRequests -> HttpRecord]
      /\ windowKey \in SUBSET RL!Member
      /\ clock \in Nat /\ windowExpires \in Nat
      /\ Window \in Nat /\ WindowTtl \in Nat /\ RequestLimit \in Nat
  BY DEF LimiterInv, RL!LimiterTypeOK, HttpRecord, HttpSteps, RL!LimiterConstants, RL!Times
<1>a. YoungKept
  BY DEF LimiterInv
<1>1. CASE RL!Tick
  BY <1>1, TickSafe
<1>b. ASSUME NEW r \in HttpRequests, http'[r].at # "no",
             http[r].at # "no" => http'[r].time = http[r].time,
             http'[r].time <= clock,
             \A q \in HttpRequests : q # r => http'[q] = http[q],
             http'[r].at \in {"track", "passed"} => http[r].at \in {"track", "passed"},
             UNCHANGED <<clock, windowKey, windowExpires, late>>
      PROVE  WindowIsFull' /\ Timely' /\ YoungKept'
  <2>1. Young' \subseteq Young
    <3>1. \A q \in RL!Arrived : http'[q].time = http[q].time /\ http'[q].at # "no"
      BY <1>b DEF RL!Arrived
    <3> QED BY <1>b, <3>1, YoungStays
  <2>2. YoungKept'
    BY <1>a, <1>b, <2>1, FewerYoung
  <2> QED BY <1>0, <1>b, <2>2 DEF WindowIsFull, Timely
<1>2. ASSUME NEW r \in HttpRequests, RL!Arrive(r) \/ RL!CheckBurst(r)
      PROVE  WindowIsFull' /\ Timely' /\ YoungKept'
  <2>1. UNCHANGED <<clock, windowKey, windowExpires, late>>
    BY <1>2 DEF RL!Arrive, RL!CheckBurst
  <2>2. /\ http'[r].at \in {"burst", "window"}
        /\ http[r].at # "no" => http'[r].time = http[r].time
        /\ http'[r].time \in {clock, http[r].time}
        /\ \A q \in HttpRequests : q # r => http'[q] = http[q]
    BY <1>0, <1>2 DEF RL!Arrive, RL!CheckBurst, HttpRecord
  <2>3. http'[r].time <= clock
    BY <1>0, <2>2 DEF Timely
  <2>4. /\ http'[r].at # "no"
        /\ http'[r].at \in {"track", "passed"} => http[r].at \in {"track", "passed"}
    BY <2>2
  <2> QED BY <2>1, <2>2, <2>3, <2>4, <1>b
<1>3. ASSUME NEW r \in HttpRequests, RL!CheckWindow(r) \/ RL!TrackBurst(r) \/ RL!RedisThrows(r)
      PROVE  WindowIsFull' /\ Timely' /\ YoungKept'
  <2>1. PICK step \in {"track", "passed", "caught", "refused"} : RL!HttpAt(r, step)
    BY <1>3 DEF RL!CheckWindow, RL!TrackBurst, RL!RedisThrows
  <2>2. step \in HttpSteps
    BY DEF HttpSteps
  <2>3. /\ http[r].at # "no" /\ http'[r].at # "no" /\ http'[r].at = step
        /\ \A q \in HttpRequests : http'[q].time = http[q].time
        /\ \A q \in HttpRequests : q # r => http'[q] = http[q]
        /\ clock' = clock
    BY <1>0, <1>3, <2>1, <2>2, HttpMoves DEF RL!CheckWindow, RL!TrackBurst, RL!RedisThrows
  <2>4. http'[r].time <= clock
    BY <1>0, <2>3 DEF Timely
  <2>5. CASE RL!CheckWindow(r)
    <3>1. WindowIsFull'
      BY <1>0, <2>5, Slides DEF RL!CheckWindow, WindowIsFull
    <3>2. \A m \in windowKey : m.time > http[r].time - Window => m \in windowKey'
      BY <1>0, <2>5, Slides DEF RL!CheckWindow
    <3>3. http'[r].at \in {"track", "passed"} => RL!MemberOf(r) \in windowKey'
      <4>1. http'[r].at \in {"track", "passed"} =>
               RL!Cardinality(RL!Remaining(windowKey, http[r].time - Window)) < RequestLimit
        BY <2>3, <2>5, <1>0, HttpMoves DEF RL!CheckWindow, HttpSteps
      <4> QED BY <2>5, <4>1 DEF RL!CheckWindow, RL!Slide
    <3>4. windowExpires' = clock + WindowTtl
      BY <2>5 DEF RL!CheckWindow
    <3>5. \A m \in windowKey' : m \in windowKey \/ m = RL!MemberOf(r)
      BY <2>5 DEF RL!CheckWindow, RL!Slide, RL!Remaining
    <3>6. \A m \in windowKey' : m.time \in Nat /\ m.time <= clock
      <4>1. RL!MemberOf(r).time = http[r].time /\ http[r].time \in Nat
        BY <1>0 DEF RL!MemberOf, HttpRecord, RL!Times
      <4>2. \A m \in windowKey : m.time \in Nat
        BY <1>0 DEF RL!Member, RL!Times
      <4> QED BY <1>0, <3>5, <4>1, <4>2 DEF Timely
    <3>7. Timely'
      BY <1>0, <2>3, <3>4, <3>6 DEF Timely
    <3>8. ASSUME ~late' PROVE InWindow'
      <4>1. ~late /\ ~(clock - http[r].time > WindowTtl - Window) /\ http[r].at = "window"
        BY <2>5, <3>8, Zenon DEF RL!CheckWindow
      <4>2. InWindow
        BY <1>0, <1>a, <4>1, InTime
      <4>3. /\ Young' \subseteq Young \cup {RL!MemberOf(r)'}
            /\ http'[r].at \notin {"track", "passed"} => Young' \subseteq Young
        <5>1. \A q \in RL!Arrived : http'[q].time = http[q].time /\ http'[q].at # "no"
          BY <2>3 DEF RL!Arrived
        <5> QED BY <2>3, <5>1, YoungStays
      <4>4. RL!MemberOf(r)' = RL!MemberOf(r)
        BY <2>3 DEF RL!MemberOf
      <4>5. \A m \in Young : m.time > http[r].time - Window
        BY <2>3 DEF Young, RL!Arrived, RL!MemberOf
      <4>6. Young \subseteq windowKey'
        BY <3>2, <4>2, <4>5 DEF InWindow
      <4>7. CASE http'[r].at \in {"track", "passed"}
        BY <3>3, <4>3, <4>4, <4>6, <4>7 DEF InWindow
      <4>8. CASE http'[r].at \notin {"track", "passed"}
        BY <4>3, <4>6, <4>8 DEF InWindow
      <4> QED BY <4>7, <4>8
    <3>9. YoungKept'
      BY <3>8, Zenon DEF YoungKept
    <3> QED BY <3>1, <3>7, <3>9
  <2>6. CASE RL!TrackBurst(r)
    <3>1. http[r].at \in {"track", "passed"} /\ UNCHANGED <<clock, windowKey, windowExpires, late>>
      BY <2>6 DEF RL!TrackBurst
    <3> QED BY <2>3, <2>4, <3>1, <1>b
  <2>7. CASE RL!RedisThrows(r)
    <3>1. http'[r].at \in {"caught", "refused"}
      BY <1>0, <2>7, HttpMoves DEF RL!RedisThrows, HttpSteps
    <3>2. UNCHANGED <<clock, windowKey, windowExpires, late>>
      BY <2>7 DEF RL!RedisThrows
    <3>3. http'[r].at \in {"track", "passed"} => http[r].at \in {"track", "passed"}
      BY <3>1
    <3> QED BY <2>3, <2>4, <3>2, <3>3, <1>b
  <2> QED BY <1>3, <2>5, <2>6, <2>7
<1> QED BY <1>1, <1>2, <1>3 DEF RL!LimiterNext

LEMMA LimiterSteps == [Next]_vars => RL!LimiterNext \/ UNCHANGED <<faults, limiterVars>>
BY FaultsStay DEF Next, vars, limiterVars

LEMMA LimiterInvariant == Spec => []LimiterInv
<1>0. RL!LimiterConstants
  BY ServicesAssumption
<1>1. Init => LimiterInv
  BY <1>0, LimiterStarts
<1>2. LimiterInv /\ [Next]_vars => LimiterInv'
  <2> SUFFICES ASSUME LimiterInv, [Next]_vars PROVE LimiterInv'
    OBVIOUS
  <2>1. CASE RL!LimiterNext
    <3>1. RL!LimiterTypeOK'
      BY <1>0, <2>1, LimiterKeepsTypes DEF LimiterInv
    <3> QED BY <1>0, <2>1, <3>1, LimiterStaysSafe DEF LimiterInv
  <2>2. CASE UNCHANGED <<faults, limiterVars>>
    <3>1. UNCHANGED <<clock, windowKey, burstKey, windowExpires, burstExpires, http, late>>
      BY <2>2 DEF limiterVars
    <3>2. Young' = Young
      BY <3>1 DEF Young, RL!Arrived, RL!MemberOf
    <3>3. RL!LimiterTypeOK' /\ WindowIsFull' /\ Timely'
      BY <3>1 DEF LimiterInv, RL!LimiterTypeOK, WindowIsFull, Timely
    <3>4. YoungKept'
      BY <3>1, <3>2 DEF LimiterInv, YoungKept, InWindow, Expired, FewYoung
    <3> QED BY <3>3, <3>4 DEF LimiterInv
  <2> QED BY <2>1, <2>2, LimiterSteps
<1> QED BY <1>1, <1>2, PTL DEF Spec

(* In whatever order the scripts run and whatever Redis throws, no more    *)
(* than RequestLimit requests pass in the window that ends with the latest *)
(* one to come, while none runs its script later than the key outlives the *)
(* window: those that pass are members of a set that is never fuller, or   *)
(* were when it expired, and nobody who still counts runs after that.      *)
THEOREM LimitTheorem == Spec => []LimitHolds
<1>1. LimiterInv => LimitHolds
  <2> SUFFICES ASSUME LimiterInv, ~late, NEW last \in RL!Arrived,
                      \A r \in RL!Arrived : http[r].time <= http[last].time
               PROVE  RL!Cardinality({RL!MemberOf(r) : r \in {q \in RL!Passed :
                          http[q].time > http[last].time - Window}}) <= RequestLimit
    BY DEF LimitHolds, RL!LimitHolds
  <2> DEFINE recent == {q \in RL!Passed : http[q].time > http[last].time - Window}
             members == {RL!MemberOf(r) : r \in recent}
  <2>0. /\ \A r \in HttpRequests : http[r].time \in Nat
        /\ Window \in Nat /\ RequestLimit \in Nat /\ last \in HttpRequests
    BY ServicesAssumption
       DEF LimiterInv, RL!LimiterTypeOK, RL!Times, RL!LimiterConstants, RL!Arrived
  <2>1. ASSUME NEW r \in recent PROVE RL!MemberOf(r) \in Young
    <3>1. r \in HttpRequests /\ http[r].at = "passed" /\ http[r].time > http[last].time - Window
      BY DEF RL!Passed
    <3>2. \A q \in RL!Arrived : q \in HttpRequests
      BY DEF RL!Arrived
    <3>3. \A q \in RL!Arrived : http[r].time > http[q].time - Window
      BY <2>0, <3>1, <3>2
    <3> QED BY <3>1, <3>3 DEF Young
  <2>2. members \subseteq Young
    BY <2>1
  <2> HIDE DEF members
  <2>3. IsFiniteSet(Young) /\ Cardinality(Young) <= RequestLimit
    <3>1. CASE InWindow
      <4>1. /\ IsFiniteSet(Young) /\ Cardinality(Young) <= Cardinality(windowKey)
            /\ Cardinality(windowKey) \in Nat /\ Cardinality(windowKey) <= RequestLimit
        BY <3>1, FS_Subset, FS_CardinalityType DEF LimiterInv, WindowIsFull, InWindow
      <4> QED BY <2>0, <4>1, FS_CardinalityType
    <3>2. CASE FewYoung
      BY <3>2 DEF FewYoung
    <3>3. InWindow \/ FewYoung
      BY Zenon DEF LimiterInv, YoungKept
    <3> QED BY <3>1, <3>2, <3>3
  <2>4. Cardinality(members) <= Cardinality(Young) /\ Cardinality(members) \in Nat
        /\ Cardinality(Young) \in Nat
    BY <2>2, <2>3, FS_Subset, FS_CardinalityType
  <2>5. RL!Cardinality(members) <= RequestLimit
    BY <2>0, <2>3, <2>4, SameCardinality
  <2> QED BY <2>5 DEF members
<1> QED BY <1>1, LimiterInvariant, PTL

---------------------------------------------------------------------------
(* Webhook delivery                                                        *)

Underway == {"send", "record", "log", "failed", "timer", "count", "check", "disable"}

QueueWaits ==
    /\ \A j, k \in 1..Len(deliveryQueue) : deliveryQueue[j] = deliveryQueue[k] => j = k
    /\ \A j \in 1..Len(deliveryQueue) : delivery[deliveryQueue[j]].at = "queued"

(* An item begins once: dispatch() has found it and not queued it yet.     *)
BeginsOnce ==
    \A e \in Events, w \in Webhooks :
        w \in toPush[e] \/ dispatched[e] = "no" => delivery[<<e, w>>].at = "none"

(* An item is given up at its last attempt.                                *)
AttemptsCounted ==
    \A i \in WD!Items :
        /\ delivery[i].at = "timer" => delivery[i].attempt < MaxRetries - 1
        /\ delivery[i].at \in {"count", "check", "disable", "exhausted"} =>
              delivery[i].attempt = MaxRetries - 1

Began(w) == {e \in Events : delivery[<<e, w>>].at # "none"}
FinitelyBegun == \A w \in Webhooks : IsFiniteSet(Began(w))

QueueInv ==
    WD!DeliveryTypeOK /\ QueueWaits /\ BeginsOnce /\ AttemptsCounted /\ FinitelyBegun

(* What the webhook is blamed for has happened, and stays so.              *)
FailuresExhausted ==
    \A w \in Webhooks : webhookFailures[w] <= Cardinality(WD!Exhausted(w))
DisablingEarned ==
    \A i \in WD!Items :
        delivery[i].at = "disable" => Cardinality(WD!Exhausted(i[2])) >= DisableAt

DeliveryInv == QueueInv /\ FailuresExhausted /\ DisablingEarned

DeliveryRecord ==
    [at : WD!DeliverySteps, attempt : 0..MaxRetries - 1, by : Events \cup {WD!Timer}]
DispatchSteps == {"no", "push", "pop", "busy", "more", "ended"}

LEMMA DeliveryStarts == ASSUME WD!DeliveryConstants, Init PROVE DeliveryInv
<1> USE DEF Init, WD!DeliveryInit, WD!DeliveryConstants
<1>1. IsFiniteSet({}) /\ Cardinality({}) = 0
  BY FS_EmptySet
<1>2. \A w \in Webhooks : Began(w) = {} /\ WD!Exhausted(w) = {}
  BY DEF Began, WD!Exhausted, WD!Items
<1>3. WD!DeliveryTypeOK
  BY DEF WD!DeliveryTypeOK, WD!DeliverySteps, WD!Items
<1>4. QueueWaits /\ BeginsOnce /\ AttemptsCounted
  BY DEF QueueWaits, BeginsOnce, AttemptsCounted, WD!Items
<1>5. FinitelyBegun
  BY <1>1, <1>2 DEF FinitelyBegun
<1>6. FailuresExhausted
  <2> SUFFICES ASSUME NEW w \in Webhooks
               PROVE  webhookFailures[w] <= Cardinality(WD!Exhausted(w))
    BY DEF FailuresExhausted
  <2>1. webhookFailures[w] = 0
    OBVIOUS
  <2>2. WD!Exhausted(w) = {}
    BY <1>2
  <2> QED BY <1>1, <2>1, <2>2
<1>7. DisablingEarned
  BY DEF DisablingEarned, WD!Items
<1> QED BY <1>3, <1>4, <1>5, <1>6, <1>7 DEF DeliveryInv, QueueInv

(* One item moves.                                                         *)
ItemMoves(i, step, n, by) ==
    delivery' = [delivery EXCEPT ![i] = [at |-> step, attempt |-> n, by |-> by]]

LEMMA ItemMoved ==
    ASSUME WD!DeliveryTypeOK, NEW i \in WD!Items, NEW step \in WD!DeliverySteps,
           NEW n \in 0..MaxRetries - 1, NEW by \in Events \cup {WD!Timer},
           ItemMoves(i, step, n, by)
    PROVE  /\ delivery' \in [WD!Items -> DeliveryRecord]
           /\ delivery'[i] = [at |-> step, attempt |-> n, by |-> by]
           /\ \A k \in WD!Items : k # i => delivery'[k] = delivery[k]
BY DEF ItemMoves, WD!DeliveryTypeOK, DeliveryRecord

(* A step of deliver(), whatever it is, does no more than this.            *)
Delivers(i, step, n) ==
    /\ delivery[i].at \in Underway /\ step \in WD!DeliverySteps \ {"none", "queued"}
    /\ step = "timer" => n < MaxRetries - 1
    /\ step \in {"count", "check", "disable", "exhausted"} => n = MaxRetries - 1
    /\ delivery[i].at \in {"check", "disable"} =>
          step \in {"disable", "exhausted", "lost"} /\ n = delivery[i].attempt
    /\ step = "disable" => webhookFailures[i[2]] >= DisableAt
    /\ \/ webhookFailures' = webhookFailures
       \/ webhookFailures' = [webhookFailures EXCEPT ![i[2]] = 0]
       \/ /\ delivery[i].at = "count" /\ step = "check"
          /\ webhookFailures' = [webhookFailures EXCEPT ![i[2]] = @ + 1]
    /\ \/ isActive' = isActive
       \/ delivery[i].at = "disable" /\ isActive' = [isActive EXCEPT ![i[2]] = FALSE]
    /\ dispatched' \in [Events -> DispatchSteps]
    /\ \A e \in Events : dispatched'[e] = "no" => dispatched[e] = "no"
    /\ UNCHANGED <<toPush, deliveryQueue>>

LEMMA DeliverDelivers ==
    ASSUME WD!DeliveryConstants, WD!DeliveryTypeOK, AttemptsCounted, NEW i \in WD!Items,
           WD!DeliverStep(i)
    PROVE  \E step \in WD!DeliverySteps, n \in 0..MaxRetries - 1,
              by \in Events \cup {WD!Timer} : ItemMoves(i, step, n, by) /\ Delivers(i, step, n)
<1> DEFINE d == delivery[i]
<1>0. /\ d \in DeliveryRecord /\ dispatched \in [Events -> DispatchSteps]
      /\ MaxRetries \in Nat \ {0}
  BY DEF WD!DeliveryTypeOK, DeliveryRecord, DispatchSteps, WD!DeliveryConstants
<1>1. \A step : [d EXCEPT !.at = step] = [at |-> step, attempt |-> d.attempt, by |-> d.by]
  BY <1>0 DEF DeliveryRecord
<1>2. ASSUME NEW step, WD!StepTo(i, step)
      PROVE  /\ ItemMoves(i, step, d.attempt, d.by)
             /\ dispatched' \in [Events -> DispatchSteps]
             /\ \A e \in Events : dispatched'[e] = "no" => dispatched[e] = "no"
  BY <1>0, <1>1, <1>2 DEF WD!StepTo, ItemMoves
<1>3. ASSUME NEW step, NEW next \in {"more", "ended"}, WD!Leaves(i, step, next)
      PROVE  /\ ItemMoves(i, step, d.attempt, WD!Timer)
             /\ dispatched' \in [Events -> DispatchSteps]
             /\ \A e \in Events : dispatched'[e] = "no" => dispatched[e] = "no"
  <2>1. [d EXCEPT !.at = step, !.by = WD!Timer]
           = [at |-> step, attempt |-> d.attempt, by |-> WD!Timer]
    <3> DEFINE e == [d EXCEPT !.at = step, !.by = WD!Timer]
    <3>1. e \in [at : {step}, attempt : {d.attempt}, by : {WD!Timer}]
      BY <1>0 DEF DeliveryRecord
    <3> HIDE DEF e
    <3>2. e = [at |-> step, attempt |-> d.attempt, by |-> WD!Timer]
      BY <3>1
    <3> QED BY <3>2 DEF e
  <2>2. ItemMoves(i, step, d.attempt, WD!Timer)
    BY <1>3, <2>1 DEF WD!Leaves, ItemMoves, WD!DeliveryTypeOK
  <2>3. next \in DispatchSteps /\ next # "no"
    BY DEF DispatchSteps
  <2> QED BY <1>0, <1>3, <2>2, <2>3 DEF WD!Leaves
<1>4. d.attempt \in 0..MaxRetries - 1 /\ d.by \in Events \cup {WD!Timer}
  BY <1>0 DEF DeliveryRecord
<1>5. UNCHANGED <<toPush, deliveryQueue>>
  BY DEF WD!DeliverStep
<1>6. ASSUME NEW step, WD!StepTo(i, step), Delivers(i, step, d.attempt)
      PROVE  \E st \in WD!DeliverySteps, n \in 0..MaxRetries - 1,
                by \in Events \cup {WD!Timer} : ItemMoves(i, st, n, by) /\ Delivers(i, st, n)
  BY <1>2, <1>4, <1>6 DEF Delivers
<1>7. ASSUME NEW step, NEW next \in {"more", "ended"}, WD!Leaves(i, step, next),
             Delivers(i, step, d.attempt)
      PROVE  \E st \in WD!DeliverySteps, n \in 0..MaxRetries - 1,
                by \in Events \cup {WD!Timer} : ItemMoves(i, st, n, by) /\ Delivers(i, st, n)
  BY <1>3, <1>4, <1>7 DEF Delivers
<1> HIDE DEF d
<1>8. CASE WD!Post(i)
  <2>1. PICK step \in {"record", "failed"} : WD!StepTo(i, step)
    BY <1>8 DEF WD!Post
  <2>2. Delivers(i, step, d.attempt)
    BY <1>2, <1>5, <1>8, <2>1 DEF WD!Post, Delivers, Underway, WD!DeliverySteps, d
  <2> QED BY <1>6, <2>1, <2>2
<1>9. CASE WD!RecordSuccess(i)
  <2>1. PICK step \in {"log", "failed"} : WD!StepTo(i, step)
    BY <1>9 DEF WD!RecordSuccess
  <2>2. Delivers(i, step, d.attempt)
    BY <1>2, <1>5, <1>9, <2>1 DEF WD!RecordSuccess, Delivers, Underway, WD!DeliverySteps, d
  <2> QED BY <1>6, <2>1, <2>2
<1>10. CASE WD!LogSuccess(i)
  <2>1. CASE WD!StepTo(i, "failed")
    <3>1. Delivers(i, "failed", d.attempt)
      BY <1>2, <1>5, <1>10, <2>1 DEF WD!LogSuccess, Delivers, Underway, WD!DeliverySteps, d
    <3> QED BY <1>6, <2>1, <3>1
  <2>2. CASE WD!Leaves(i, "delivered", "more")
    <3>1. Delivers(i, "delivered", d.attempt)
      BY <1>3, <1>5, <1>10, <2>2 DEF WD!LogSuccess, Delivers, Underway, WD!DeliverySteps, d
    <3> QED BY <1>7, <2>2, <3>1
  <2> QED BY <1>10, <2>1, <2>2 DEF WD!LogSuccess, WD!Returns
<1>11. CASE WD!LogFailure(i)
  <2>1. CASE d.attempt < MaxRetries - 1 /\ WD!Leaves(i, "timer", "more")
    <3>1. Delivers(i, "timer", d.attempt)
      BY <1>3, <1>5, <1>11, <2>1 DEF WD!LogFailure, Delivers, Underway, WD!DeliverySteps, d
    <3> QED BY <1>7, <2>1, <3>1
  <2>2. CASE d.attempt >= MaxRetries - 1 /\ WD!StepTo(i, "count")
    <3>1. d.attempt = MaxRetries - 1
      BY <1>0, <1>4, <2>2
    <3>2. Delivers(i, "count", d.attempt)
      BY <1>2, <1>5, <1>11, <2>2, <3>1 DEF WD!LogFailure, Delivers, Underway, WD!DeliverySteps, d
    <3> QED BY <1>6, <2>2, <3>2
  <2>3. CASE WD!Throws(i)
    <3>1. Delivers(i, "lost", d.attempt)
      BY <1>3, <1>5, <1>11, <2>3
         DEF WD!LogFailure, WD!Throws, Delivers, Underway, WD!DeliverySteps, d
    <3> QED BY <1>7, <2>3, <3>1 DEF WD!Throws
  <2> QED BY <1>11, <2>1, <2>2, <2>3 DEF WD!LogFailure, WD!Returns, d
<1>12. CASE WD!RetryTimer(i)
  <2> DEFINE e == [d EXCEPT !.at = "send", !.attempt = @ + 1]
  <2>1. e = [at |-> "send", attempt |-> d.attempt + 1, by |-> d.by]
    <3>1. e \in [at : {"send"}, attempt : {d.attempt + 1}, by : {d.by}]
      BY <1>0 DEF DeliveryRecord
    <3> HIDE DEF e
    <3> QED BY <3>1
  <2>2. ItemMoves(i, "send", d.attempt + 1, d.by)
    BY <1>12, <2>1 DEF WD!RetryTimer, ItemMoves, d
  <2>3. d.attempt + 1 \in 0..MaxRetries - 1
    BY <1>0, <1>4, <1>12 DEF WD!RetryTimer, AttemptsCounted, d
  <2>4. Delivers(i, "send", d.attempt + 1)
    BY <1>0, <1>5, <1>12 DEF WD!RetryTimer, Delivers, Underway, WD!DeliverySteps, d
  <2> QED BY <1>4, <2>2, <2>3, <2>4 DEF Delivers
<1>13. CASE WD!CountFailure(i)
  <2>0. d.attempt = MaxRetries - 1
    BY <1>13 DEF WD!CountFailure, AttemptsCounted, d
  <2>1. CASE /\ WD!StepTo(i, "check")
             /\ webhookFailures' = [webhookFailures EXCEPT ![i[2]] = @ + 1]
    <3>1. Delivers(i, "check", d.attempt)
      BY <1>2, <1>5, <1>13, <2>0, <2>1
         DEF WD!CountFailure, Delivers, Underway, WD!DeliverySteps, d
    <3> QED BY <1>6, <2>1, <3>1
  <2>2. CASE WD!Throws(i) /\ webhookFailures' = webhookFailures
    <3>1. Delivers(i, "lost", d.attempt)
      BY <1>3, <1>5, <1>13, <2>2
         DEF WD!CountFailure, WD!Throws, Delivers, Underway, WD!DeliverySteps, d
    <3> QED BY <1>7, <2>2, <3>1 DEF WD!Throws
  <2> QED BY <1>13, <2>1, <2>2 DEF WD!CountFailure
<1>14. CASE WD!CheckFailures(i)
  <2>0. d.attempt = MaxRetries - 1
    BY <1>14 DEF WD!CheckFailures, AttemptsCounted, d
  <2>1. CASE webhookFailures[i[2]] >= DisableAt /\ WD!StepTo(i, "disable")
    <3>1. Delivers(i, "disable", d.attempt)
      BY <1>2, <1>5, <1>14, <2>0, <2>1
         DEF WD!CheckFailures, Delivers, Underway, WD!DeliverySteps, d
    <3> QED BY <1>6, <2>1, <3>1
  <2>2. CASE WD!Leaves(i, "exhausted", "more")
    <3>1. Delivers(i, "exhausted", d.attempt)
      BY <1>3, <1>5, <1>14, <2>0, <2>2
         DEF WD!CheckFailures, Delivers, Underway, WD!DeliverySteps, d
    <3> QED BY <1>7, <2>2, <3>1
  <2>3. CASE WD!Leaves(i, "lost", "ended")
    <3>1. Delivers(i, "lost", d.attempt)
      BY <1>3, <1>5, <1>14, <2>3
         DEF WD!CheckFailures, Delivers, Underway, WD!DeliverySteps, d
    <3> QED BY <1>7, <2>3, <3>1
  <2> QED BY <1>14, <2>1, <2>2, <2>3 DEF WD!CheckFailures, WD!Returns
<1>15. CASE WD!Disable(i)
  <2>0. d.attempt = MaxRetries - 1
    BY <1>15 DEF WD!Disable, AttemptsCounted, d
  <2>1. CASE WD!Leaves(i, "exhausted", "more") /\ isActive' = [isActive EXCEPT ![i[2]] = FALSE]
    <3>1. Delivers(i, "exhausted", d.attempt)
      BY <1>3, <1>5, <1>15, <2>0, <2>1
         DEF WD!Disable, Delivers, Underway, WD!DeliverySteps, d
    <3> QED BY <1>7, <2>1, <3>1
  <2>2. CASE WD!Throws(i) /\ isActive' = isActive
    <3>1. Delivers(i, "lost", d.attempt)
      BY <1>3, <1>5, <1>15, <2>2
         DEF WD!Disable, WD!Throws, Delivers, Underway, WD!DeliverySteps, d
    <3> QED BY <1>7, <2>2, <3>1 DEF WD!Throws
  <2> QED BY <1>15, <2>1, <2>2 DEF WD!Disable, WD!Returns
<1> QED BY <1>8, <1>9, <1>10, <1>11, <1>12, <1>13, <1>14, <1>15 DEF WD!DeliverStep

LEMMA ExhaustedFinite ==
    ASSUME FinitelyBegun, NEW w \in Webhooks
    PROVE  IsFiniteSet(WD!Exhausted(w)) /\ Cardinality(WD!Exhausted(w)) \in Nat
<1>1. WD!Exhausted(w) \in SUBSET Began(w)
  BY DEF WD!Exhausted, Began
<1> QED BY <1>1, FS_Subset, FS_CardinalityType DEF FinitelyBegun

(* Nothing that was exhausted is ever anything else.                       *)
LEMMA ExhaustedGrows ==
    ASSUME FinitelyBegun, FinitelyBegun', NEW w \in Webhooks,
           \A e \in Events : e \in WD!Exhausted(w) => e \in WD!Exhausted(w)'
    PROVE  /\ Cardinality(WD!Exhausted(w)) \in Nat /\ Cardinality(WD!Exhausted(w)') \in Nat
           /\ Cardinality(WD!Exhausted(w)) <= Cardinality(WD!Exhausted(w)')
<1>1. WD!Exhausted(w) \in SUBSET WD!Exhausted(w)'
  BY DEF WD!Exhausted
<1>2. WD!Exhausted(w)' \in SUBSET Began(w)'
  BY DEF WD!Exhausted, Began
<1>3. IsFiniteSet(WD!Exhausted(w)')
  BY <1>2, FS_Subset DEF FinitelyBegun
<1> QED BY <1>1, <1>3, ExhaustedFinite, FS_Subset, FS_CardinalityType

LEMMA DeliversQueue ==
    ASSUME WD!DeliveryConstants, QueueInv, NEW i \in WD!Items, NEW step \in WD!DeliverySteps,
           NEW n \in 0..MaxRetries - 1, NEW by \in Events \cup {WD!Timer},
           ItemMoves(i, step, n, by), Delivers(i, step, n), subscribed' = subscribed,
           deleted' \in SUBSET Webhooks
    PROVE  QueueInv'
<1>0. /\ WD!DeliveryTypeOK /\ QueueWaits /\ BeginsOnce /\ AttemptsCounted /\ FinitelyBegun
      /\ UNCHANGED <<toPush, deliveryQueue>>
  BY DEF QueueInv, Delivers
<1>1. /\ delivery' \in [WD!Items -> DeliveryRecord]
      /\ delivery'[i] = [at |-> step, attempt |-> n, by |-> by]
      /\ \A k \in WD!Items : k # i => delivery'[k] = delivery[k]
  BY <1>0, ItemMoved
<1>2. /\ delivery[i].at \notin {"none", "queued"} /\ delivery'[i].at = step
      /\ step \notin {"none", "queued"} /\ delivery'[i].attempt = n
  BY <1>1 DEF Delivers, Underway
<1>3. i = <<i[1], i[2]>> /\ i[1] \in Events /\ i[2] \in Webhooks
  BY DEF WD!Items
<1>4. WD!DeliveryTypeOK'
  <2>1. webhookFailures' \in [Webhooks -> Nat]
    BY <1>0, <1>3 DEF Delivers, WD!DeliveryTypeOK
  <2>2. isActive' \in [Webhooks -> BOOLEAN]
    BY <1>0, <1>3 DEF Delivers, WD!DeliveryTypeOK
  <2>3. dispatched' \in [Events -> DispatchSteps]
    BY DEF Delivers
  <2> QED BY <1>0, <1>1, <2>1, <2>2, <2>3 DEF WD!DeliveryTypeOK, DispatchSteps, DeliveryRecord
<1>5. QueueWaits'
  <2>1. \A j \in 1..Len(deliveryQueue) : deliveryQueue[j] \in WD!Items
    BY <1>0 DEF WD!DeliveryTypeOK
  <2>2. \A j \in 1..Len(deliveryQueue) : deliveryQueue[j] # i
    BY <1>0, <1>2 DEF QueueWaits
  <2> QED BY <1>0, <1>1, <2>1, <2>2 DEF QueueWaits
<1>6. BeginsOnce'
  <2> SUFFICES ASSUME NEW e \in Events, NEW w \in Webhooks,
                      w \in toPush[e] \/ dispatched'[e] = "no"
               PROVE  delivery'[<<e, w>>].at = "none"
    BY <1>0 DEF BeginsOnce
  <2>1. delivery[<<e, w>>].at = "none"
    BY <1>0 DEF BeginsOnce, Delivers
  <2>2. <<e, w>> \in WD!Items /\ <<e, w>> # i
    BY <1>2, <2>1 DEF WD!Items
  <2> QED BY <1>1, <2>1, <2>2
<1>7. AttemptsCounted'
  <2> SUFFICES ASSUME NEW k \in WD!Items
               PROVE  /\ delivery'[k].at = "timer" => delivery'[k].attempt < MaxRetries - 1
                      /\ delivery'[k].at \in {"count", "check", "disable", "exhausted"} =>
                            delivery'[k].attempt = MaxRetries - 1
    BY DEF AttemptsCounted
  <2>1. CASE k = i
    BY <1>2, <2>1 DEF Delivers
  <2>2. CASE k # i
    BY <1>0, <1>1, <2>2 DEF AttemptsCounted
  <2> QED BY <2>1, <2>2
<1>8. FinitelyBegun'
  <2>1. \A w \in Webhooks : Began(w)' = Began(w)
    <3> SUFFICES ASSUME NEW w \in Webhooks, NEW e \in Events
                 PROVE  delivery'[<<e, w>>].at # "none" <=> delivery[<<e, w>>].at # "none"
      BY DEF Began
    <3>1. <<e, w>> \in WD!Items
      BY DEF WD!Items
    <3> QED BY <1>1, <1>2, <3>1
  <2> QED BY <1>0, <2>1 DEF FinitelyBegun
<1> QED BY <1>4, <1>5, <1>6, <1>7, <1>8 DEF QueueInv

LEMMA DeliversEarned ==
    ASSUME WD!DeliveryConstants, DeliveryInv, QueueInv', NEW i \in WD!Items,
           NEW step \in WD!DeliverySteps, NEW n \in 0..MaxRetries - 1,
           NEW by \in Events \cup {WD!Timer}, ItemMoves(i, step, n, by), Delivers(i, step, n)
    PROVE  /\ FailuresExhausted' /\ DisablingEarned'
           /\ \A w \in Webhooks :
                 isActive[w] /\ ~isActive'[w] => Cardinality(WD!Exhausted(w)) >= DisableAt
<1>0. /\ WD!DeliveryTypeOK /\ AttemptsCounted /\ FinitelyBegun /\ FinitelyBegun'
      /\ FailuresExhausted /\ DisablingEarned /\ DisableAt \in Nat
      /\ webhookFailures \in [Webhooks -> Nat] /\ isActive \in [Webhooks -> BOOLEAN]
  BY DEF DeliveryInv, QueueInv, WD!DeliveryConstants, WD!DeliveryTypeOK
<1>1. /\ delivery'[i] = [at |-> step, attempt |-> n, by |-> by]
      /\ \A k \in WD!Items : k # i => delivery'[k] = delivery[k]
  BY <1>0, ItemMoved
<1>2. delivery[i].at \in Underway /\ delivery'[i].at = step /\ delivery'[i].attempt = n
  BY <1>1 DEF Delivers
<1>3. i = <<i[1], i[2]>> /\ i[1] \in Events /\ i[2] \in Webhooks
  BY DEF WD!Items
<1>4. \A w \in Webhooks, e \in Events : e \in WD!Exhausted(w) => e \in WD!Exhausted(w)'
  <2> SUFFICES ASSUME NEW w \in Webhooks, NEW e \in Events, e \in WD!Exhausted(w)
               PROVE  e \in WD!Exhausted(w)'
    OBVIOUS
  <2>1. <<e, w>> \in WD!Items
    BY DEF WD!Items
  <2>2. /\ delivery[<<e, w>>].at \in {"check", "disable", "exhausted", "lost"}
        /\ delivery[<<e, w>>].attempt = MaxRetries - 1
    BY DEF WD!Exhausted
  <2>3. CASE <<e, w>> = i
    BY <1>2, <2>2, <2>3 DEF Delivers, Underway, WD!Exhausted
  <2>4. CASE <<e, w>> # i
    BY <1>1, <2>1, <2>2, <2>4 DEF WD!Exhausted
  <2> QED BY <2>3, <2>4
<1>5. \A w \in Webhooks :
         /\ Cardinality(WD!Exhausted(w)) \in Nat /\ Cardinality(WD!Exhausted(w)') \in Nat
         /\ Cardinality(WD!Exhausted(w)) <= Cardinality(WD!Exhausted(w)')
  BY <1>0, <1>4, ExhaustedGrows
<1>6. FailuresExhausted'
  <2> SUFFICES ASSUME NEW w \in Webhooks
               PROVE  webhookFailures'[w] <= Cardinality(WD!Exhausted(w)')
    BY DEF FailuresExhausted
  <2>1. webhookFailures[w] <= Cardinality(WD!Exhausted(w)) /\ webhookFailures[w] \in Nat
    BY <1>0 DEF FailuresExhausted
  <2>2. CASE webhookFailures'[w] <= webhookFailures[w] /\ webhookFailures'[w] \in Nat
    BY <1>5, <2>1, <2>2
  <2>3. CASE /\ w = i[2] /\ delivery[i].at = "count" /\ step = "check"
             /\ webhookFailures'[w] = webhookFailures[w] + 1
    <3> DEFINE before == WD!Exhausted(w)
               after == WD!Exhausted(w)'
    <3>1. i[1] \notin before
      BY <1>3, <2>3 DEF WD!Exhausted
    <3>2. i[1] \in after
      BY <1>2, <1>3, <2>3 DEF WD!Exhausted, Delivers
    <3>3. before \cup {i[1]} \subseteq after
      BY <1>4, <3>2 DEF WD!Exhausted
    <3>4. IsFiniteSet(before) /\ Cardinality(before) \in Nat
      BY <1>0, ExhaustedFinite
    <3>5. IsFiniteSet(after)
      <4>1. after \in SUBSET Began(w)'
        BY DEF WD!Exhausted, Began
      <4> QED BY <1>0, <4>1, FS_Subset DEF FinitelyBegun
    <3> HIDE DEF before, after
    <3>6. Cardinality(before \cup {i[1]}) = Cardinality(before) + 1
      BY <3>1, <3>4, FS_AddElement
    <3>7. Cardinality(before \cup {i[1]}) <= Cardinality(after)
      BY <3>3, <3>5, FS_Subset
    <3>8. Cardinality(after) \in Nat
      BY <3>5, FS_CardinalityType
    <3>9. webhookFailures'[w] <= Cardinality(after)
      <4>1. webhookFailures[w] <= Cardinality(before)
        BY <2>1 DEF before
      <4> QED BY <2>1, <2>3, <3>4, <3>6, <3>7, <3>8, <4>1
    <3> QED BY <3>9 DEF after
  <2> QED BY <1>0, <1>3, <2>2, <2>3 DEF Delivers
<1>7. DisablingEarned'
  <2> SUFFICES ASSUME NEW k \in WD!Items, delivery'[k].at = "disable"
               PROVE  Cardinality(WD!Exhausted(k[2])') >= DisableAt
    BY DEF DisablingEarned
  <2>1. k[2] \in Webhooks
    BY DEF WD!Items
  <2>2. CASE k # i
    BY <1>0, <1>1, <1>5, <2>1, <2>2 DEF DisablingEarned
  <2>3. CASE k = i
    <3>1. webhookFailures[k[2]] >= DisableAt /\ webhookFailures[k[2]] \in Nat
      BY <1>0, <1>2, <2>1, <2>3 DEF Delivers
    <3>2. webhookFailures[k[2]] <= Cardinality(WD!Exhausted(k[2]))
      BY <1>0, <2>1 DEF FailuresExhausted
    <3> QED BY <1>0, <1>5, <2>1, <3>1, <3>2
  <2> QED BY <2>2, <2>3
<1>8. ASSUME NEW w \in Webhooks, isActive[w], ~isActive'[w]
      PROVE  Cardinality(WD!Exhausted(w)) >= DisableAt
  <2>1. delivery[i].at = "disable" /\ w = i[2]
    BY <1>0, <1>3, <1>8 DEF Delivers
  <2> QED BY <1>0, <2>1 DEF DisablingEarned
<1> QED BY <1>6, <1>7, <1>8

(* Where the queue and the deliveries stay, so does what is known of them. *)
LEMMA DeliveriesStay ==
    ASSUME DeliveryInv, UNCHANGED <<subscribed, deliveryQueue, delivery, webhookFailures>>,
           deleted' \in SUBSET Webhooks,
           dispatched' \in [Events -> DispatchSteps], toPush' \in [Events -> SUBSET Webhooks],
           isActive' \in [Webhooks -> BOOLEAN],
           \A e \in Events, w \in Webhooks :
               w \in toPush'[e] \/ dispatched'[e] = "no" => delivery[<<e, w>>].at = "none"
    PROVE  DeliveryInv'
<1>1. WD!DeliveryTypeOK'
  BY DEF DeliveryInv, QueueInv, WD!DeliveryTypeOK, DispatchSteps
<1>2. QueueWaits' /\ BeginsOnce' /\ AttemptsCounted' /\ FinitelyBegun'
  BY DEF DeliveryInv, QueueInv, QueueWaits, BeginsOnce, AttemptsCounted, FinitelyBegun, Began
<1>3. FailuresExhausted' /\ DisablingEarned'
  BY DEF DeliveryInv, FailuresExhausted, DisablingEarned, WD!Exhausted
<1> QED BY <1>1, <1>2, <1>3 DEF DeliveryInv, QueueInv

(* Where failures are not counted nor a webhook is disabled, it is enough  *)
(* that what is exhausted stays so.                                        *)
LEMMA ExhaustedStays ==
    ASSUME WD!DeliveryConstants, DeliveryInv, QueueInv', webhookFailures' = webhookFailures,
           \A k \in WD!Items : delivery'[k].at = "disable" => delivery[k].at = "disable",
           \A k \in WD!Items :
              delivery[k].at \in {"check", "disable", "exhausted", "lost"} =>
                 /\ delivery'[k].at \in {"check", "disable", "exhausted", "lost"}
                 /\ delivery'[k].attempt = delivery[k].attempt
    PROVE  DeliveryInv'
<1>0. /\ FinitelyBegun /\ FinitelyBegun' /\ FailuresExhausted /\ DisablingEarned
      /\ webhookFailures \in [Webhooks -> Nat] /\ DisableAt \in Nat
  BY DEF DeliveryInv, QueueInv, WD!DeliveryTypeOK, WD!DeliveryConstants
<1>1. \A w \in Webhooks, e \in Events : e \in WD!Exhausted(w) => e \in WD!Exhausted(w)'
  <2> SUFFICES ASSUME NEW w \in Webhooks, NEW e \in Events, e \in WD!Exhausted(w)
               PROVE  e \in WD!Exhausted(w)'
    OBVIOUS
  <2>1. <<e, w>> \in WD!Items
    BY DEF WD!Items
  <2> QED BY <2>1 DEF WD!Exhausted
<1>2. \A w \in Webhooks :
         /\ Cardinality(WD!Exhausted(w)) \in Nat /\ Cardinality(WD!Exhausted(w)') \in Nat
         /\ Cardinality(WD!Exhausted(w)) <= Cardinality(WD!Exhausted(w)')
  BY <1>0, <1>1, ExhaustedGrows
<1>3. FailuresExhausted'
  <2> SUFFICES ASSUME NEW w \in Webhooks
               PROVE  webhookFailures[w] <= Cardinality(WD!Exhausted(w)')
    BY DEF FailuresExhausted
  <2> QED BY <1>0, <1>2 DEF FailuresExhausted
<1>4. DisablingEarned'
  <2> SUFFICES ASSUME NEW k \in WD!Items, delivery'[k].at = "disable"
               PROVE  Cardinality(WD!Exhausted(k[2])') >= DisableAt
    BY DEF DisablingEarned
  <2>1. k[2] \in Webhooks
    BY DEF WD!Items
  <2> QED BY <1>0, <1>2, <2>1 DEF DisablingEarned
<1> QED BY <1>3, <1>4 DEF DeliveryInv

LEMMA DispatchInv ==
    ASSUME DeliveryInv, subscribed' = subscribed, deleted' \in SUBSET Webhooks,
           NEW e \in Events, WD!Dispatch(e)
    PROVE  DeliveryInv'
<1>0. /\ dispatched \in [Events -> DispatchSteps] /\ toPush \in [Events -> SUBSET Webhooks]
      /\ isActive \in [Webhooks -> BOOLEAN] /\ BeginsOnce
  BY DEF DeliveryInv, QueueInv, WD!DeliveryTypeOK, DispatchSteps
<1>1. dispatched' \in [Events -> DispatchSteps] /\ toPush' \in [Events -> SUBSET Webhooks]
  BY <1>0 DEF WD!Dispatch, WD!Runs, DispatchSteps
<1>2. \A f \in Events, w \in Webhooks :
         w \in toPush'[f] \/ dispatched'[f] = "no" => delivery[<<f, w>>].at = "none"
  BY <1>0 DEF WD!Dispatch, WD!Runs, BeginsOnce
<1> QED BY <1>0, <1>1, <1>2, DeliveriesStay DEF WD!Dispatch

LEMMA RunsInv ==
    ASSUME DeliveryInv, subscribed' = subscribed, deleted' \in SUBSET Webhooks,
           NEW e \in Events,
           WD!StartRun(e) \/ WD!CheckRemaining(e) \/ WD!RedisThrows(e)
    PROVE  DeliveryInv'
<1>0. /\ dispatched \in [Events -> DispatchSteps] /\ toPush \in [Events -> SUBSET Webhooks]
      /\ isActive \in [Webhooks -> BOOLEAN] /\ BeginsOnce
  BY DEF DeliveryInv, QueueInv, WD!DeliveryTypeOK, DispatchSteps
<1>1. \E step \in DispatchSteps \ {"no"} : dispatched' = [dispatched EXCEPT ![e] = step]
  BY DEF WD!StartRun, WD!CheckRemaining, WD!RedisThrows, WD!Runs, DispatchSteps
<1>2. toPush' = toPush \/ toPush' = [toPush EXCEPT ![e] = {}]
  BY DEF WD!StartRun, WD!CheckRemaining, WD!RedisThrows
<1>3. dispatched' \in [Events -> DispatchSteps] /\ toPush' \in [Events -> SUBSET Webhooks]
  BY <1>0, <1>1, <1>2
<1>4. \A f \in Events, w \in Webhooks :
         w \in toPush'[f] \/ dispatched'[f] = "no" => delivery[<<f, w>>].at = "none"
  BY <1>0, <1>1, <1>2 DEF BeginsOnce
<1> QED BY <1>0, <1>3, <1>4, DeliveriesStay DEF WD!StartRun, WD!CheckRemaining, WD!RedisThrows

LEMMA UpdateWebhookInv ==
    ASSUME DeliveryInv, subscribed' = subscribed, deleted' \in SUBSET Webhooks,
           NEW w \in Webhooks, WD!UpdateWebhook(w) \/ WD!DeleteWebhook(w)
    PROVE  DeliveryInv'
<1>0. /\ dispatched \in [Events -> DispatchSteps] /\ toPush \in [Events -> SUBSET Webhooks]
      /\ isActive \in [Webhooks -> BOOLEAN] /\ BeginsOnce
  BY DEF DeliveryInv, QueueInv, WD!DeliveryTypeOK, DispatchSteps
<1>1. isActive' \in [Webhooks -> BOOLEAN]
  BY <1>0 DEF WD!UpdateWebhook, WD!DeleteWebhook
<1>2. UNCHANGED <<dispatched, toPush, deliveryQueue, delivery, webhookFailures>>
  BY DEF WD!UpdateWebhook, WD!DeleteWebhook
<1> QED BY <1>0, <1>1, <1>2, DeliveriesStay DEF BeginsOnce

LEMMA PushInv ==
    ASSUME WD!DeliveryConstants, DeliveryInv, subscribed' = subscribed,
           deleted' \in SUBSET Webhooks, NEW e \in Events,
           NEW w \in Webhooks, WD!PushDelivery(e, w)
    PROVE  DeliveryInv'
<1> DEFINE item == <<e, w>>
<1>0. /\ WD!DeliveryTypeOK /\ QueueWaits /\ BeginsOnce /\ AttemptsCounted /\ FinitelyBegun
      /\ delivery \in [WD!Items -> DeliveryRecord] /\ toPush \in [Events -> SUBSET Webhooks]
      /\ deliveryQueue \in Seq(WD!Items) /\ item \in WD!Items
  BY DEF DeliveryInv, QueueInv, WD!DeliveryTypeOK, DeliveryRecord, WD!Items
<1>1. /\ delivery[item].at = "none" /\ dispatched[e] # "no" /\ w \in toPush[e]
      /\ dispatched' = dispatched /\ deliveryQueue' = Append(deliveryQueue, item)
      /\ toPush' = [toPush EXCEPT ![e] = @ \ {w}]
      /\ UNCHANGED <<webhookFailures, isActive>>
  BY <1>0 DEF WD!PushDelivery, BeginsOnce
<1>2. /\ delivery' \in [WD!Items -> DeliveryRecord] /\ delivery'[item].at = "queued"
      /\ \A k \in WD!Items : k # item => delivery'[k] = delivery[k]
  BY <1>0 DEF WD!PushDelivery, DeliveryRecord, WD!DeliverySteps
<1>3. deliveryQueue' \in Seq(WD!Items) /\ toPush' \in [Events -> SUBSET Webhooks]
  BY <1>0, <1>1
<1>4. WD!DeliveryTypeOK'
  BY <1>0, <1>1, <1>2, <1>3 DEF WD!DeliveryTypeOK, DeliveryRecord
<1> HIDE DEF item
<1>5. QueueWaits'
  <2>1. /\ Len(deliveryQueue) \in Nat /\ Len(deliveryQueue') = Len(deliveryQueue) + 1
        /\ \A j \in 1..Len(deliveryQueue) :
              deliveryQueue'[j] = deliveryQueue[j] /\ deliveryQueue[j] \in WD!Items
        /\ deliveryQueue'[Len(deliveryQueue) + 1] = item
    BY <1>0, <1>1
  <2>2. \A j \in 1..Len(deliveryQueue) : deliveryQueue[j] # item
    BY <1>0, <1>1 DEF QueueWaits
  <2>3. \A j \in 1..Len(deliveryQueue') :
           j \in 1..Len(deliveryQueue) \/ j = Len(deliveryQueue) + 1
    BY <2>1
  <2>4. \A j, k \in 1..Len(deliveryQueue') : deliveryQueue'[j] = deliveryQueue'[k] => j = k
    BY <1>0, <2>1, <2>2, <2>3 DEF QueueWaits
  <2>5. \A j \in 1..Len(deliveryQueue') : delivery'[deliveryQueue'[j]].at = "queued"
    BY <1>0, <1>2, <2>1, <2>2, <2>3 DEF QueueWaits
  <2> QED BY <2>4, <2>5 DEF QueueWaits
<1>6. BeginsOnce'
  <2> SUFFICES ASSUME NEW f \in Events, NEW v \in Webhooks, v \in toPush'[f] \/ dispatched[f] = "no"
               PROVE  delivery'[<<f, v>>].at = "none"
    BY <1>1 DEF BeginsOnce
  <2>1. <<f, v>> # item /\ <<f, v>> \in WD!Items
    BY <1>0, <1>1 DEF item, WD!Items
  <2>2. v \in toPush[f] \/ dispatched[f] = "no"
    BY <1>0, <1>1
  <2> QED BY <1>0, <1>2, <2>1, <2>2 DEF BeginsOnce
<1>7. AttemptsCounted'
  <2> SUFFICES ASSUME NEW k \in WD!Items
               PROVE  /\ delivery'[k].at = "timer" => delivery'[k].attempt < MaxRetries - 1
                      /\ delivery'[k].at \in {"count", "check", "disable", "exhausted"} =>
                            delivery'[k].attempt = MaxRetries - 1
    BY DEF AttemptsCounted
  <2> QED BY <1>0, <1>2 DEF AttemptsCounted
<1>8. FinitelyBegun'
  <2> SUFFICES ASSUME NEW v \in Webhooks PROVE IsFiniteSet(Began(v)')
    BY DEF FinitelyBegun
  <2>1. Began(v)' \in SUBSET (Began(v) \cup {e})
    <3> SUFFICES ASSUME NEW f \in Events, f # e, delivery'[<<f, v>>].at # "none"
                 PROVE  delivery[<<f, v>>].at # "none"
      BY DEF Began
    <3>1. <<f, v>> \in WD!Items /\ <<f, v>> # item
      BY DEF WD!Items, item
    <3> QED BY <1>2, <3>1
  <2> QED BY <1>0, <2>1, FS_AddElement, FS_Subset DEF FinitelyBegun
<1>9. QueueInv'
  BY <1>4, <1>5, <1>6, <1>7, <1>8 DEF QueueInv
<1> QED BY <1>0, <1>1, <1>2, <1>9, ExhaustedStays

LEMMA PopInv ==
    ASSUME WD!DeliveryConstants, DeliveryInv, subscribed' = subscribed,
           deleted' \in SUBSET Webhooks, NEW e \in Events,
           WD!PopDelivery(e)
    PROVE  DeliveryInv'
<1>0. /\ WD!DeliveryTypeOK /\ QueueWaits /\ BeginsOnce /\ AttemptsCounted /\ FinitelyBegun
      /\ delivery \in [WD!Items -> DeliveryRecord] /\ toPush \in [Events -> SUBSET Webhooks]
      /\ dispatched \in [Events -> DispatchSteps] /\ isActive \in [Webhooks -> BOOLEAN]
      /\ deliveryQueue \in Seq(WD!Items)
  BY DEF DeliveryInv, QueueInv, WD!DeliveryTypeOK, DeliveryRecord, DispatchSteps
<1>1. /\ dispatched' \in [Events -> DispatchSteps]
      /\ \A f \in Events : dispatched'[f] = "no" => dispatched[f] = "no"
      /\ UNCHANGED <<toPush, webhookFailures, isActive>>
  BY <1>0 DEF WD!PopDelivery, WD!Runs, DispatchSteps
<1>2. CASE deliveryQueue = <<>>
  <2>1. UNCHANGED <<deliveryQueue, delivery>>
    BY <1>2 DEF WD!PopDelivery
  <2>2. \A f \in Events, w \in Webhooks :
           w \in toPush'[f] \/ dispatched'[f] = "no" => delivery[<<f, w>>].at = "none"
    BY <1>0, <1>1 DEF BeginsOnce
  <2> QED BY <1>0, <1>1, <2>1, <2>2, DeliveriesStay
<1>3. CASE deliveryQueue # <<>>
  <2> DEFINE item == Head(deliveryQueue)
  <2>1. /\ Len(deliveryQueue) \in Nat \ {0} /\ item = deliveryQueue[1] /\ item \in WD!Items
        /\ \A j \in 1..Len(deliveryQueue) : deliveryQueue[j] \in WD!Items
    BY <1>0, <1>3
  <2>2. delivery[item].at = "queued"
    BY <1>0, <2>1 DEF QueueWaits
  <2>3. /\ deliveryQueue' = Tail(deliveryQueue)
        /\ delivery' = [delivery EXCEPT ![item].at = "send", ![item].by = e]
    BY <1>3 DEF WD!PopDelivery
  <2> HIDE DEF item
  <2>4. /\ delivery' \in [WD!Items -> DeliveryRecord] /\ delivery'[item].at = "send"
        /\ \A k \in WD!Items : k # item => delivery'[k] = delivery[k]
    <3> DEFINE r == [delivery[item] EXCEPT !.at = "send", !.by = e]
    <3>1. delivery' = [delivery EXCEPT ![item] = r]
      BY <1>0, <2>1, <2>3
    <3>2. r \in DeliveryRecord /\ r.at = "send"
      BY <1>0, <2>1 DEF DeliveryRecord, WD!DeliverySteps
    <3> HIDE DEF r
    <3> QED BY <1>0, <2>1, <3>1, <3>2
  <2>5. WD!DeliveryTypeOK'
    BY <1>0, <1>1, <1>3, <2>3, <2>4 DEF WD!DeliveryTypeOK, DeliveryRecord, DispatchSteps
  <2>6. QueueWaits'
    <3>1. /\ Len(deliveryQueue') = Len(deliveryQueue) - 1
          /\ \A j \in 1..Len(deliveryQueue') : deliveryQueue'[j] = deliveryQueue[j + 1]
      BY <1>0, <1>3, <2>3
    <3>2. \A j \in 1..Len(deliveryQueue') :
             /\ j + 1 \in 1..Len(deliveryQueue) /\ j + 1 # 1
             /\ deliveryQueue'[j] = deliveryQueue[j + 1]
      BY <2>1, <3>1
    <3>3. \A j \in 1..Len(deliveryQueue') :
             deliveryQueue'[j] \in WD!Items /\ deliveryQueue'[j] # item
      BY <1>0, <2>1, <3>2 DEF QueueWaits
    <3>4. \A j, k \in 1..Len(deliveryQueue') : deliveryQueue'[j] = deliveryQueue'[k] => j = k
      <4> SUFFICES ASSUME NEW j \in 1..Len(deliveryQueue'), NEW k \in 1..Len(deliveryQueue'),
                          deliveryQueue'[j] = deliveryQueue'[k]
                   PROVE  j = k
        OBVIOUS
      <4>1. j + 1 = k + 1
        BY <1>0, <3>2 DEF QueueWaits
      <4> QED BY <2>1, <3>1, <4>1
    <3>5. \A j \in 1..Len(deliveryQueue') : delivery'[deliveryQueue'[j]].at = "queued"
      BY <1>0, <2>4, <3>2, <3>3 DEF QueueWaits
    <3> QED BY <3>4, <3>5 DEF QueueWaits
  <2>7. BeginsOnce'
    <3> SUFFICES ASSUME NEW f \in Events, NEW v \in Webhooks,
                        v \in toPush[f] \/ dispatched'[f] = "no"
                 PROVE  delivery'[<<f, v>>].at = "none"
      BY <1>1 DEF BeginsOnce
    <3>1. delivery[<<f, v>>].at = "none" /\ <<f, v>> \in WD!Items
      BY <1>0, <1>1 DEF BeginsOnce, WD!Items
    <3> QED BY <2>2, <2>4, <3>1
  <2>8. AttemptsCounted'
    <3> SUFFICES ASSUME NEW k \in WD!Items
                 PROVE  /\ delivery'[k].at = "timer" => delivery'[k].attempt < MaxRetries - 1
                        /\ delivery'[k].at \in {"count", "check", "disable", "exhausted"} =>
                              delivery'[k].attempt = MaxRetries - 1
      BY DEF AttemptsCounted
    <3> QED BY <1>0, <2>4 DEF AttemptsCounted
  <2>9. FinitelyBegun'
    <3>1. \A v \in Webhooks : Began(v)' = Began(v)
      <4> SUFFICES ASSUME NEW v \in Webhooks, NEW f \in Events
                   PROVE  delivery'[<<f, v>>].at # "none" <=> delivery[<<f, v>>].at # "none"
        BY DEF Began
      <4>1. <<f, v>> \in WD!Items
        BY DEF WD!Items
      <4> QED BY <2>2, <2>4, <4>1
    <3> QED BY <1>0, <3>1 DEF FinitelyBegun
  <2>10. QueueInv'
    BY <2>5, <2>6, <2>7, <2>8, <2>9 DEF QueueInv
  <2> QED BY <1>1, <2>2, <2>4, <2>10, ExhaustedStays
<1> QED BY <1>2, <1>3

LEMMA DiesInv ==
    ASSUME WD!DeliveryConstants, DeliveryInv, subscribed' = subscribed,
           deleted' \in SUBSET Webhooks, WD!ProcessDies
    PROVE  DeliveryInv'
<1> DEFINE Kept == {"none", "queued", "delivered", "exhausted"}
<1>0. /\ WD!DeliveryTypeOK /\ QueueWaits /\ BeginsOnce /\ AttemptsCounted /\ FinitelyBegun
      /\ delivery \in [WD!Items -> DeliveryRecord] /\ deliveryQueue \in Seq(WD!Items)
      /\ UNCHANGED <<deliveryQueue, webhookFailures, isActive>>
  BY DEF DeliveryInv, QueueInv, WD!DeliveryTypeOK, DeliveryRecord, WD!ProcessDies
<1>1. \A k \in WD!Items :
         /\ delivery[k].at \in Kept => delivery'[k] = delivery[k]
         /\ delivery[k].at \notin Kept =>
               /\ delivery'[k] \in DeliveryRecord /\ delivery'[k].at = "lost"
               /\ delivery'[k].attempt = delivery[k].attempt
  BY <1>0 DEF WD!ProcessDies, DeliveryRecord, WD!DeliverySteps
<1> HIDE DEF Kept
<1>2. delivery' \in [WD!Items -> DeliveryRecord]
  <2>1. \A k \in WD!Items : delivery'[k] \in DeliveryRecord
    BY <1>0, <1>1
  <2>2. DOMAIN delivery' = WD!Items /\ delivery' = [k \in WD!Items |-> delivery'[k]]
    BY DEF WD!ProcessDies
  <2> QED BY <2>1, <2>2
<1>3. /\ dispatched' \in [Events -> DispatchSteps] /\ toPush' \in [Events -> SUBSET Webhooks]
      /\ \A e \in Events : toPush'[e] = {} /\ (dispatched'[e] = "no" => dispatched[e] = "no")
  BY DEF WD!ProcessDies, DispatchSteps
<1>4. WD!DeliveryTypeOK'
  BY <1>0, <1>2, <1>3 DEF WD!DeliveryTypeOK, DeliveryRecord, DispatchSteps
<1>5. QueueWaits'
  <2>1. \A j \in 1..Len(deliveryQueue) : deliveryQueue[j] \in WD!Items
    BY <1>0
  <2> QED BY <1>0, <1>1, <2>1 DEF QueueWaits, Kept
<1>6. BeginsOnce'
  <2>1. \A e \in Events, w \in Webhooks : <<e, w>> \in WD!Items
    BY DEF WD!Items
  <2> QED BY <1>0, <1>1, <1>3, <2>1 DEF BeginsOnce, Kept
<1>7. AttemptsCounted'
  BY <1>0, <1>1 DEF AttemptsCounted, Kept
<1>8. FinitelyBegun'
  <2>1. \A v \in Webhooks : Began(v)' = Began(v)
    <3> SUFFICES ASSUME NEW v \in Webhooks, NEW f \in Events
                 PROVE  delivery'[<<f, v>>].at # "none" <=> delivery[<<f, v>>].at # "none"
      BY DEF Began
    <3>1. <<f, v>> \in WD!Items
      BY DEF WD!Items
    <3> QED BY <1>1, <3>1 DEF Kept
  <2> QED BY <1>0, <2>1 DEF FinitelyBegun
<1>9. QueueInv'
  BY <1>4, <1>5, <1>6, <1>7, <1>8 DEF QueueInv
<1>10. \A k \in WD!Items : delivery'[k].at = "disable" => delivery[k].at = "disable"
  BY <1>1 DEF Kept
<1>11. \A k \in WD!Items :
          delivery[k].at \in {"check", "disable", "exhausted", "lost"} =>
             /\ delivery'[k].at \in {"check", "disable", "exhausted", "lost"}
             /\ delivery'[k].attempt = delivery[k].attempt
  BY <1>1 DEF Kept
<1> QED BY <1>0, <1>9, <1>10, <1>11, ExhaustedStays

LEMMA DeliverySteps == [Next]_vars => WD!DeliveryNext \/ UNCHANGED <<faults, subscribed, deliveryVars>>
BY FaultsStay DEF Next, vars, deliveryVars

LEMMA DeletedStays ==
    ASSUME WD!DeliveryTypeOK, WD!DeliveryNext PROVE deleted' \in SUBSET Webhooks
<1>1. deleted \in SUBSET Webhooks
  BY DEF WD!DeliveryTypeOK
<1>2. ASSUME NEW w \in Webhooks, WD!DeleteWebhook(w) PROVE deleted' \in SUBSET Webhooks
  BY <1>2 DEF WD!DeleteWebhook
<1>3. ASSUME NEW e \in Events, WD!Dispatch(e) \/ WD!RunStep(e) \/ WD!RedisThrows(e)
      PROVE  deleted' = deleted
  BY <1>3 DEF WD!Dispatch, WD!RunStep, WD!RedisThrows
<1>4. ASSUME NEW i \in WD!Items, WD!DeliverStep(i) PROVE deleted' = deleted
  BY <1>4 DEF WD!DeliverStep
<1>5. ASSUME NEW w \in Webhooks, WD!UpdateWebhook(w) PROVE deleted' = deleted
  BY <1>5 DEF WD!UpdateWebhook
<1>6. WD!ProcessDies => deleted' = deleted
  BY DEF WD!ProcessDies
<1> QED BY <1>1, <1>2, <1>3, <1>4, <1>5, <1>6 DEF WD!DeliveryNext

(* What a step of delivery keeps, and what it may not do.                  *)
LEMMA DeliveryNextInv ==
    ASSUME WD!DeliveryConstants, DeliveryInv, WD!DeliveryNext
    PROVE  /\ DeliveryInv'
           /\ delivery' # delivery =>
                 \A w \in Webhooks :
                    isActive[w] /\ ~isActive'[w] => Cardinality(WD!Exhausted(w)) >= DisableAt
<1>0. subscribed' = subscribed /\ deleted' \in SUBSET Webhooks
  BY DeletedStays DEF WD!DeliveryNext, DeliveryInv, QueueInv
<1>1. ASSUME NEW e \in Events, WD!Dispatch(e) \/ WD!RunStep(e) \/ WD!RedisThrows(e)
      PROVE  DeliveryInv' /\ isActive' = isActive
  <2>1. isActive' = isActive
    BY <1>1 DEF WD!Dispatch, WD!RunStep, WD!RedisThrows, WD!StartRun, WD!PopDelivery,
                WD!CheckRemaining, WD!PushDelivery
  <2> QED BY <1>0, <1>1, <2>1, DispatchInv, RunsInv, PopInv, PushInv DEF WD!RunStep
<1>2. ASSUME NEW i \in WD!Items, WD!DeliverStep(i)
      PROVE  /\ DeliveryInv'
             /\ \A w \in Webhooks :
                   isActive[w] /\ ~isActive'[w] => Cardinality(WD!Exhausted(w)) >= DisableAt
  <2>0. WD!DeliveryTypeOK /\ AttemptsCounted /\ QueueInv
    BY DEF DeliveryInv, QueueInv
  <2>1. PICK step \in WD!DeliverySteps, n \in 0..MaxRetries - 1, by \in Events \cup {WD!Timer} :
           ItemMoves(i, step, n, by) /\ Delivers(i, step, n)
    BY <1>2, <2>0, DeliverDelivers
  <2>2. QueueInv'
    BY <1>0, <2>0, <2>1, DeliversQueue
  <2> QED BY <2>1, <2>2, DeliversEarned DEF DeliveryInv
<1>3. ASSUME NEW w \in Webhooks, WD!UpdateWebhook(w) \/ WD!DeleteWebhook(w)
      PROVE  DeliveryInv' /\ delivery' = delivery
  <2>1. delivery' = delivery
    BY <1>3 DEF WD!UpdateWebhook, WD!DeleteWebhook
  <2> QED BY <1>0, <1>3, <2>1, UpdateWebhookInv
<1>4. CASE WD!ProcessDies
  BY <1>0, <1>4, DiesInv DEF WD!ProcessDies
<1> QED BY <1>1, <1>2, <1>3, <1>4 DEF WD!DeliveryNext

LEMMA DeliveryInvariant == Spec => []DeliveryInv
<1>0. WD!DeliveryConstants
  BY ServicesAssumption
<1>1. Init => DeliveryInv
  BY <1>0, DeliveryStarts
<1>2. DeliveryInv /\ [Next]_vars => DeliveryInv'
  <2> SUFFICES ASSUME DeliveryInv, [Next]_vars PROVE DeliveryInv'
    OBVIOUS
  <2>1. CASE UNCHANGED <<faults, subscribed, deliveryVars>>
    BY <2>1 DEF deliveryVars, DeliveryInv, QueueInv, WD!DeliveryTypeOK, QueueWaits, BeginsOnce,
       AttemptsCounted, FinitelyBegun, Began, FailuresExhausted, DisablingEarned, WD!Exhausted
  <2> QED BY <1>0, <2>1, DeliverySteps, DeliveryNextInv
<1> QED BY <1>1, <1>2, PTL DEF Spec

(* A delivery disables its webhook only after DisableAt deliveries to it   *)
(* have each failed MaxRetries times: the failures counted against a       *)
(* webhook are never more than the deliveries to it that were given up.    *)
THEOREM DisabledTheorem == Spec => DisabledOnlyAfterExhausted
<1> DEFINE Earned ==
      \A w \in Webhooks :
          isActive[w] /\ ~isActive'[w] /\ delivery' # delivery =>
              WD!Cardinality(WD!Exhausted(w)) >= DisableAt
<1>1. DeliveryInv /\ [Next]_vars => [Earned]_(WD!deliveryVars)
  <2> SUFFICES ASSUME DeliveryInv, [Next]_vars PROVE Earned \/ UNCHANGED WD!deliveryVars
    OBVIOUS
  <2>1. CASE UNCHANGED <<faults, subscribed, deliveryVars>>
    BY <2>1 DEF deliveryVars, WD!deliveryVars
  <2>2. CASE WD!DeliveryNext
    <3>1. \A S : WD!Cardinality(S) = Cardinality(S)
      BY DEF WD!Cardinality, Cardinality
    <3>2. WD!DeliveryConstants
      BY ServicesAssumption
    <3> QED BY <2>2, <3>1, <3>2, DeliveryNextInv
  <2> QED BY <2>1, <2>2, DeliverySteps
<1> QED BY <1>1, DeliveryInvariant, PTL
        DEF Spec, DisabledOnlyAfterExhausted, WD!DisabledOnlyAfterExhausted

---------------------------------------------------------------------------
(* The hot wallet                                                          *)

Moving(steps) == {s \in Sweeps : sweep[s].at \in steps}
SweepAmounts == [s \in Sweeps |-> sweep[s].amount]
InFlight(steps) == Sum(SweepAmounts, Moving(steps))

(* What has left the hot wallet is recorded, or a sweep is about to do it. *)
Accounted ==
    /\ coldChain = coldBalance + InFlight({"hot", "cold"})
    /\ hotBalance = FirstBalance - coldChain + InFlight({"hot"})

FewMove == IsFiniteSet(Moving({"hot", "cold"})) /\ IsFiniteSet(Moving({"hot"}))

WalletInv == HW!WalletTypeOK /\ FewMove /\ (~lost => Accounted)

SweepRecord == [at : HW!SweepSteps, amount : Nat, read : Int]

LEMMA WalletStarts == ASSUME HW!WalletConstants, Init PROVE WalletInv
<1>1. Moving({"hot", "cold"}) = {} /\ Moving({"hot"}) = {}
  BY DEF Init, HW!WalletInit, Moving
<1>2. FewMove /\ InFlight({"hot", "cold"}) = 0 /\ InFlight({"hot"}) = 0
  BY <1>1, FS_EmptySet, SumEmpty DEF FewMove, InFlight
<1>3. /\ hotBalance = FirstBalance /\ hotChain = FirstBalance /\ coldBalance = 0 /\ coldChain = 0
      /\ sweep \in [Sweeps -> SweepRecord] /\ lost = FALSE /\ FirstBalance \in Nat
  BY DEF Init, HW!WalletInit, HW!WalletConstants, SweepRecord, HW!SweepSteps
<1>4. HW!WalletTypeOK
  <2>1. lost \in BOOLEAN
    BY <1>3, Zenon
  <2>2. FirstBalance \in Int /\ 0 \in Int /\ 0 \in Nat
    BY <1>3
  <2> QED BY <1>3, <2>1, <2>2, Zenon DEF HW!WalletTypeOK, SweepRecord
<1> QED
  BY <1>2, <1>3, <1>4 DEF WalletInv, Accounted

Counts(r, steps) == IF r.at \in steps THEN r.amount ELSE 0

(* A sweep that moves counts for what it is now and no more for what it    *)
(* was.                                                                    *)
LEMMA SweepMoves ==
    ASSUME HW!WalletTypeOK, NEW s \in Sweeps, NEW r \in SweepRecord,
           sweep' = [sweep EXCEPT ![s] = r], NEW K, IsFiniteSet(Moving(K))
    PROVE  /\ IsFiniteSet(Moving(K)')
           /\ InFlight(K) \in Int
           /\ InFlight(K)' = InFlight(K) + Counts(r, K) - Counts(sweep[s], K)
<1> DEFINE M == Moving(K)
           N == Moving(K)'
           f == SweepAmounts
           g == SweepAmounts'
<1>1. sweep \in [Sweeps -> SweepRecord] /\ sweep' \in [Sweeps -> SweepRecord]
  BY DEF HW!WalletTypeOK, SweepRecord
<1>2. sweep'[s] = r /\ \A t \in Sweeps : t # s => sweep'[t] = sweep[t]
  BY <1>1
<1>3. /\ M \subseteq Sweeps /\ N \subseteq Sweeps
      /\ s \in M <=> sweep[s].at \in K
      /\ s \in N <=> r.at \in K
      /\ \A t \in Sweeps : t # s => (t \in M <=> t \in N)
  BY <1>2 DEF Moving
<1>4. /\ \A t \in Sweeps : f[t] \in Int /\ g[t] \in Int
      /\ f[s] = sweep[s].amount /\ g[s] = r.amount
      /\ \A t \in Sweeps : t # s => f[t] = g[t]
  BY <1>1, <1>2 DEF SweepAmounts, SweepRecord
<1>5. InFlight(K) = Sum(f, M) /\ InFlight(K)' = Sum(g, N) /\ IsFiniteSet(M)
  BY DEF InFlight
<1> HIDE DEF M, N, f, g
<1>6. IsFiniteSet(M \ {s}) /\ (M \ {s}) = (N \ {s})
  BY <1>3, <1>5, FS_RemoveElement
<1>7. IsFiniteSet(N)
  <2>1. IsFiniteSet((M \ {s}) \cup {s})
    BY <1>6, FS_AddElement
  <2>2. N \subseteq (M \ {s}) \cup {s}
    BY <1>6
  <2> QED BY <2>1, <2>2, FS_Subset
<1>8. Sum(f, M \ {s}) \in Int /\ Sum(f, M \ {s}) = Sum(g, N \ {s})
  <2>1. \A t \in M \ {s} : f[t] \in Int /\ f[t] = g[t]
    BY <1>3, <1>4
  <2> QED BY <1>6, <2>1, SumInt, SumSame
<1>9. Sum(f, M) = Counts(sweep[s], K) + Sum(f, M \ {s})
  <2>1. CASE s \in M
    <3>1. \A t \in M : f[t] \in Int
      BY <1>3, <1>4
    <3>2. Sum(f, M) = f[s] + Sum(f, M \ {s})
      BY <2>1, <3>1, <1>5, <1>7, SumRemove
    <3> QED BY <2>1, <3>2, <1>3, <1>4 DEF Counts
  <2>2. CASE s \notin M
    <3>1. Sum(f, M \ {s}) = Sum(f, M)
      <4>1. M \ {s} = M
        BY <2>2
      <4> QED BY <4>1
    <3>2. Counts(sweep[s], K) = 0
      BY <2>2, <1>3 DEF Counts
    <3> QED BY <3>1, <3>2, <1>8
  <2> QED BY <2>1, <2>2
<1>10. Sum(g, N) = Counts(r, K) + Sum(g, N \ {s})
  <2>1. CASE s \in N
    <3>1. \A t \in N : g[t] \in Int
      BY <1>3, <1>4
    <3>2. Sum(g, N) = g[s] + Sum(g, N \ {s})
      BY <2>1, <3>1, <1>5, <1>7, SumRemove
    <3> QED BY <2>1, <3>2, <1>3, <1>4 DEF Counts
  <2>2. CASE s \notin N
    <3>1. Sum(g, N \ {s}) = Sum(g, N)
      <4>1. N \ {s} = N
        BY <2>2
      <4> QED BY <4>1
    <3>2. Counts(r, K) = 0
      BY <2>2, <1>3 DEF Counts
    <3> QED BY <3>1, <3>2, <1>8
  <2> QED BY <2>1, <2>2
<1>11. Counts(r, K) \in Int /\ Counts(sweep[s], K) \in Int
  BY <1>1 DEF Counts, SweepRecord
<1>12. N = Moving(K)'
  BY DEF N
<1> QED BY <1>5, <1>7, <1>8, <1>9, <1>10, <1>11, <1>12

LEMMA SweepGoes ==
    ASSUME HW!WalletTypeOK, NEW s \in Sweeps, NEW step \in HW!SweepSteps, HW!SweepAt(s, step)
    PROVE  LET r == [at |-> step, amount |-> sweep[s].amount, read |-> sweep[s].read]
           IN  r \in SweepRecord /\ sweep' = [sweep EXCEPT ![s] = r]
<1>1. sweep[s] \in SweepRecord
  BY DEF HW!WalletTypeOK, SweepRecord
<1>2. [sweep[s] EXCEPT !.at = step]
         = [at |-> step, amount |-> sweep[s].amount, read |-> sweep[s].read]
  BY <1>1 DEF SweepRecord
<1> QED BY <1>1, <1>2 DEF HW!SweepAt, SweepRecord

(* A step moves one sweep, and the balances as it says.                    *)
LEMMA WalletStaysSafe ==
    ASSUME HW!WalletConstants, WalletInv, HW!WalletNext
    PROVE  WalletInv'
<1> USE DEF WalletInv
<1>0. /\ hotBalance \in Int /\ coldBalance \in Int /\ hotChain \in Nat /\ coldChain \in Nat
      /\ sweep \in [Sweeps -> SweepRecord] /\ lost \in BOOLEAN /\ FirstBalance \in Nat
      /\ HotMinAmount \in Nat
  BY DEF HW!WalletTypeOK, SweepRecord, HW!WalletConstants
<1>1. CASE HW!Traffic
  BY <1>0, <1>1
     DEF HW!Traffic, HW!WalletTypeOK, FewMove, Accounted, InFlight, Moving, SweepAmounts
<1>2. ASSUME NEW s \in Sweeps, NEW r \in SweepRecord, sweep' = [sweep EXCEPT ![s] = r],
             lost' \in BOOLEAN, lost => lost',
             hotBalance' \in Int, coldBalance' \in Int, hotChain' \in Nat, coldChain' \in Nat,
             ~lost' =>
                /\ coldChain' - coldChain
                      = coldBalance' - coldBalance
                           + Counts(r, {"hot", "cold"}) - Counts(sweep[s], {"hot", "cold"})
                /\ hotBalance' - hotBalance
                      = coldChain - coldChain' + Counts(r, {"hot"}) - Counts(sweep[s], {"hot"})
      PROVE  WalletInv'
  <2>1. HW!WalletTypeOK'
    <3>1. sweep' \in [Sweeps -> SweepRecord]
      BY <1>0, <1>2
    <3> QED BY <3>1, <1>2 DEF HW!WalletTypeOK, SweepRecord
  <2>2. /\ IsFiniteSet(Moving({"hot", "cold"})')
        /\ InFlight({"hot", "cold"}) \in Int
        /\ InFlight({"hot", "cold"})' = InFlight({"hot", "cold"})
              + Counts(r, {"hot", "cold"}) - Counts(sweep[s], {"hot", "cold"})
    BY <1>2, SweepMoves DEF FewMove
  <2>3. /\ IsFiniteSet(Moving({"hot"})')
        /\ InFlight({"hot"}) \in Int
        /\ InFlight({"hot"})'
              = InFlight({"hot"}) + Counts(r, {"hot"}) - Counts(sweep[s], {"hot"})
    BY <1>2, SweepMoves DEF FewMove
  <2>4. \A K : Counts(r, K) \in Int /\ Counts(sweep[s], K) \in Int
    BY <1>0 DEF Counts, SweepRecord
  <2>5. ASSUME ~lost' PROVE Accounted'
    <3>1. Accounted
      BY <1>2, <2>5
    <3> HIDE DEF InFlight, Counts
    <3> QED BY <3>1, <1>0, <1>2, <2>2, <2>3, <2>4, <2>5 DEF Accounted
  <2> QED BY <2>1, <2>2, <2>3, <2>5 DEF FewMove
<1>3. ASSUME NEW s \in Sweeps,
             \/ HW!StartSweep(s) \/ HW!AutoSweepCheck(s) \/ HW!ReadBalance(s)
             \/ HW!SendTransaction(s) \/ HW!DecrementHot(s) \/ HW!IncrementCold(s)
             \/ HW!SweepFails(s)
      PROVE  WalletInv'
  <2> DEFINE At(step) == [at |-> step, amount |-> sweep[s].amount, read |-> sweep[s].read]
  <2>0. \A step \in HW!SweepSteps :
           HW!SweepAt(s, step) =>
              At(step) \in SweepRecord /\ sweep' = [sweep EXCEPT ![s] = At(step)]
    BY SweepGoes
  <2>a. sweep[s] \in SweepRecord
    BY <1>0
  <2>b. \A step \in HW!SweepSteps :
           /\ At(step).at = step /\ At(step).amount = sweep[s].amount
    OBVIOUS
  <2> HIDE DEF At
  <2>1. CASE HW!StartSweep(s)
    <3>1. PICK step \in {"check", "read"} : HW!SweepAt(s, step)
      BY <2>1 DEF HW!StartSweep
    <3>2. step \in HW!SweepSteps
      BY DEF HW!SweepSteps
    <3> QED BY <2>0, <2>b, <2>1, <3>1, <3>2, <1>0, <1>2 DEF HW!StartSweep, Counts
  <2>2. CASE HW!AutoSweepCheck(s)
    <3>1. PICK step \in {"read", "ended"} : HW!SweepAt(s, step)
      BY <2>2 DEF HW!AutoSweepCheck
    <3>2. step \in HW!SweepSteps
      BY DEF HW!SweepSteps
    <3> QED BY <2>0, <2>b, <2>2, <3>1, <3>2, <1>0, <1>2 DEF HW!AutoSweepCheck, Counts
  <2>3. CASE HW!ReadBalance(s)
    <3>1. CASE HW!SweepAt(s, "ended")
      <4>1. "ended" \in HW!SweepSteps
        BY DEF HW!SweepSteps
      <4> QED BY <2>0, <2>b, <2>3, <3>1, <4>1, <1>0, <1>2 DEF HW!ReadBalance, Counts
    <3>2. CASE ~HW!SweepAt(s, "ended")
      <4>1. PICK amount \in (1..FirstBalance) \cup {hotBalance - HotMinAmount} :
               /\ amount > 0
               /\ sweep' = [sweep EXCEPT ![s] =
                     [at |-> "send", amount |-> amount, read |-> hotBalance]]
        BY <2>3, <3>2 DEF HW!ReadBalance
      <4>2. amount \in Nat
        BY <4>1, <1>0
      <4> DEFINE r == [at |-> "send", amount |-> amount, read |-> hotBalance]
      <4>3. r \in SweepRecord /\ r.at = "send"
        BY <4>2, <1>0 DEF SweepRecord, HW!SweepSteps
      <4> HIDE DEF r
      <4>4. sweep' = [sweep EXCEPT ![s] = r]
        BY <4>1 DEF r
      <4>5. /\ sweep[s].at = "read"
            /\ UNCHANGED <<hotBalance, coldBalance, hotChain, coldChain, lost>>
        BY <2>3 DEF HW!ReadBalance
      <4>6. /\ Counts(r, {"hot", "cold"}) = 0 /\ Counts(sweep[s], {"hot", "cold"}) = 0
            /\ Counts(r, {"hot"}) = 0 /\ Counts(sweep[s], {"hot"}) = 0
        BY <4>3, <4>5 DEF Counts
      <4> HIDE DEF Counts
      <4>7. lost' \in BOOLEAN /\ (lost => lost')
        BY <4>5, <1>0, Zenon
      <4>8. /\ hotBalance' \in Int /\ coldBalance' \in Int /\ hotChain' \in Nat /\ coldChain' \in Nat
            /\ hotBalance' - hotBalance = 0 /\ coldBalance' - coldBalance = 0
            /\ coldChain' - coldChain = 0 /\ coldChain - coldChain' = 0
        BY <4>5, <1>0
      <4>9. /\ coldChain' - coldChain
                  = coldBalance' - coldBalance
                       + Counts(r, {"hot", "cold"}) - Counts(sweep[s], {"hot", "cold"})
            /\ hotBalance' - hotBalance
                  = coldChain - coldChain' + Counts(r, {"hot"}) - Counts(sweep[s], {"hot"})
        BY <4>6, <4>8
      <4> QED BY <4>3, <4>4, <4>7, <4>8, <4>9, <1>2
    <3> QED BY <3>1, <3>2
  <2>4. CASE HW!SendTransaction(s)
    <3>1. {"hot", "ended"} \subseteq HW!SweepSteps
      BY DEF HW!SweepSteps
    <3>2. CASE sweep[s].amount <= hotChain /\ hotChain' = hotChain - sweep[s].amount
      <4>1. sweep[s].at = "send" /\ UNCHANGED <<hotBalance, coldBalance>>
        BY <2>4 DEF HW!SendTransaction
      <4>2. CASE HW!SweepAt(s, "hot") /\ UNCHANGED lost
                    /\ coldChain' = coldChain + sweep[s].amount
        BY <2>0, <2>a, <2>b, <3>1, <3>2, <4>1, <4>2, <1>0, <1>2 DEF Counts, SweepRecord
      <4>3. CASE HW!SweepAt(s, "ended") /\ lost'
                    /\ coldChain' = coldChain + sweep[s].amount
        BY <2>0, <2>a, <2>b, <3>1, <3>2, <4>1, <4>3, <1>0, <1>2 DEF Counts, SweepRecord
      <4>4. CASE HW!SweepAt(s, "ended") /\ UNCHANGED <<hotChain, coldChain, lost>>
        BY <2>0, <2>a, <2>b, <3>1, <4>1, <4>4, <1>0, <1>2 DEF Counts, SweepRecord
      <4> QED BY <2>4, <4>2, <4>3, <4>4 DEF HW!SendTransaction
    <3>3. CASE HW!SweepAt(s, "ended") /\ UNCHANGED <<hotChain, coldChain, lost>>
      <4>1. sweep[s].at = "send" /\ UNCHANGED <<hotBalance, coldBalance>>
        BY <2>4 DEF HW!SendTransaction
      <4> QED BY <2>0, <2>a, <2>b, <3>1, <3>3, <4>1, <1>0, <1>2 DEF Counts, SweepRecord
    <3> QED BY <2>4, <3>2, <3>3 DEF HW!SendTransaction
  <2>5. CASE HW!DecrementHot(s)
    <3>1. "cold" \in HW!SweepSteps
      BY DEF HW!SweepSteps
    <3> QED BY <2>0, <2>a, <2>b, <2>5, <3>1, <1>0, <1>2 DEF HW!DecrementHot, Counts, SweepRecord
  <2>6. CASE HW!IncrementCold(s)
    <3>1. "ended" \in HW!SweepSteps
      BY DEF HW!SweepSteps
    <3> QED BY <2>0, <2>a, <2>b, <2>6, <3>1, <1>0, <1>2 DEF HW!IncrementCold, Counts, SweepRecord
  <2>7. CASE HW!SweepFails(s)
    <3>1. "ended" \in HW!SweepSteps
      BY DEF HW!SweepSteps
    <3>2. /\ At("ended") \in SweepRecord /\ sweep' = [sweep EXCEPT ![s] = At("ended")]
          /\ At("ended").at = "ended" /\ UNCHANGED <<hotBalance, coldBalance, hotChain, coldChain>>
      BY <2>0, <2>b, <2>7, <3>1 DEF HW!SweepFails
    <3>3. /\ lost' \in BOOLEAN
          /\ lost => lost'
          /\ ~lost' => ~(sweep[s].at \in {"hot", "cold"})
      BY <2>7, Zenon DEF HW!SweepFails
    <3>4. /\ Counts(At("ended"), {"hot", "cold"}) = 0
          /\ Counts(At("ended"), {"hot"}) = 0
      BY <3>2 DEF Counts
    <3>5. ASSUME ~lost'
          PROVE  /\ Counts(sweep[s], {"hot", "cold"}) = 0
                 /\ Counts(sweep[s], {"hot"}) = 0
      <4>1. ~(sweep[s].at \in {"hot", "cold"})
        BY <3>3, <3>5, Zenon
      <4>2. ~(sweep[s].at \in {"hot"})
        BY <4>1
      <4> QED BY <4>1, <4>2, Zenon DEF Counts
    <3>6. /\ hotBalance' \in Int /\ coldBalance' \in Int /\ hotChain' \in Nat /\ coldChain' \in Nat
          /\ hotBalance' - hotBalance = 0 /\ coldBalance' - coldBalance = 0
          /\ coldChain' - coldChain = 0 /\ coldChain - coldChain' = 0
      BY <3>2, <1>0
    <3>7. ASSUME ~lost'
          PROVE  /\ coldChain' - coldChain
                        = coldBalance' - coldBalance
                             + Counts(At("ended"), {"hot", "cold"})
                             - Counts(sweep[s], {"hot", "cold"})
                 /\ hotBalance' - hotBalance
                        = coldChain - coldChain'
                             + Counts(At("ended"), {"hot"}) - Counts(sweep[s], {"hot"})
      BY <3>4, <3>5, <3>6, <3>7
    <3> QED BY <3>2, <3>3, <3>6, <3>7, <1>2
  <2> QED BY <1>3, <2>1, <2>2, <2>3, <2>4, <2>5, <2>6, <2>7
<1> QED BY <1>1, <1>3 DEF HW!WalletNext

LEMMA WalletSteps == [Next]_vars => HW!WalletNext \/ UNCHANGED <<faults, walletVars>>
BY FaultsStay DEF Next, vars, walletVars

LEMMA WalletInvariant == Spec => []WalletInv
<1>0. HW!WalletConstants
  BY ServicesAssumption
<1>1. Init => WalletInv
  BY <1>0, WalletStarts
<1>2. WalletInv /\ [Next]_vars => WalletInv'
  <2> SUFFICES ASSUME WalletInv, [Next]_vars PROVE WalletInv'
    OBVIOUS
  <2>1. CASE HW!WalletNext
    BY <1>0, <2>1, WalletStaysSafe
  <2>2. CASE UNCHANGED <<faults, walletVars>>
    BY <2>2 DEF walletVars, WalletInv, HW!WalletTypeOK, FewMove, Accounted, InFlight, Moving,
                SweepAmounts
  <2> QED BY <2>1, <2>2, WalletSteps
<1> QED BY <1>1, <1>2, PTL DEF Spec

(* However many sweeps read the same balance at once, what the rows of the *)
(* two wallets say is in the end what was moved, unless a sweep was lost   *)
(* between its transfer and its records.                                   *)
THEOREM SweepsTheorem == Spec => []SweepsAreRecorded
<1>1. WalletInv => SweepsAreRecorded
  <2> SUFFICES ASSUME WalletInv, HW!Idle, ~lost
               PROVE  coldBalance = coldChain /\ hotBalance = FirstBalance - coldChain
    BY DEF SweepsAreRecorded, HW!SweepsAreRecorded
  <2>1. Moving({"hot", "cold"}) = {} /\ Moving({"hot"}) = {}
    BY DEF HW!Idle, Moving
  <2>2. InFlight({"hot", "cold"}) = 0 /\ InFlight({"hot"}) = 0
    BY <2>1, SumEmpty DEF InFlight
  <2> QED BY <2>2, ServicesAssumption
          DEF WalletInv, Accounted, HW!WalletTypeOK, HW!WalletConstants
<1> QED BY <1>1, WalletInvariant, PTL

---------------------------------------------------------------------------
(* The exchange rates                                                      *)

(* A source left out or not, some of the others report less than the       *)
(* median, or as much, and some more, or as much.                          *)
Middle(rates, m, S) ==
    \E a, b \in S : rates[a] <= m /\ m <= rates[b]

LEMMA MedianIsMiddle ==
    ASSUME NEW S, IsFiniteSet(S), S # {}, NEW rates \in [S -> Nat]
    PROVE  /\ RA!Median(rates) \in Nat
           /\ Middle(rates, RA!Median(rates), S)
           /\ Cardinality(S) > 2 => \A x \in S : Middle(rates, RA!Median(rates), S \ {x})
<1> DEFINE q == RA!Sorted(rates)
           n == Cardinality(S)
           mid == n \div 2
           m == RA!Median(rates)
<1>1. Ascending(q, rates, S)
  <2>1. \E p : Ascending(p, rates, S)
    BY AscendingExists
  <2>2. DOMAIN rates = S /\ RA!Cardinality(S) = Cardinality(S)
    BY DEF Cardinality, RA!Cardinality
  <2>3. RA!Bijection(1..n, S) = Bijection(1..n, S)
    BY DEF RA!Bijection, RA!Injection, RA!Surjection, RA!IsInjective,
           Bijection, Injection, Surjection, IsInjective
  <2>4. \A p \in Bijection(1..n, S) : DOMAIN p = 1..n
    BY DEF Bijection, Injection
  <2>5. \E p \in RA!Bijection(1..n, S) :
           \A i, j \in DOMAIN p : i < j => rates[p[i]] <= rates[p[j]]
    BY <2>1, <2>3, <2>4 DEF Ascending
  <2>6. /\ q \in RA!Bijection(1..n, S)
        /\ \A i, j \in DOMAIN q : i < j => rates[q[i]] <= rates[q[j]]
    BY <2>2, <2>5 DEF RA!Sorted
  <2> QED BY <2>3, <2>4, <2>6 DEF Ascending
<1>2. n \in Nat /\ n # 0
  BY FS_CardinalityType, FS_EmptySet
<1>3. m = IF n % 2 = 0 THEN (rates[q[mid]] + rates[q[mid + 1]]) \div 2 ELSE rates[q[mid + 1]]
  BY DEF RA!Median, Cardinality, RA!Cardinality
<1> HIDE DEF q, n, m
<1>4. /\ \A i \in 1..n : q[i] \in S /\ rates[q[i]] \in Nat
      /\ \A i, j \in 1..n : i # j => q[i] # q[j]
      /\ \A i, j \in 1..n : i < j => rates[q[i]] <= rates[q[j]]
  BY <1>1 DEF Ascending, Bijection, Injection, IsInjective, n
<1>5. CASE n % 2 = 1
  <2>1. mid \in Nat /\ n = 2 * mid + 1 /\ mid + 1 \in 1..n
    BY <1>2, <1>5
  <2> HIDE DEF mid
  <2>2. m = rates[q[mid + 1]] /\ m \in Nat /\ q[mid + 1] \in S
    BY <1>3, <1>4, <1>5, <2>1
  <2>3. Middle(rates, m, S)
    BY <2>2 DEF Middle
  <2>4. ASSUME n > 2, NEW x \in S PROVE Middle(rates, m, S \ {x})
    <3>1. mid \in 1..n /\ mid + 2 \in 1..n /\ mid < mid + 1 /\ mid + 1 < mid + 2
      BY <2>1, <2>4
    <3>2. CASE x = q[mid + 1]
      <4>1. q[mid] \in S \ {x} /\ q[mid + 2] \in S \ {x}
        BY <1>4, <2>1, <3>1, <3>2
      <4>2. rates[q[mid]] <= m /\ m <= rates[q[mid + 2]]
        BY <1>4, <2>1, <2>2, <3>1
      <4> QED BY <4>1, <4>2 DEF Middle
    <3>3. CASE x # q[mid + 1]
      BY <2>2, <3>3 DEF Middle
    <3> QED BY <3>2, <3>3
  <2> QED BY <2>2, <2>3, <2>4 DEF m, n
<1>6. CASE n % 2 = 0
  <2>1. mid \in 1..n /\ n = 2 * mid /\ mid + 1 \in 1..n /\ mid < mid + 1
    BY <1>2, <1>6
  <2> HIDE DEF mid
  <2> DEFINE a == rates[q[mid]]
             b == rates[q[mid + 1]]
  <2>2. a \in Nat /\ b \in Nat /\ a <= b
    BY <1>4, <2>1
  <2>3. m = (a + b) \div 2
    BY <1>3, <1>6
  <2>4. q[mid] \in S /\ q[mid + 1] \in S
    BY <1>4, <2>1
  <2> HIDE DEF a, b
  <2>5. m \in Nat /\ a <= m /\ m <= b
    BY <2>2, <2>3
  <2>6. Middle(rates, m, S)
    BY <2>4, <2>5 DEF Middle, a, b
  <2>7. ASSUME n > 2, NEW x \in S PROVE Middle(rates, m, S \ {x})
    <3>1. mid - 1 \in 1..n /\ mid + 2 \in 1..n /\ mid - 1 < mid /\ mid + 1 < mid + 2
      BY <2>1, <2>7
    <3>2. rates[q[mid - 1]] <= a /\ rates[q[mid - 1]] \in Nat
      BY <1>4, <2>1, <3>1 DEF a
    <3>3. b <= rates[q[mid + 2]] /\ rates[q[mid + 2]] \in Nat
      BY <1>4, <2>1, <3>1 DEF b
    <3>4. q[mid] # x \/ q[mid - 1] # x
      BY <1>4, <2>1, <3>1
    <3>5. q[mid + 1] # x \/ q[mid + 2] # x
      BY <1>4, <2>1, <3>1
    <3>6. q[mid - 1] \in S /\ q[mid + 2] \in S
      BY <1>4, <3>1
    <3>7. \E c \in S \ {x} : rates[c] <= m
      BY <2>2, <2>4, <2>5, <3>2, <3>4, <3>6 DEF a
    <3>8. \E d \in S \ {x} : m <= rates[d]
      BY <2>2, <2>4, <2>5, <3>3, <3>5, <3>6 DEF b
    <3> QED BY <3>7, <3>8 DEF Middle
  <2> QED BY <2>5, <2>6, <2>7 DEF m, n
<1> QED BY <1>2, <1>5, <1>6

LEMMA Extremes ==
    ASSUME NEW S, IsFiniteSet(S), S # {}, NEW rates, \A s \in S : rates[s] \in Nat
    PROVE  /\ RA!Lowest(S, rates) \in Nat /\ RA!Highest(S, rates) \in Nat
           /\ \A s \in S : RA!Lowest(S, rates) <= rates[s] /\ rates[s] <= RA!Highest(S, rates)
<1> DEFINE V == {rates[s] : s \in S}
           lowest == RA!Lowest(S, rates)
           highest == RA!Highest(S, rates)
<1>1. V \in SUBSET Nat /\ V # {} /\ \A s \in S : rates[s] \in V
  OBVIOUS
<1>2. IsFiniteSet(V)
  <2>1. [s \in S |-> rates[s]] \in Surjection(S, V)
    BY DEF Surjection
  <2> QED BY <2>1, FS_Surjection
<1>3. \E n \in V : \A t \in S : n <= rates[t]
  <2> HIDE DEF V
  <2>1. \E n \in V : \A k \in V : n <= k
    BY <1>1, Least
  <2> QED BY <1>1, <2>1
<1>4. \E n \in V : \A t \in S : n >= rates[t]
  <2> HIDE DEF V
  <2>1. \E n \in V : \A k \in V : k <= n
    BY <1>1, <1>2, Greatest
  <2> QED BY <1>1, <2>1
<1>5. lowest \in V /\ \A t \in S : lowest <= rates[t]
  BY <1>3 DEF RA!Lowest
<1>6. highest \in V /\ \A t \in S : highest >= rates[t]
  BY <1>4 DEF RA!Highest
<1> HIDE DEF lowest, highest
<1>7. lowest \in Nat /\ highest \in Nat /\ \A s \in S : lowest <= rates[s] /\ rates[s] <= highest
  BY <1>1, <1>5, <1>6
<1> QED BY <1>7 DEF lowest, highest

(* No source decides this answer.                                          *)
Undecided(r) ==
    LET R == DOMAIN r.reported
    IN  R # {} =>
            /\ RA!Between(RA!Lowest(R, r.reported), r.rate, RA!Highest(R, r.reported))
            /\ RA!Cardinality(R) > 2 =>
                  \A s \in R :
                      RA!Between(98 * RA!Lowest(R \ {s}, r.reported), 100 * r.rate,
                                 102 * RA!Highest(R \ {s}, r.reported))

(* The median of what is left is as near the median of all as what is left *)
(* is.                                                                     *)
LEMMA AggregatedUndecided ==
    ASSUME RA!RatesConstants, NEW reported \in RA!Reports, DOMAIN reported # {}
    PROVE  LET r == RA!Aggregated(reported)
           IN  r.rate \in Nat /\ r.reported \in RA!Reports /\ Undecided(r)
<1> DEFINE R == DOMAIN reported
           m == RA!Median(reported)
           near == {s \in R : RA!Distance(reported[s], m) * 100 <= 2 * m}
           kept == RA!FilterOutliers(reported)
           K == DOMAIN kept
           rate == RA!Median(kept)
<1>1. PICK S \in SUBSET Sources : reported \in [S -> SourceRates]
  BY DEF RA!Reports
<1>2. R = S /\ IsFiniteSet(R) /\ R # {}
  <2>1. IsFiniteSet(Sources)
    BY DEF RA!RatesConstants, IsFiniteSet, RA!IsFiniteSet
  <2> QED BY <1>1, <2>1, FS_Subset
<1>3. reported \in [R -> Nat]
  <2>1. SourceRates \subseteq Nat
    BY DEF RA!RatesConstants
  <2> QED BY <1>1, <1>2, <2>1
<1>4. /\ m \in Nat /\ Middle(reported, m, R)
      /\ Cardinality(R) > 2 => \A x \in R : Middle(reported, m, R \ {x})
  BY <1>2, <1>3, MedianIsMiddle
<1> HIDE DEF m
<1>5. kept = IF near = {} THEN reported ELSE [s \in near |-> reported[s]]
  BY DEF RA!FilterOutliers, m
<1> HIDE DEF kept
<1>6. /\ K \subseteq R /\ K # {} /\ kept \in [K -> Nat] /\ \A s \in K : kept[s] = reported[s]
      /\ near # {} => K = near
  BY <1>2, <1>3, <1>5
<1>7. IsFiniteSet(K)
  BY <1>2, <1>6, FS_Subset
<1>8. rate \in Nat /\ Middle(kept, rate, K)
  BY <1>6, <1>7, MedianIsMiddle
<1> HIDE DEF rate, near, K
<1>9. PICK a \in K, b \in K : reported[a] <= rate /\ rate <= reported[b]
  BY <1>6, <1>8 DEF Middle
<1>10. a \in R /\ b \in R /\ reported[a] \in Nat /\ reported[b] \in Nat
  BY <1>3, <1>6, <1>9
<1>11. /\ RA!Lowest(R, reported) \in Nat /\ RA!Highest(R, reported) \in Nat
       /\ \A s \in R : RA!Lowest(R, reported) <= reported[s]
                          /\ reported[s] <= RA!Highest(R, reported)
  BY <1>2, <1>3, Extremes
<1>12. RA!Between(RA!Lowest(R, reported), rate, RA!Highest(R, reported))
  BY <1>8, <1>9, <1>10, <1>11 DEF RA!Between
<1>13. 98 * m <= 100 * rate /\ 100 * rate <= 102 * m
  <2>1. CASE near # {}
    <3>1. a \in near /\ b \in near
      BY <1>6, <1>9, <2>1
    <3>2. /\ RA!Distance(reported[a], m) * 100 <= 2 * m
          /\ RA!Distance(reported[b], m) * 100 <= 2 * m
      BY <3>1 DEF near
    <3> QED BY <1>4, <1>8, <1>9, <1>10, <3>2 DEF RA!Distance
  <2>2. CASE near = {}
    <3>1. rate = m
      BY <1>5, <2>2 DEF rate, m
    <3> QED BY <1>4, <3>1
  <2> QED BY <2>1, <2>2
<1>14. ASSUME Cardinality(R) > 2, NEW s \in R
       PROVE  RA!Between(98 * RA!Lowest(R \ {s}, reported), 100 * rate,
                         102 * RA!Highest(R \ {s}, reported))
  <2> DEFINE low == RA!Lowest(R \ {s}, reported)
             high == RA!Highest(R \ {s}, reported)
  <2>1. PICK c \in R \ {s}, d \in R \ {s} : reported[c] <= m /\ m <= reported[d]
    BY <1>4, <1>14 DEF Middle
  <2>2. IsFiniteSet(R \ {s}) /\ R \ {s} # {}
    BY <1>2, <2>1, FS_RemoveElement
  <2>3. \A t \in R \ {s} : reported[t] \in Nat
    BY <1>3
  <2>4. low \in Nat /\ high \in Nat /\ low <= reported[c] /\ reported[d] <= high
    BY <2>1, <2>2, <2>3, Extremes
  <2> HIDE DEF low, high
  <2>5. reported[c] \in Nat /\ reported[d] \in Nat
    BY <2>1, <2>3
  <2>6. low <= m /\ m <= high
    BY <1>4, <2>1, <2>4, <2>5
  <2>7. 98 * low <= 100 * rate /\ 100 * rate <= 102 * high
    BY <1>4, <1>8, <1>13, <2>4, <2>6
  <2> QED BY <2>7 DEF RA!Between, low, high
<1>15. RA!Cardinality(R) = Cardinality(R)
  BY DEF Cardinality, RA!Cardinality
<1>16. RA!Aggregated(reported) = [rate |-> rate, reported |-> reported]
  BY DEF RA!Aggregated, rate, kept
<1> HIDE DEF R
<1>17. DOMAIN reported = R
  BY DEF R
<1> DEFINE r == [rate |-> rate, reported |-> reported]
<1>18. r.rate = rate /\ r.reported = reported
  OBVIOUS
<1> HIDE DEF r
<1>19. Undecided(r)
  BY <1>12, <1>14, <1>15, <1>17, <1>18 DEF Undecided
<1> QED BY <1>8, <1>16, <1>18, <1>19 DEF r

RatesInv ==
    /\ RA!RatesTypeOK
    /\ Undecided(cachedRate) /\ Undecided(lastRate) /\ Undecided(answer)

Rated(r) == r.rate \in Nat /\ r.reported \in RA!Reports /\ Undecided(r)

LEMMA RatesAre ==
    RatesInv <=> Rated(cachedRate) /\ Rated(lastRate) /\ Rated(answer) /\ fetches \in 0..Fetches
BY DEF RatesInv, RA!RatesTypeOK, Rated

LEMMA NoRateRated == Rated(RA!NoRate)
<1>1. /\ RA!NoRate.rate = 0 /\ RA!NoRate.reported = [s \in {} |-> 0]
      /\ DOMAIN RA!NoRate.reported = {}
  BY DEF RA!NoRate
<1>2. RA!NoRate.reported \in [{} -> SourceRates]
  BY <1>1
<1>3. RA!NoRate.reported \in RA!Reports
  BY <1>2 DEF RA!Reports
<1> QED BY <1>1, <1>3 DEF Rated, Undecided

LEMMA RatesStart == ASSUME RA!RatesConstants, Init PROVE RatesInv
<1>1. /\ cachedRate = RA!NoRate /\ lastRate = RA!NoRate /\ answer = RA!NoRate
      /\ fetches \in 0..Fetches
  BY DEF Init, RA!RatesInit, RA!RatesConstants
<1> QED BY <1>1, NoRateRated, RatesAre

(* Cache and last rate hold answers as they were put together.             *)
LEMMA RatesStaySafe ==
    ASSUME RA!RatesConstants, RatesInv, RA!RatesNext
    PROVE  RatesInv'
<1>0. Rated(cachedRate) /\ Rated(lastRate) /\ Rated(answer) /\ fetches \in 0..Fetches
  BY RatesAre
<1>1. SUFFICES Rated(cachedRate') /\ Rated(lastRate') /\ Rated(answer') /\ fetches' \in 0..Fetches
  BY DEF RatesInv, RA!RatesTypeOK, Rated, Undecided
<1>2. CASE RA!UseCache \/ RA!UseFallback
  BY <1>0, <1>2 DEF RA!UseCache, RA!UseFallback
<1>3. CASE RA!CacheExpires
  BY <1>0, <1>3, NoRateRated DEF RA!CacheExpires
<1>4. CASE RA!Aggregate
  <2>1. PICK reported \in RA!Reports :
           /\ DOMAIN reported # {}
           /\ LET aggregated == RA!Aggregated(reported) IN
              \/ /\ cachedRate' = aggregated /\ lastRate' = aggregated /\ answer' = aggregated
              \/ /\ "redis" \in faults
                 /\ cachedRate' \in {cachedRate, aggregated}
                 /\ UNCHANGED <<lastRate, answer>>
    BY <1>4 DEF RA!Aggregate
  <2>2. Rated(RA!Aggregated(reported))
    BY <2>1, AggregatedUndecided DEF Rated
  <2>3. fetches' \in 0..Fetches
    BY <1>0, <1>4 DEF RA!Aggregate, RA!RatesConstants
  <2> QED BY <1>0, <2>1, <2>2, <2>3
<1> QED BY <1>2, <1>3, <1>4 DEF RA!RatesNext

LEMMA RatesSteps == [Next]_vars => RA!RatesNext \/ UNCHANGED <<faults, ratesVars>>
BY FaultsStay DEF Next, vars, ratesVars

LEMMA RatesInvariant == Spec => []RatesInv
<1>0. RA!RatesConstants
  BY ServicesAssumption
<1>1. Init => RatesInv
  BY <1>0, RatesStart
<1>2. RatesInv /\ [Next]_vars => RatesInv'
  <2> SUFFICES ASSUME RatesInv, [Next]_vars PROVE RatesInv'
    OBVIOUS
  <2>1. CASE RA!RatesNext
    BY <1>0, <2>1, RatesStaySafe
  <2>2. CASE UNCHANGED <<faults, ratesVars>>
    BY <2>2 DEF ratesVars, RatesInv, RA!RatesTypeOK, Undecided
  <2> QED BY <2>1, <2>2, RatesSteps
<1> QED BY <1>1, <1>2, PTL DEF Spec

(* Whatever a source says, it cannot move the answer more than 2 % beyond  *)
(* what the others say, if there are at least two others; and no answer,   *)
(* fresh, cached or fallen back to, is beyond what was reported.           *)
THEOREM RatesTheorem == Spec => []NoSourceDecides
<1>1. RatesInv => NoSourceDecides
  BY DEF RatesInv, Undecided, NoSourceDecides, RA!NoSourceDecides
<1> QED BY <1>1, RatesInvariant, PTL

---------------------------------------------------------------------------
(* The deposit addresses                                                   *)

AddressSteps == {"no", "count", "create", "incr", "seed", "set", "pay", "done", "failed"}
RequestRecord == [at : AddressSteps, index : Nat]

Wallets == {m \in Merchants : derivationIndex[m] # PA!NoWallet}

(* The requests of a merchant that have their index, or have used it.      *)
Held(m) == {r \in Requests : MerchantOf[r] = m /\ request[r].at \in {"pay", "done"}}

(* The wallet of a merchant is of the currency its requests go on with.    *)
HasWallet == \A r \in Requests :
    request[r].at \in {"incr", "seed", "set", "pay", "done"}
        => /\ derivationIndex[MerchantOf[r]] # PA!NoWallet
           /\ walletCrypto[MerchantOf[r]] = currency[r]

RowsAreDone ==
    /\ DOMAIN address = {r \in Requests : request[r].at = "done"}
    /\ \A r \in DOMAIN address :
          address[r] = <<PathOf[currency[r]], derivationIndex[MerchantOf[r]], request[r].index>>

FewHeld == IsFiniteSet(Wallets) /\ \A m \in Merchants : IsFiniteSet(Held(m))

Basics ==
    /\ PA!AddressTypeOK
    /\ \A m \in Wallets : derivationIndex[m] \in Nat
    /\ FewHeld /\ HasWallet /\ RowsAreDone
    /\ PA!Overlap => overlapped

(* The wallets of a currency are numbered as they were created.            *)
Numbered ==
    /\ \A c : \A m \in PA!Wallets(c) : derivationIndex[m] < Cardinality(PA!Wallets(c))
    /\ \A c : \A m, k \in PA!Wallets(c) : m # k => derivationIndex[m] # derivationIndex[k]
    /\ \A r \in Requests : request[r].at = "create"
          => request[r].index = Cardinality(PA!Wallets(currency[r]))

Apart(m) == \A r, s \in Held(m) : r # s => request[r].index # request[s].index

(* No row is given up: a merchant's payments have the first indices, and   *)
(* the counter is the last of them, unless it is lost or being seeded.     *)
Dense(m) ==
    /\ \A r \in Held(m) : request[r].index <= Cardinality(Held(m))
    /\ Apart(m)
    /\ \A r \in Requests : MerchantOf[r] = m =>
          /\ request[r].at = "seed" => request[r].index = 1 /\ paymentIndex[m] \in {0, 1}
          /\ request[r].at = "set" => request[r].index = Cardinality(Held(m)) + 1
    /\ (\A r \in Requests : MerchantOf[r] = m => request[r].at \notin {"seed", "set"})
          => paymentIndex[m] \in {0, Cardinality(Held(m))}

(* No counter is lost: it is not below any index that was given.           *)
Bounded(m) ==
    /\ \A r \in Held(m) : request[r].index <= paymentIndex[m]
    /\ Apart(m)
    /\ paymentIndex[m] = 0 => Held(m) = {}
    /\ \A r \in Requests : MerchantOf[r] = m =>
          /\ request[r].at = "seed" =>
                request[r].index = 1 /\ paymentIndex[m] = 1 /\ Held(m) = {}
          /\ request[r].at # "set"

AddressInv ==
    /\ Basics
    /\ ~overlapped =>
          /\ Numbered
          /\ "db" \notin faults => \A m \in Merchants : Dense(m)
          /\ "loses" \notin faults => \A m \in Merchants : Bounded(m)

LEMMA AddressTypes ==
    PA!AddressTypeOK =>
        /\ currency \in Currencies /\ walletCrypto \in [Merchants -> Cryptos \cup {""}]
        /\ derivationIndex \in [Merchants -> Int] /\ paymentIndex \in [Merchants -> Nat]
BY Zenon DEF PA!AddressTypeOK

LEMMA AddressStarts == ASSUME PA!AddressConstants, Init PROVE AddressInv
<1>1. /\ derivationIndex = [m \in Merchants |-> PA!NoWallet]
      /\ paymentIndex = [m \in Merchants |-> 0]
      /\ request = [r \in Requests |-> [at |-> "no", index |-> 0]]
      /\ address = [r \in {} |-> <<>>]
      /\ walletCrypto = [m \in Merchants |-> ""]
      /\ overlapped = FALSE
      /\ \A r \in Requests : MerchantOf[r] \in Merchants
  BY DEF Init, PA!AddressInit, PA!AddressConstants
<1>2. \A r \in Requests : request[r].at = "no"
  BY <1>1
<1>3. Wallets = {} /\ (\A c : PA!Wallets(c) = {}) /\ \A m \in Merchants : Held(m) = {}
  BY <1>1, <1>2 DEF Wallets, PA!Wallets, Held
<1>4. IsFiniteSet({}) /\ Cardinality({}) = 0
  BY FS_EmptySet
<1>5. PA!AddressTypeOK
  <2>1. -1 \in Int /\ 0 \in Nat
    OBVIOUS
  <2>5. DOMAIN address = {}
    BY <1>1, Zenon
  <2>2. request \in [Requests -> [at : {"no", "count", "create", "incr", "seed", "set", "pay",
                                        "done", "failed"}, index : Nat]]
    BY <1>1
  <2>3. overlapped \in BOOLEAN
    BY <1>1, Zenon
  <2>4. currency \in Currencies /\ walletCrypto \in [Merchants -> Cryptos \cup {""}]
    BY <1>1 DEF Init, PA!AddressInit
  <2> QED BY <1>1, <2>1, <2>2, <2>3, <2>4, <2>5 DEF PA!AddressTypeOK, PA!NoWallet
<1>6. Basics
  BY <1>1, <1>2, <1>3, <1>4, <1>5
     DEF Basics, FewHeld, HasWallet, RowsAreDone, PA!Overlap, PA!First
<1>7. Numbered /\ \A m \in Merchants : Dense(m) /\ Bounded(m)
  BY <1>1, <1>2, <1>3, <1>4 DEF Numbered, Dense, Bounded, Apart
<1> QED BY <1>6, <1>7 DEF AddressInv

Goes(r, step, i) == request' = [request EXCEPT ![r] = [at |-> step, index |-> i]]

LEMMA RequestGoes ==
    ASSUME PA!AddressTypeOK, NEW r \in Requests, NEW step \in AddressSteps, NEW i \in Nat,
           Goes(r, step, i)
    PROVE  /\ request' \in [Requests -> RequestRecord]
           /\ request'[r].at = step /\ request'[r].index = i
           /\ \A s \in Requests : s # r => request'[s] = request[s]
<1>1. request \in [Requests -> RequestRecord]
  BY DEF PA!AddressTypeOK, RequestRecord, AddressSteps
<1>2. [at |-> step, index |-> i] \in RequestRecord
  BY DEF RequestRecord
<1> QED BY <1>1, <1>2 DEF Goes

LEMMA GoToGoes ==
    ASSUME PA!AddressTypeOK, NEW r \in Requests, NEW step, PA!GoTo(r, step)
    PROVE  Goes(r, step, request[r].index) /\ request[r].index \in Nat
<1>1. request[r] \in RequestRecord
  BY DEF PA!AddressTypeOK, RequestRecord, AddressSteps
<1>2. [request[r] EXCEPT !.at = step] = [at |-> step, index |-> request[r].index]
  BY <1>1 DEF RequestRecord
<1> QED BY <1>1, <1>2 DEF Goes, PA!GoTo, RequestRecord

(* What a request that goes on does to those that hold an index.           *)
LEMMA HeldMoves ==
    ASSUME PA!AddressTypeOK, NEW r \in Requests, NEW step \in AddressSteps, NEW i \in Nat,
           Goes(r, step, i), NEW m
    PROVE  /\ MerchantOf[r] # m => Held(m)' = Held(m)
           /\ MerchantOf[r] = m /\ step \in {"pay", "done"} => Held(m)' = Held(m) \cup {r}
           /\ MerchantOf[r] = m /\ step \notin {"pay", "done"} => Held(m)' = Held(m) \ {r}
BY RequestGoes DEF Held

(* A request goes on: it may give its merchant a wallet, or write its row. *)
LEMMA BasicsStay ==
    ASSUME PA!AddressConstants, Basics, NEW r \in Requests, NEW step \in AddressSteps, NEW i \in Nat,
           Goes(r, step, i), request[r].at # "done",
           \/ UNCHANGED <<walletCrypto, derivationIndex>>
           \/ \E k \in Nat :
                 /\ derivationIndex[MerchantOf[r]] = PA!NoWallet
                 /\ derivationIndex' = [derivationIndex EXCEPT ![MerchantOf[r]] = k]
                 /\ walletCrypto' = [walletCrypto EXCEPT ![MerchantOf[r]] = currency[r]],
           paymentIndex' \in [Merchants -> Nat], UNCHANGED currency,
           step \in {"incr", "seed", "set", "pay", "done"}
              => /\ derivationIndex'[MerchantOf[r]] # PA!NoWallet
                 /\ walletCrypto'[MerchantOf[r]] = currency[r],
           step # "done" => UNCHANGED address,
           step = "done" =>
              /\ i = request[r].index /\ UNCHANGED derivationIndex
              /\ address' = [p \in DOMAIN address \cup {r} |->
                                IF p = r
                                THEN <<PathOf[currency[r]], derivationIndex[MerchantOf[r]], i>>
                                ELSE address[p]],
           overlapped' = (overlapped \/ PA!Overlap')
    PROVE  Basics'
<1> DEFINE n == MerchantOf[r]
<1>1. /\ request' \in [Requests -> RequestRecord]
      /\ request'[r].at = step /\ request'[r].index = i
      /\ \A s \in Requests : s # r => request'[s] = request[s]
  BY RequestGoes DEF Basics
<1>2. n \in Merchants /\ \A s \in Requests : MerchantOf[s] \in Merchants /\ currency[s] \in Cryptos
  BY DEF PA!AddressConstants, Basics, PA!AddressTypeOK
<1>3. /\ derivationIndex \in [Merchants -> Int] /\ derivationIndex' \in [Merchants -> Int]
      /\ \A m \in Merchants : derivationIndex[m] # PA!NoWallet
            => derivationIndex'[m] = derivationIndex[m] /\ derivationIndex[m] \in Nat
      /\ \A m \in Merchants : m # n => derivationIndex'[m] = derivationIndex[m]
      /\ derivationIndex'[n] # PA!NoWallet => derivationIndex'[n] \in Nat
  <2>1. derivationIndex \in [Merchants -> Int] /\ \A m \in Wallets : derivationIndex[m] \in Nat
    BY AddressTypes DEF Basics
  <2> QED BY <1>2, <2>1 DEF Wallets
<1>11. /\ walletCrypto' \in [Merchants -> Cryptos \cup {""}]
       /\ \A m \in Merchants : derivationIndex[m] # PA!NoWallet
             => walletCrypto'[m] = walletCrypto[m]
       /\ \A m \in Merchants : m # n => walletCrypto'[m] = walletCrypto[m]
  <2>1. walletCrypto \in [Merchants -> Cryptos \cup {""}]
    BY AddressTypes DEF Basics
  <2> QED BY <1>2, <2>1
<1>4. HasWallet'
  BY <1>1, <1>2, <1>3, <1>11 DEF Basics, HasWallet
<1>5. \A m \in Wallets' : derivationIndex'[m] \in Nat
  BY <1>3 DEF Wallets
<1>6. IsFiniteSet(Wallets')
  <2>1. Wallets' \subseteq Wallets \cup {n}
    BY <1>3 DEF Wallets
  <2>2. IsFiniteSet(Wallets \cup {n})
    BY FS_AddElement DEF Basics, FewHeld
  <2> QED BY <2>1, <2>2, FS_Subset
<1>7. ASSUME NEW m \in Merchants PROVE IsFiniteSet(Held(m)')
  <2>1. Held(m)' \subseteq Held(m) \cup {r}
    BY <1>1 DEF Held
  <2>2. IsFiniteSet(Held(m) \cup {r})
    BY FS_AddElement DEF Basics, FewHeld
  <2> QED BY <2>1, <2>2, FS_Subset
<1>8. RowsAreDone'
  <2>0. /\ DOMAIN address = {s \in Requests : request[s].at = "done"}
        /\ \A s \in DOMAIN address :
              address[s] = <<PathOf[currency[s]], derivationIndex[MerchantOf[s]],
                             request[s].index>>
        /\ \A s \in DOMAIN address : s # r /\ derivationIndex[MerchantOf[s]] # PA!NoWallet
    BY DEF Basics, RowsAreDone, HasWallet
  <2>a. \A s \in DOMAIN address :
           /\ s \in Requests /\ s # r /\ request'[s] = request[s]
           /\ derivationIndex'[MerchantOf[s]] = derivationIndex[MerchantOf[s]]
    BY <2>0, <1>1, <1>2, <1>3
  <2>1. CASE step # "done"
    <3>1. DOMAIN address' = {s \in Requests : request'[s].at = "done"}
      BY <2>0, <2>1, <1>1
    <3> QED BY <3>1, <2>0, <2>a, <2>1 DEF RowsAreDone
  <2>2. CASE step = "done"
    <3>1. DOMAIN address' = DOMAIN address \cup {r}
      BY <2>2
    <3>2. DOMAIN address' = {s \in Requests : request'[s].at = "done"}
      BY <2>0, <2>2, <1>1, <3>1
    <3>3. /\ address'[r] = <<PathOf[currency'[r]], derivationIndex'[n], request'[r].index>>
          /\ \A s \in DOMAIN address : address'[s] = address[s]
      BY <2>2, <2>a, <1>1
    <3> QED BY <3>1, <3>2, <3>3, <2>0, <2>a DEF RowsAreDone
  <2> QED BY <2>1, <2>2
<1>9. PA!AddressTypeOK'
  <2>1. \A s \in DOMAIN address' :
           s \in Requests /\ address'[s] \in {PathOf[c] : c \in Cryptos} \X Nat \X Nat
    <3>1. \A s \in DOMAIN address' :
             /\ s \in Requests /\ request'[s].at = "done"
             /\ address'[s] = <<PathOf[currency[s]], derivationIndex'[MerchantOf[s]],
                                request'[s].index>>
      BY <1>8 DEF RowsAreDone
    <3>2. \A s \in DOMAIN address' : derivationIndex'[MerchantOf[s]] \in Nat
      BY <1>2, <1>4, <1>5, <3>1 DEF HasWallet, Wallets
    <3>3. \A s \in DOMAIN address' : request'[s].index \in Nat
      BY <1>1, <3>1 DEF RequestRecord
    <3>4. \A s \in DOMAIN address' : PathOf[currency[s]] \in {PathOf[c] : c \in Cryptos}
      BY <1>2, <3>1
    <3> QED BY <3>1, <3>2, <3>3, <3>4
  <2>2. overlapped' \in BOOLEAN
    BY Zenon
  <2>3. currency' \in Currencies
    BY DEF Basics, PA!AddressTypeOK
  <2> QED BY <1>1, <1>3, <1>11, <2>1, <2>2, <2>3 DEF PA!AddressTypeOK, RequestRecord, AddressSteps
<1>10. PA!Overlap' => overlapped'
  BY Zenon
<1> QED BY <1>4, <1>5, <1>6, <1>7, <1>8, <1>9, <1>10 DEF Basics, FewHeld

LEMMA SameCount == \A S : PA!Cardinality(S) = Cardinality(S)
BY DEF PA!Cardinality, Cardinality

(* What is said of a merchant stays true while its counter does and none   *)
(* of its requests gets, uses up or loses an index.                        *)
LEMMA MerchantStays ==
    ASSUME NEW m, paymentIndex'[m] = paymentIndex[m],
           \A s \in Requests : MerchantOf[s] = m =>
              \/ request'[s] = request[s]
              \/ /\ request[s].at \notin {"seed", "set", "pay", "done"}
                 /\ request'[s].at \notin {"seed", "set", "pay", "done"}
              \/ /\ request[s].at = "pay" /\ request'[s].at = "done"
                 /\ request'[s].index = request[s].index
    PROVE  /\ Dense(m) => Dense(m)'
           /\ Bounded(m) => Bounded(m)'
<1>1. Held(m)' = Held(m) /\ \A s \in Held(m) : request'[s].index = request[s].index
  BY DEF Held
<1>2. Apart(m) => Apart(m)'
  BY <1>1 DEF Apart
<1>3. \A s \in Requests : MerchantOf[s] = m =>
         /\ request'[s].at = "seed" <=> request[s].at = "seed"
         /\ request'[s].at = "set" <=> request[s].at = "set"
         /\ request[s].at \in {"seed", "set"} => request'[s].index = request[s].index
  OBVIOUS
<1> QED BY <1>1, <1>2, <1>3 DEF Dense, Bounded

Nobody(r) == \A s \in Requests : s # r => ~PA!UnderWay(s)

LEMMA NobodyElse ==
    ASSUME Basics, ~overlapped, NEW r \in Requests
    PROVE  /\ PA!First(r) => Nobody(r)
           /\ PA!UnderWay(r) => \A s \in Requests : s # r => ~PA!First(s)
BY DEF Basics, PA!Overlap, Nobody

(* A request gets an index its merchant has not given yet.                 *)
LEMMA GetsIndex ==
    ASSUME Basics, NEW r \in Requests, NEW i \in Nat, Goes(r, "pay", i),
           request[r].at \notin {"pay", "done"}, NEW m \in Merchants, m = MerchantOf[r],
           \A s \in Held(m) : request[s].index < i
    PROVE  /\ Held(m)' = Held(m) \cup {r} /\ r \notin Held(m)
           /\ Cardinality(Held(m)') = Cardinality(Held(m)) + 1 /\ Cardinality(Held(m)) \in Nat
           /\ request'[r].index = i
           /\ \A s \in Held(m) : request'[s].index = request[s].index
           /\ Apart(m) => Apart(m)'
<1>1. Held(m)' = Held(m) \cup {r} /\ r \notin Held(m)
  BY HeldMoves DEF Basics, Held, AddressSteps
<1>2. Cardinality(Held(m) \cup {r}) = Cardinality(Held(m)) + 1 /\ Cardinality(Held(m)) \in Nat
  BY <1>1, FS_AddElement, FS_CardinalityType DEF Basics, FewHeld
<1>3. /\ request'[r].index = i
      /\ \A s \in Requests : s # r => request'[s] = request[s]
  BY RequestGoes DEF Basics, AddressSteps
<1>4. \A s \in Held(m) : s \in Requests /\ s # r /\ request[s].index \in Nat
  BY <1>1 DEF Held, Basics, PA!AddressTypeOK
<1>5. \A s \in Held(m) : request'[s].index = request[s].index /\ request[s].index # i
  BY <1>3, <1>4
<1>6. Apart(m) => Apart(m)'
  BY <1>1, <1>3, <1>5 DEF Apart
<1> QED BY <1>1, <1>2, <1>3, <1>5, <1>6

LEMMA IncrementsDense ==
    ASSUME PA!AddressConstants, Basics, ~overlapped, NEW r \in Requests, PA!IncrementIndex(r),
           NEW m \in Merchants, m = MerchantOf[r], Dense(m)
    PROVE  Dense(m)'
<1> DEFINE i == paymentIndex[m] + 1
           step == IF i = 1 THEN "seed" ELSE "pay"
           k == Cardinality(Held(m))
<1>1. /\ request[r].at = "incr" /\ paymentIndex' = [paymentIndex EXCEPT ![m] = i]
      /\ Goes(r, step, i)
  BY DEF PA!IncrementIndex, PA!GoToWith, Goes
<1>2. /\ paymentIndex \in [Merchants -> Nat] /\ i \in Nat /\ paymentIndex'[m] = i
      /\ PA!AddressTypeOK
  <2>1. paymentIndex \in [Merchants -> Nat] /\ PA!AddressTypeOK
    BY AddressTypes DEF Basics
  <2>2. paymentIndex[m] \in Nat
    BY <2>1
  <2> QED BY <1>1, <2>1, <2>2
<1>3. \A s \in Requests : s # r => request[s].at \notin {"seed", "set"}
  BY <1>1, NobodyElse DEF PA!UnderWay, PA!First
<1>4. paymentIndex[m] \in {0, k} /\ k \in Nat
  BY <1>1, <1>3, FS_CardinalityType DEF Dense, Basics, FewHeld
<1>5. step \in AddressSteps
  BY DEF AddressSteps
<1> HIDE DEF step
<1>6. /\ request'[r].at = step /\ request'[r].index = i
      /\ \A s \in Requests : s # r => request'[s] = request[s]
  BY <1>1, <1>2, <1>5, RequestGoes
<1>7. CASE paymentIndex[m] = 0
  <2>1. step = "seed" /\ i = 1
    BY <1>7 DEF step
  <2>2. Held(m)' = Held(m)
    BY <1>1, <1>2, <1>5, <2>1, HeldMoves DEF Held
  <2>3. \A s \in Held(m) : request'[s].index = request[s].index
    BY <1>1, <1>6 DEF Held
  <2>4. Apart(m)'
    BY <2>2, <2>3 DEF Dense, Apart
  <2> QED BY <1>2, <1>3, <1>6, <2>1, <2>2, <2>3, <2>4 DEF Dense
<1>8. CASE paymentIndex[m] # 0
  <2>1. step = "pay" /\ i = k + 1 /\ paymentIndex[m] = k
    BY <1>2, <1>4, <1>8 DEF step
  <2>2. \A s \in Held(m) : request[s].index < i /\ request[s].index \in Nat
    <3>1. \A s \in Held(m) : request[s].index \in Nat /\ request[s].index <= k
      BY DEF Dense, Held, Basics, PA!AddressTypeOK
    <3> QED BY <3>1, <1>4, <2>1
  <2> HIDE DEF i, k
  <2>3. /\ Held(m)' = Held(m) \cup {r} /\ Cardinality(Held(m)') = k + 1
        /\ \A s \in Held(m) : request'[s].index = request[s].index
        /\ Apart(m) => Apart(m)'
    BY <1>1, <1>2, <2>1, <2>2, GetsIndex DEF k
  <2>4. \A s \in Held(m)' : request'[s].index <= k + 1
    BY <1>4, <1>6, <2>1, <2>2, <2>3
  <2> QED BY <1>2, <1>3, <1>6, <2>1, <2>3, <2>4 DEF Dense
<1> QED BY <1>7, <1>8

LEMMA IncrementsBounded ==
    ASSUME PA!AddressConstants, Basics, ~overlapped, NEW r \in Requests, PA!IncrementIndex(r),
           NEW m \in Merchants, m = MerchantOf[r], Bounded(m)
    PROVE  Bounded(m)'
<1> DEFINE i == paymentIndex[m] + 1
           step == IF i = 1 THEN "seed" ELSE "pay"
<1>1. /\ request[r].at = "incr" /\ paymentIndex' = [paymentIndex EXCEPT ![m] = i]
      /\ Goes(r, step, i)
  BY DEF PA!IncrementIndex, PA!GoToWith, Goes
<1>2. /\ paymentIndex \in [Merchants -> Nat] /\ i \in Nat /\ paymentIndex'[m] = i /\ i # 0
      /\ PA!AddressTypeOK
  <2>1. paymentIndex \in [Merchants -> Nat] /\ PA!AddressTypeOK
    BY AddressTypes DEF Basics
  <2>2. paymentIndex[m] \in Nat
    BY <2>1
  <2> QED BY <1>1, <2>1, <2>2
<1>3. \A s \in Requests : s # r => request[s].at \notin {"seed", "set"}
  BY <1>1, NobodyElse DEF PA!UnderWay, PA!First
<1>4. \A s \in Held(m) : request[s].index \in Nat /\ request[s].index <= paymentIndex[m]
  BY DEF Bounded, Held, Basics, PA!AddressTypeOK
<1>5. step \in AddressSteps
  BY DEF AddressSteps
<1> HIDE DEF step
<1>6. /\ request'[r].at = step /\ request'[r].index = i
      /\ \A s \in Requests : s # r => request'[s] = request[s]
  BY <1>1, <1>2, <1>5, RequestGoes
<1>7. CASE paymentIndex[m] = 0
  <2>1. step = "seed" /\ i = 1
    BY <1>7 DEF step
  <2>2. Held(m)' = {}
    BY <1>1, <1>2, <1>5, <1>7, <2>1, HeldMoves DEF Bounded
  <2>3. Apart(m)'
    BY <2>2 DEF Apart
  <2> QED BY <1>2, <1>3, <1>6, <2>1, <2>2, <2>3 DEF Bounded
<1>8. CASE paymentIndex[m] # 0
  <2>1. step = "pay"
    BY <1>2, <1>8 DEF step
  <2>2. \A s \in Held(m) : request[s].index < i
    BY <1>2, <1>4
  <2>3. /\ Held(m)' = Held(m) \cup {r}
        /\ \A s \in Held(m) : request'[s].index = request[s].index
        /\ Apart(m) => Apart(m)'
    <3> HIDE DEF i
    <3> QED BY <1>1, <1>2, <2>1, <2>2, GetsIndex
  <2>4. \A s \in Held(m)' : request'[s].index <= i
    BY <1>2, <1>4, <1>6, <2>3
  <2> HIDE DEF i
  <2> QED BY <1>2, <1>3, <1>6, <2>1, <2>3, <2>4 DEF Bounded
<1> QED BY <1>7, <1>8

PaidAlike(r) ==
    {p \in DOMAIN address : MerchantOf[p] = MerchantOf[r] /\ currency[p] = currency[r]}

(* Who counts the rows of a merchant while nobody else is under way counts *)
(* all who hold an index.                                                  *)
LEMMA CountsHeld ==
    ASSUME Basics, ~overlapped, NEW r \in Requests, request[r].at = "seed",
           NEW m \in Merchants, m = MerchantOf[r]
    PROVE  /\ PaidAlike(r) = Held(m)
           /\ \A s \in Requests : s # r => request[s].at \notin {"seed", "set"}
           /\ r \notin Held(m)
<1>1. \A s \in Requests : s # r => ~PA!UnderWay(s)
  BY NobodyElse DEF PA!First, Nobody
<1>2. \A s \in Requests : s # r => request[s].at \in {"no", "done", "failed"}
  BY <1>1 DEF PA!UnderWay
<1>3. PaidAlike(r) = Held(m)
  <2>1. \A p \in Held(m) : p \in DOMAIN address /\ p \in Requests /\ request[p].at = "done"
    BY <1>2 DEF Basics, RowsAreDone, Held
  <2>2. \A p \in Held(m) : currency[p] = walletCrypto[m] /\ currency[r] = walletCrypto[m]
    BY <2>1 DEF Basics, HasWallet, Held
  <2> QED BY <2>1, <2>2 DEF Basics, RowsAreDone, Held, PaidAlike
<1> QED BY <1>2, <1>3 DEF Held

LEMMA CountsDense ==
    ASSUME PA!AddressConstants, Basics, ~overlapped, NEW r \in Requests, PA!CountPayments(r),
           NEW m \in Merchants, m = MerchantOf[r], Dense(m)
    PROVE  Dense(m)'
<1> DEFINE k == Cardinality(Held(m))
<1>1. request[r].at = "seed" /\ UNCHANGED paymentIndex /\ PA!AddressTypeOK
  BY DEF PA!CountPayments, Basics
<1>2. /\ PaidAlike(r) = Held(m)
      /\ \A s \in Requests : s # r => request[s].at \notin {"seed", "set"}
      /\ r \notin Held(m)
  BY <1>1, CountsHeld
<1>3. /\ k > 0 => PA!GoToWith(r, "set", k + 1)
      /\ ~(k > 0) => PA!GoTo(r, "pay")
  BY <1>2, SameCount DEF PA!CountPayments, PaidAlike
<1>4. k \in Nat /\ IsFiniteSet(Held(m)) /\ request[r].index = 1 /\ paymentIndex[m] \in {0, 1}
  BY <1>1, FS_CardinalityType DEF Basics, FewHeld, Dense
<1>5. CASE k > 0
  <2>1. Goes(r, "set", k + 1) /\ k + 1 \in Nat /\ "set" \in AddressSteps
    BY <1>3, <1>4, <1>5 DEF PA!GoToWith, Goes, AddressSteps
  <2> HIDE DEF k
  <2>2. /\ Held(m)' = Held(m)
        /\ request'[r].at = "set" /\ request'[r].index = k + 1
        /\ \A s \in Requests : s # r => request'[s] = request[s]
    <3>1. Held(m)' = Held(m) \ {r}
      BY <1>1, <2>1, HeldMoves
    <3> QED BY <1>1, <1>2, <2>1, <3>1, RequestGoes
  <2>3. \A s \in Held(m) : request'[s].index = request[s].index
    BY <1>2, <2>2 DEF Held
  <2>4. Apart(m)'
    BY <2>2, <2>3 DEF Dense, Apart
  <2> QED BY <1>1, <1>2, <2>2, <2>3, <2>4 DEF Dense, k
<1>6. CASE ~(k > 0)
  <2>1. k = 0 /\ Held(m) = {}
    BY <1>4, <1>6, FS_EmptySet
  <2>2. Goes(r, "pay", 1)
    BY <1>1, <1>3, <1>4, <1>6, GoToGoes
  <2> HIDE DEF k
  <2>3. /\ Held(m)' = Held(m) \cup {r} /\ Cardinality(Held(m)') = k + 1
        /\ request'[r].index = 1
        /\ Apart(m) => Apart(m)'
    BY <1>1, <2>1, <2>2, GetsIndex DEF k
  <2>4. request'[r].at = "pay" /\ \A s \in Requests : s # r => request'[s] = request[s]
    BY <1>1, <2>2, RequestGoes DEF AddressSteps
  <2> QED BY <1>1, <1>2, <1>4, <2>1, <2>3, <2>4 DEF Dense
<1> QED BY <1>5, <1>6

LEMMA CountsBounded ==
    ASSUME PA!AddressConstants, Basics, ~overlapped, NEW r \in Requests, PA!CountPayments(r),
           NEW m \in Merchants, m = MerchantOf[r], Bounded(m)
    PROVE  Bounded(m)'
<1>1. request[r].at = "seed" /\ UNCHANGED paymentIndex /\ PA!AddressTypeOK
  BY DEF PA!CountPayments, Basics
<1>2. /\ PaidAlike(r) = Held(m)
      /\ \A s \in Requests : s # r => request[s].at \notin {"seed", "set"}
      /\ r \notin Held(m)
  BY <1>1, CountsHeld
<1>3. Held(m) = {} /\ request[r].index = 1 /\ paymentIndex[m] = 1
  BY <1>1 DEF Bounded
<1>4. PA!GoTo(r, "pay")
  <2>1. ~(PA!Cardinality(PaidAlike(r)) > 0)
    BY <1>2, <1>3, SameCount, FS_EmptySet
  <2> QED BY <2>1 DEF PA!CountPayments, PaidAlike
<1>5. Goes(r, "pay", 1)
  BY <1>1, <1>3, <1>4, GoToGoes
<1>6. Held(m)' = Held(m) \cup {r} /\ request'[r].index = 1 /\ (Apart(m) => Apart(m)')
  BY <1>1, <1>3, <1>5, GetsIndex
<1>7. request'[r].at = "pay" /\ \A s \in Requests : s # r => request'[s] = request[s]
  BY <1>1, <1>5, RequestGoes DEF AddressSteps
<1> QED BY <1>1, <1>2, <1>3, <1>6, <1>7 DEF Bounded

LEMMA SetsDense ==
    ASSUME PA!AddressConstants, Basics, ~overlapped, NEW r \in Requests, PA!SetIndex(r),
           NEW m \in Merchants, m = MerchantOf[r], Dense(m)
    PROVE  Dense(m)'
<1> DEFINE k == Cardinality(Held(m))
<1>1. /\ request[r].at = "set" /\ PA!AddressTypeOK /\ k \in Nat
      /\ request[r].index = k + 1
      /\ paymentIndex' = [paymentIndex EXCEPT ![m] = k + 1]
      /\ Goes(r, "pay", k + 1)
  BY GoToGoes, FS_CardinalityType DEF PA!SetIndex, Basics, FewHeld, Dense
<1>2. \A s \in Requests : s # r => request[s].at \notin {"seed", "set"}
  BY <1>1, NobodyElse DEF PA!UnderWay, PA!First
<1>3. paymentIndex'[m] = k + 1
  BY <1>1 DEF PA!AddressTypeOK
<1>4. \A s \in Held(m) : request[s].index \in Nat /\ request[s].index <= k
  BY DEF Dense, Held, Basics, PA!AddressTypeOK
<1> HIDE DEF k
<1>5. /\ Held(m)' = Held(m) \cup {r} /\ Cardinality(Held(m)') = k + 1
      /\ request'[r].index = k + 1
      /\ \A s \in Held(m) : request'[s].index = request[s].index
      /\ Apart(m) => Apart(m)'
  <2>1. \A s \in Held(m) : request[s].index < k + 1
    BY <1>1, <1>4
  <2>2. k + 1 \in Nat
    BY <1>1
  <2> QED BY <1>1, <2>1, <2>2, GetsIndex DEF k
<1>6. request'[r].at = "pay" /\ \A s \in Requests : s # r => request'[s] = request[s]
  BY <1>1, RequestGoes DEF AddressSteps
<1>7. \A s \in Held(m)' : request'[s].index <= k + 1
  BY <1>1, <1>4, <1>5
<1> QED BY <1>2, <1>3, <1>5, <1>6, <1>7 DEF Dense

(* A row that is given up leaves its index unused.                         *)
LEMMA GivesUpBounded ==
    ASSUME PA!AddressConstants, Basics, NEW r \in Requests, request[r].at = "pay",
           PA!GoTo(r, "failed"), UNCHANGED paymentIndex,
           NEW m \in Merchants, m = MerchantOf[r], Bounded(m)
    PROVE  Bounded(m)'
<1>1. Goes(r, "failed", request[r].index) /\ request[r].index \in Nat /\ PA!AddressTypeOK
  BY GoToGoes DEF Basics
<1>2. /\ Held(m)' = Held(m) \ {r}
      /\ request'[r].at = "failed"
      /\ \A s \in Requests : s # r => request'[s] = request[s]
  BY <1>1, HeldMoves, RequestGoes DEF AddressSteps
<1>3. \A s \in Held(m)' : s \in Held(m) /\ request'[s].index = request[s].index
  BY <1>2 DEF Held
<1>4. Apart(m)'
  BY <1>3 DEF Bounded, Apart
<1> QED BY <1>2, <1>3, <1>4 DEF Bounded

LEMMA LosesDense ==
    ASSUME PA!AddressConstants, Basics, NEW n \in Merchants, PA!LoseCounter(n),
           NEW m \in Merchants, Dense(m)
    PROVE  Dense(m)'
<1>1. UNCHANGED request /\ paymentIndex'[m] \in {0, paymentIndex[m]}
  BY DEF PA!LoseCounter, Basics, PA!AddressTypeOK
<1>2. Held(m)' = Held(m)
  BY <1>1 DEF Held
<1>3. Apart(m)'
  BY <1>1, <1>2 DEF Apart, Dense
<1> QED BY <1>1, <1>2, <1>3 DEF Dense

(* The wallets of a currency are created one at a time, each with the      *)
(* number of those before it.                                              *)
LEMMA NumberedStays ==
    ASSUME PA!AddressConstants, Basics, ~overlapped, Numbered, NEW r \in Requests,
           NEW step \in AddressSteps, NEW i \in Nat, Goes(r, step, i), UNCHANGED currency,
           \/ /\ UNCHANGED <<walletCrypto, derivationIndex>>
              /\ step = "create" => i = Cardinality(PA!Wallets(currency[r]))
           \/ /\ request[r].at = "create" /\ step # "create"
              /\ derivationIndex[MerchantOf[r]] = PA!NoWallet
              /\ derivationIndex' = [derivationIndex EXCEPT ![MerchantOf[r]] = request[r].index]
              /\ walletCrypto' = [walletCrypto EXCEPT ![MerchantOf[r]] = currency[r]]
    PROVE  Numbered'
<1>0. PICK mine : mine = currency[r]
  OBVIOUS
<1> DEFINE n == MerchantOf[r]
           k == Cardinality(PA!Wallets(mine))
           After(c) == {m \in Merchants :
                          derivationIndex'[m] # PA!NoWallet /\ walletCrypto'[m] = c}
<1>1. /\ request'[r].at = step /\ request'[r].index = i
      /\ \A s \in Requests : s # r => request'[s] = request[s]
  BY RequestGoes DEF Basics
<1>2. CASE /\ UNCHANGED <<walletCrypto, derivationIndex>>
           /\ step = "create" => i = Cardinality(PA!Wallets(currency[r]))
  <2>1. \A c : PA!Wallets(c)' = PA!Wallets(c)
    BY <1>2 DEF PA!Wallets
  <2> QED BY <1>1, <1>2, <2>1 DEF Numbered
<1>3. CASE /\ request[r].at = "create" /\ step # "create"
           /\ derivationIndex[n] = PA!NoWallet
           /\ derivationIndex' = [derivationIndex EXCEPT ![n] = request[r].index]
           /\ walletCrypto' = [walletCrypto EXCEPT ![n] = mine]
  <2>1. n \in Merchants /\ (\A c : n \notin PA!Wallets(c)) /\ request[r].index = k
    BY <1>0, <1>3 DEF PA!AddressConstants, PA!Wallets, Numbered
  <2>2. /\ derivationIndex'[n] = k /\ walletCrypto'[n] = mine
        /\ \A m \in Merchants : m # n => /\ derivationIndex'[m] = derivationIndex[m]
                                        /\ walletCrypto'[m] = walletCrypto[m]
    BY <1>3, <2>1 DEF Basics, PA!AddressTypeOK
  <2>3. k \in Nat /\ Cardinality(PA!Wallets(mine) \cup {n}) = k + 1
    <3>1. IsFiniteSet(PA!Wallets(mine))
      BY FS_Subset DEF Basics, FewHeld, PA!Wallets, Wallets
    <3> QED BY <2>1, <3>1, FS_CardinalityType, FS_AddElement
  <2>4. \A c : After(c) = IF c = mine THEN PA!Wallets(c) \cup {n} ELSE PA!Wallets(c)
    <3>1. k # PA!NoWallet
      BY <2>3 DEF PA!NoWallet
    <3>2. \A m, c : m \in PA!Wallets(c) <=>
             m \in Merchants /\ derivationIndex[m] # PA!NoWallet /\ walletCrypto[m] = c
      BY Zenon DEF PA!Wallets
    <3>3. \A m, c : m \in After(c) <=>
             m \in Merchants /\ derivationIndex'[m] # PA!NoWallet /\ walletCrypto'[m] = c
      BY Zenon
    <3>4. \A c : n \in After(c) <=> c = mine
      BY <2>1, <2>2, <3>1, <3>3
    <3>5. \A m, c : m # n => (m \in After(c) <=> m \in PA!Wallets(c))
      BY <2>2, <3>2, <3>3
    <3> HIDE DEF n, k, After
    <3> QED BY <2>1, <3>4, <3>5
  <2> HIDE DEF k, n, After
  <2>5. \A m \in PA!Wallets(mine) : derivationIndex[m] \in Nat /\ derivationIndex[m] < k
    BY DEF Basics, Numbered, k, PA!Wallets, Wallets
  <2>6. \A c : \A m \in PA!Wallets(c) :
           derivationIndex'[m] = derivationIndex[m] /\ m # n /\ m \in Merchants
    BY <2>1, <2>2 DEF PA!Wallets
  <2>7. ASSUME NEW c
        PROVE  /\ \A m \in After(c) : derivationIndex'[m] < Cardinality(After(c))
               /\ \A m, j \in After(c) : m # j => derivationIndex'[m] # derivationIndex'[j]
    <3>1. CASE c # mine
      BY <2>4, <2>6, <3>1 DEF Numbered
    <3>2. CASE c = mine
      <4>1. After(c) = PA!Wallets(mine) \cup {n} /\ Cardinality(After(c)) = k + 1
        BY <2>3, <2>4, <3>2
      <4>2. \A m \in After(c) : derivationIndex'[m] < k + 1
        BY <2>2, <2>3, <2>5, <2>6, <4>1
      <4>3. \A m, j \in After(c) : m # j => derivationIndex'[m] # derivationIndex'[j]
        BY <2>2, <2>3, <2>5, <2>6, <4>1 DEF Numbered
      <4> QED BY <4>1, <4>2, <4>3
    <3> QED BY <3>1, <3>2
  <2>9. \A s \in Requests : request'[s].at # "create"
    BY <1>1, <1>3, NobodyElse DEF PA!First, PA!UnderWay, Nobody
  <2>10. /\ \A c : \A m \in PA!Wallets(c)' : derivationIndex'[m] < Cardinality(PA!Wallets(c)')
         /\ \A c : \A m, j \in PA!Wallets(c)' : m # j => derivationIndex'[m] # derivationIndex'[j]
    BY <2>7 DEF PA!Wallets, After
  <2> QED BY <2>9, <2>10 DEF Numbered
<1> QED BY <1>0, <1>2, <1>3

LEMMA AddressStepSafe ==
    ASSUME PA!AddressConstants, AddressInv, NEW r \in Requests, PA!AddressStep(r),
           overlapped' = (overlapped \/ PA!Overlap'), UNCHANGED <<faults, currency>>
    PROVE  AddressInv'
<1> DEFINE n == MerchantOf[r]
           Safe(m) == /\ "db" \notin faults => Dense(m)'
                      /\ "loses" \notin faults => Bounded(m)'
<1>1. /\ Basics /\ PA!AddressTypeOK /\ n \in Merchants
      /\ request \in [Requests -> RequestRecord] /\ paymentIndex \in [Merchants -> Nat]
  BY DEF AddressInv, Basics, PA!AddressTypeOK, RequestRecord, AddressSteps, PA!AddressConstants
<1>2. request[r].index \in Nat
  BY <1>1 DEF RequestRecord
<1>3. ~overlapped' => ~overlapped
  BY Zenon
<1>4. ASSUME ~overlapped
      PROVE  /\ Numbered
             /\ "db" \notin faults => \A m \in Merchants : Dense(m)
             /\ "loses" \notin faults => \A m \in Merchants : Bounded(m)
  BY <1>4 DEF AddressInv
<1>5. SUFFICES /\ Basics'
               /\ ~overlapped => Numbered' /\ \A m \in Merchants : Safe(m)
  BY <1>3 DEF AddressInv
<1>6. \A step : PA!GoTo(r, step) => Goes(r, step, request[r].index)
  BY <1>1, GoToGoes
<1>7. {"no", "count", "create", "incr", "seed", "set", "pay", "done", "failed"} = AddressSteps
  BY DEF AddressSteps
<1>a. ASSUME NEW step \in AddressSteps, NEW i \in Nat, Goes(r, step, i), ~overlapped,
             NEW m \in Merchants, paymentIndex'[m] = paymentIndex[m],
             \/ m # n
             \/ /\ request[r].at \notin {"seed", "set", "pay", "done"}
                /\ step \notin {"seed", "set", "pay", "done"}
             \/ request[r].at = "pay" /\ step = "done" /\ i = request[r].index
      PROVE  Safe(m)
  <2>1. /\ request'[r].at = step /\ request'[r].index = i
        /\ \A s \in Requests : s # r => request'[s] = request[s]
    BY <1>1, <1>a, RequestGoes
  <2>2. /\ Dense(m) => Dense(m)'
        /\ Bounded(m) => Bounded(m)'
    BY <1>a, <2>1, MerchantStays
  <2> QED BY <1>4, <1>a, <2>2
<1> HIDE DEF Safe
<1>8. CASE PA!FindWallet(r) \/ PA!CountWallets(r)
  <2>1. PICK step \in {"count", "incr", "create"}, i \in Nat :
           /\ Goes(r, step, i)
           /\ step = "create" => i = Cardinality(PA!Wallets(currency[r]))
           /\ step = "incr" => derivationIndex[n] # PA!NoWallet /\ walletCrypto[n] = currency[r]
    <3>1. CASE PA!FindWallet(r)
      BY <1>2, <1>6, <3>1 DEF PA!FindWallet, PA!Wallets
    <3>2. CASE PA!CountWallets(r)
      <4>1. Goes(r, "create", Cardinality(PA!Wallets(currency[r])))
        BY <3>2, SameCount DEF PA!CountWallets, PA!GoToWith, Goes
      <4>2. Cardinality(PA!Wallets(currency[r])) \in Nat
        <5>1. IsFiniteSet(PA!Wallets(currency[r]))
          BY <1>1, FS_Subset DEF Basics, FewHeld, PA!Wallets, Wallets
        <5> QED BY <5>1, FS_CardinalityType
      <4> QED BY <4>1, <4>2
    <3> QED BY <1>8, <3>1, <3>2
  <2>2. /\ request[r].at \in {"no", "count"} /\ step \in AddressSteps
        /\ UNCHANGED <<walletCrypto, derivationIndex, paymentIndex, address>>
    BY <1>8, <1>7 DEF PA!FindWallet, PA!CountWallets
  <2>3. Basics'
    BY <1>1, <2>1, <2>2, BasicsStay
  <2>4. ~overlapped => Numbered'
    BY <1>1, <1>4, <2>1, <2>2, NumberedStays
  <2>5. ~overlapped => \A m \in Merchants : Safe(m)
    BY <1>a, <2>1, <2>2
  <2> QED BY <2>3, <2>4, <2>5
<1>9. CASE PA!CreateWallet(r)
  <2>1. PICK step \in {"incr", "failed"} :
           /\ PA!GoTo(r, step)
           /\ \/ /\ step = "failed" /\ UNCHANGED <<walletCrypto, derivationIndex>>
              \/ /\ step = "incr" /\ derivationIndex[n] = PA!NoWallet
                 /\ derivationIndex' = [derivationIndex EXCEPT ![n] = request[r].index]
                 /\ walletCrypto' = [walletCrypto EXCEPT ![n] = currency[r]]
    BY <1>9 DEF PA!CreateWallet
  <2>2. /\ request[r].at = "create" /\ step \in AddressSteps /\ Goes(r, step, request[r].index)
        /\ UNCHANGED <<paymentIndex, address>>
    BY <1>9, <1>6, <1>7, <2>1 DEF PA!CreateWallet
  <2>3. step = "incr" => derivationIndex'[n] # PA!NoWallet /\ walletCrypto'[n] = currency[r]
    <3>1. derivationIndex \in [Merchants -> Int] /\ walletCrypto \in [Merchants -> Cryptos \cup {""}]
      BY <1>1, AddressTypes
    <3>4. n \in Merchants /\ request[r].index # -1
      BY <1>1, <1>2
    <3>2. n \in DOMAIN derivationIndex /\ n \in DOMAIN walletCrypto /\ request[r].index # -1
      BY <3>1, <3>4
    <3>3. step = "incr" => /\ derivationIndex' = [derivationIndex EXCEPT ![n] = request[r].index]
                           /\ walletCrypto' = [walletCrypto EXCEPT ![n] = currency[r]]
      BY <2>1
    <3> QED BY <3>2, <3>3 DEF PA!NoWallet
  <2>4. Basics'
    BY <1>1, <1>2, <2>1, <2>2, <2>3, BasicsStay
  <2>5. ~overlapped => Numbered'
    BY <1>1, <1>2, <1>4, <2>1, <2>2, NumberedStays
  <2>6. ~overlapped => \A m \in Merchants : Safe(m)
    BY <1>2, <1>a, <2>1, <2>2
  <2> QED BY <2>4, <2>5, <2>6
<1>10. CASE PA!IncrementIndex(r)
  <2>1. PICK step \in {"seed", "pay"}, i \in Nat :
           /\ Goes(r, step, i)
           /\ paymentIndex' = [paymentIndex EXCEPT ![n] = i]
    <3> DEFINE i == paymentIndex[n] + 1
               step == IF i = 1 THEN "seed" ELSE "pay"
    <3>1. Goes(r, step, i) /\ paymentIndex' = [paymentIndex EXCEPT ![n] = i]
      BY <1>10 DEF PA!IncrementIndex, PA!GoToWith, Goes
    <3>2. i \in Nat /\ step \in {"seed", "pay"}
      BY <1>1
    <3> HIDE DEF i, step
    <3> QED BY <3>1, <3>2
  <2>2. /\ request[r].at = "incr" /\ step \in AddressSteps
        /\ UNCHANGED <<walletCrypto, derivationIndex, address>>
    BY <1>10, <1>7 DEF PA!IncrementIndex
  <2>3. /\ paymentIndex' \in [Merchants -> Nat]
        /\ derivationIndex[n] # PA!NoWallet /\ walletCrypto[n] = currency[r]
    BY <1>1, <2>1, <2>2 DEF Basics, HasWallet
  <2>4. Basics'
    BY <1>1, <2>1, <2>2, <2>3, BasicsStay
  <2>5. ~overlapped => Numbered'
    BY <1>1, <1>4, <2>1, <2>2, NumberedStays
  <2>6. ~overlapped => \A m \in Merchants : m # n => Safe(m)
    BY <1>1, <1>a, <2>1, <2>2
  <2>7. ~overlapped => Safe(n)
    BY <1>1, <1>4, <1>10, IncrementsDense, IncrementsBounded DEF Safe
  <2> QED BY <2>4, <2>5, <2>6, <2>7
<1>11. CASE PA!CountPayments(r)
  <2>0. /\ request[r].at = "seed"
        /\ UNCHANGED <<walletCrypto, derivationIndex, paymentIndex, address>>
    BY <1>11 DEF PA!CountPayments
  <2>1. PICK step \in {"set", "pay"}, i \in Nat : Goes(r, step, i)
    <3>1. PaidAlike(r) \subseteq Held(n)
      BY <1>1 DEF Basics, RowsAreDone, Held, PaidAlike
    <3>2. IsFiniteSet(PaidAlike(r))
      BY <1>1, <3>1, FS_Subset DEF Basics, FewHeld
    <3>3. PA!Cardinality(PaidAlike(r)) \in Nat
      BY <3>2, SameCount, FS_CardinalityType
    <3> QED BY <1>2, <1>6, <1>11, <3>3 DEF PA!CountPayments, PA!GoToWith, Goes, PaidAlike
  <2>2. /\ step \in AddressSteps
        /\ derivationIndex[n] # PA!NoWallet /\ walletCrypto[n] = currency[r]
    BY <1>1, <1>7, <2>0 DEF Basics, HasWallet
  <2>3. Basics'
    BY <1>1, <2>0, <2>1, <2>2, BasicsStay
  <2>4. ~overlapped => Numbered'
    BY <1>1, <1>4, <2>0, <2>1, <2>2, NumberedStays
  <2>5. ~overlapped => \A m \in Merchants : m # n => Safe(m)
    BY <1>1, <1>a, <2>0, <2>1, <2>2
  <2>6. ~overlapped => Safe(n)
    BY <1>1, <1>4, <1>11, CountsDense, CountsBounded DEF Safe
  <2> QED BY <2>3, <2>4, <2>5, <2>6
<1>12. CASE PA!SetIndex(r)
  <2>1. /\ request[r].at = "set" /\ Goes(r, "pay", request[r].index)
        /\ UNCHANGED <<walletCrypto, derivationIndex, address>>
        /\ paymentIndex' = [paymentIndex EXCEPT ![n] = request[r].index]
    BY <1>6, <1>12 DEF PA!SetIndex
  <2>2. /\ "pay" \in AddressSteps
        /\ derivationIndex[n] # PA!NoWallet /\ walletCrypto[n] = currency[r]
        /\ paymentIndex' \in [Merchants -> Nat]
    BY <1>1, <1>2, <1>7, <2>1 DEF Basics, HasWallet
  <2>3. Basics'
    BY <1>1, <1>2, <2>1, <2>2, BasicsStay
  <2>4. ~overlapped => Numbered'
    BY <1>1, <1>2, <1>4, <2>1, <2>2, NumberedStays
  <2>5. ~overlapped => \A m \in Merchants : m # n => Safe(m)
    BY <1>1, <1>2, <1>a, <2>1, <2>2
  <2>6. ASSUME ~overlapped PROVE Safe(n)
    <3>1. "db" \notin faults => Dense(n)'
      BY <1>1, <1>4, <1>12, <2>6, SetsDense
    <3>2. ~("loses" \notin faults)
      BY <1>1, <1>4, <2>1, <2>6 DEF Bounded
    <3> QED BY <3>1, <3>2 DEF Safe
  <2> QED BY <2>3, <2>4, <2>5, <2>6
<1>13. CASE PA!CreatePaymentRow(r)
  <2>0. /\ request[r].at = "pay"
        /\ UNCHANGED <<walletCrypto, derivationIndex, paymentIndex>>
    BY <1>13 DEF PA!CreatePaymentRow
  <2>1. CASE /\ PA!GoTo(r, "done")
             /\ address' = [p \in DOMAIN address \cup {r} |->
                               IF p = r
                               THEN <<PathOf[currency[r]], derivationIndex[n], request[r].index>>
                               ELSE address[p]]
    <3>1. /\ "done" \in AddressSteps /\ Goes(r, "done", request[r].index)
          /\ derivationIndex[n] # PA!NoWallet /\ walletCrypto[n] = currency[r]
      BY <1>1, <1>6, <1>7, <2>0, <2>1 DEF Basics, HasWallet
    <3>2. Basics'
      BY <1>1, <1>2, <2>0, <2>1, <3>1, BasicsStay
    <3>3. ~overlapped => Numbered'
      BY <1>1, <1>2, <1>4, <2>0, <3>1, NumberedStays
    <3>4. ~overlapped => \A m \in Merchants : Safe(m)
      BY <1>1, <1>2, <1>a, <2>0, <3>1
    <3> QED BY <3>2, <3>3, <3>4
  <2>2. CASE "db" \in faults /\ PA!GoTo(r, "failed") /\ UNCHANGED address
    <3>1. "failed" \in AddressSteps /\ Goes(r, "failed", request[r].index)
      BY <1>6, <1>7, <2>2
    <3>2. Basics'
      BY <1>1, <1>2, <2>0, <2>2, <3>1, BasicsStay
    <3>3. ~overlapped => Numbered'
      BY <1>1, <1>2, <1>4, <2>0, <3>1, NumberedStays
    <3>4. ~overlapped => \A m \in Merchants : m # n => Safe(m)
      BY <1>1, <1>2, <1>a, <2>0, <3>1
    <3>5. ~overlapped => Safe(n)
      BY <1>1, <1>4, <2>0, <2>2, GivesUpBounded DEF Safe
    <3> QED BY <3>2, <3>3, <3>4, <3>5
  <2> QED BY <1>13, <2>1, <2>2 DEF PA!CreatePaymentRow
<1> QED BY <1>8, <1>9, <1>10, <1>11, <1>12, <1>13 DEF PA!AddressStep

LEMMA LosesSafe ==
    ASSUME PA!AddressConstants, AddressInv, NEW n \in Merchants, PA!LoseCounter(n),
           overlapped' = (overlapped \/ PA!Overlap'), UNCHANGED <<faults, currency>>
    PROVE  AddressInv'
<1>1. /\ "loses" \in faults /\ Basics
      /\ UNCHANGED <<currency, walletCrypto, derivationIndex, request, address>>
  BY DEF PA!LoseCounter, AddressInv
<1>2. paymentIndex' \in [Merchants -> Nat]
  BY <1>1 DEF PA!LoseCounter, Basics, PA!AddressTypeOK
<1>3. /\ Wallets' = Wallets /\ \A c : PA!Wallets(c)' = PA!Wallets(c)
      /\ \A m \in Merchants : Held(m)' = Held(m)
  BY <1>1 DEF Wallets, PA!Wallets, Held
<1>4. overlapped' \in BOOLEAN /\ (PA!Overlap' => overlapped') /\ (~overlapped' => ~overlapped)
  BY Zenon
<1>5. Basics'
  <2>1. PA!AddressTypeOK'
    BY <1>1, <1>2, <1>4 DEF Basics, PA!AddressTypeOK
  <2>2. FewHeld' /\ \A m \in Wallets' : derivationIndex'[m] \in Nat
    BY <1>1, <1>3 DEF Basics, FewHeld
  <2>3. HasWallet' /\ RowsAreDone'
    BY <1>1 DEF Basics, HasWallet, RowsAreDone
  <2> QED BY <1>4, <2>1, <2>2, <2>3 DEF Basics
<1>6. Numbered => Numbered'
  BY <1>1, <1>3 DEF Numbered
<1>7. \A m \in Merchants : Dense(m) => Dense(m)'
  BY <1>1, LosesDense
<1> QED BY <1>1, <1>4, <1>5, <1>6, <1>7 DEF AddressInv

LEMMA AddressesStep == [Next]_vars => PA!AddressNext \/ UNCHANGED <<faults, currency, addressVars>>
BY FaultsStay DEF Next, vars, addressVars

LEMMA AddressInvariant == Spec => []AddressInv
<1>0. PA!AddressConstants
  BY ServicesAssumption
<1>1. Init => AddressInv
  BY <1>0, AddressStarts
<1>2. AddressInv /\ [Next]_vars => AddressInv'
  <2> SUFFICES ASSUME AddressInv, [Next]_vars PROVE AddressInv'
    OBVIOUS
  <2>1. CASE PA!AddressNext
    BY <1>0, <2>1, AddressStepSafe, LosesSafe DEF PA!AddressNext
  <2>2. CASE UNCHANGED <<faults, currency, addressVars>>
    <3>1. /\ UNCHANGED <<faults, currency, walletCrypto, derivationIndex, paymentIndex, request,
                         address, overlapped>>
          /\ Wallets' = Wallets /\ \A c : PA!Wallets(c)' = PA!Wallets(c)
          /\ \A m : Held(m)' = Held(m)
      BY <2>2 DEF addressVars, Wallets, PA!Wallets, Held
    <3>2. Basics'
      <4>1. PA!AddressTypeOK' /\ FewHeld' /\ HasWallet' /\ RowsAreDone'
        BY <3>1 DEF AddressInv, Basics, PA!AddressTypeOK, FewHeld, HasWallet, RowsAreDone
      <4>2. PA!Overlap' => overlapped'
        BY <3>1 DEF AddressInv, Basics, PA!Overlap, PA!First, PA!UnderWay
      <4> QED BY <3>1, <4>1, <4>2 DEF AddressInv, Basics
    <3>3. ~overlapped => Numbered'
      BY <3>1 DEF AddressInv, Numbered
    <3>4. \A m : (Dense(m) => Dense(m)') /\ (Bounded(m) => Bounded(m)')
      BY <3>1, MerchantStays
    <3> QED BY <3>1, <3>2, <3>3, <3>4 DEF AddressInv
  <2> QED BY <2>1, <2>2, AddressesStep
<1> QED BY <1>1, <1>2, PTL DEF Spec

(* Unless a counter is lost and a row given up, two payments in one        *)
(* currency have two addresses, if nobody else was under way while a       *)
(* wallet was created or a counter seeded, for any choice of currencies    *)
(* and of the paths they share.                                            *)
THEOREM AddressesTheorem == Spec => []AddressesDistinct
<1>1. AddressInv => AddressesDistinct
  <2> SUFFICES ASSUME AddressInv, ~overlapped, "db" \notin faults \/ "loses" \notin faults,
                      NEW p \in DOMAIN address, NEW q \in DOMAIN address, p # q,
                      currency[p] = currency[q]
               PROVE  address[p] # address[q]
    BY DEF AddressesDistinct, PA!AddressesDistinct, PA!Distinct
  <2>1. /\ p \in Requests /\ q \in Requests
        /\ request[p].at = "done" /\ request[q].at = "done"
        /\ address[p] = <<PathOf[currency[p]], derivationIndex[MerchantOf[p]], request[p].index>>
        /\ address[q] = <<PathOf[currency[q]], derivationIndex[MerchantOf[q]], request[q].index>>
    BY DEF AddressInv, Basics, RowsAreDone
  <2>2. MerchantOf[p] \in Merchants /\ MerchantOf[q] \in Merchants
    BY <2>1, ServicesAssumption DEF PA!AddressConstants
  <2>3. CASE MerchantOf[p] = MerchantOf[q]
    <3>1. Apart(MerchantOf[p])
      BY <2>2 DEF AddressInv, Dense, Bounded
    <3>2. request[p].index # request[q].index
      BY <2>1, <2>3, <3>1 DEF Apart, Held
    <3> QED BY <2>1, <3>2
  <2>4. CASE MerchantOf[p] # MerchantOf[q]
    <3>1. MerchantOf[p] \in PA!Wallets(currency[p]) /\ MerchantOf[q] \in PA!Wallets(currency[p])
      BY <2>1, <2>2 DEF AddressInv, Basics, HasWallet, PA!Wallets
    <3>2. derivationIndex[MerchantOf[p]] # derivationIndex[MerchantOf[q]]
      BY <2>4, <3>1 DEF AddressInv, Numbered
    <3> QED BY <2>1, <3>2
  <2> QED BY <2>3, <2>4
<1> QED BY <1>1, AddressInvariant, PTL

---------------------------------------------------------------------------
(* Refunds                                                                 *)

RefundStatuses == {"PENDING", "PROCESSING", "COMPLETED", "FAILED"}
RefundRecord == [status : RefundStatuses, amount : RF!Amounts, toAddress : BOOLEAN, debits : Nat]
CreationSteps == {"no", "sum", "create", "mark", "ended"}
CreationRecord == [at : CreationSteps, amount : RF!Amounts, full : BOOLEAN]
ProcessingSteps == {"no", "mark", "complete", "debit", "notify", "fail", "ended"}
ProcessingRecord == [at : ProcessingSteps, refund : RefundIds \cup {RF!NoRefund}]

Idle(call) == call.at \in {"no", "ended"}

AmountOf == [i \in DOMAIN refunds |-> refunds[i].amount]
CountedRefunds == {i \in DOMAIN refunds : refunds[i].status \in RF!Counted}
Total == Sum(AmountOf, CountedRefunds)

(* What a call of processRefund() relies on.                               *)
Knows(call) ==
    LET refund == refunds[call.refund] IN
    /\ call.at = "mark" => refund.status = "PENDING"
    /\ call.at = "complete" => refund.status = "PROCESSING"
    /\ call.at = "debit" => refund.status = "COMPLETED" /\ refund.debits = 0

DebitedOnce(refund) ==
    /\ refund.debits \in {0, 1}
    /\ refund.status \in {"PENDING", "PROCESSING"} => refund.debits = 0

RefundsSafe ==
    /\ \A i, j \in RefundIds : Idle(creation[i]) \/ Idle(creation[j]) \/ i = j
    /\ \A p, q \in Processings : Idle(processing[p]) \/ Idle(processing[q]) \/ p = q
    /\ Total <= PaymentAmount
    /\ \A i \in RefundIds :
          creation[i].at = "create" => Total + creation[i].amount <= PaymentAmount
    /\ \A p \in Processings : Knows(processing[p])
    /\ \A i \in DOMAIN refunds : DebitedOnce(refunds[i])
    /\ faults \cap {"redis", "db"} = {} =>
          /\ \A p \in Processings : processing[p].at # "fail"
          /\ \A i \in DOMAIN refunds : refunds[i].status \in RF!Counted

RefundsKnown ==
    /\ RF!RefundsTypeOK
    /\ IsFiniteSet(DOMAIN refunds)
    /\ \A i \in DOMAIN refunds : creation[i].at \in {"mark", "ended"}
    /\ \A p \in Processings : ~Idle(processing[p]) => processing[p].refund \in DOMAIN refunds

RefundsInv == RefundsKnown /\ ("overlaps" \notin faults => RefundsSafe)

LEMMA RefundTypes ==
    RF!RefundsTypeOK <=>
        /\ paymentStatus \in {"PAID", "REFUNDED"}
        /\ \A i \in DOMAIN refunds : i \in RefundIds /\ refunds[i] \in RefundRecord
        /\ creation \in [RefundIds -> CreationRecord]
        /\ processing \in [Processings -> ProcessingRecord]
BY DEF RF!RefundsTypeOK, RefundRecord, RefundStatuses, CreationRecord, CreationSteps,
       ProcessingRecord, ProcessingSteps

LEMMA TotalIs == RF!TotalOf(RF!Counted) = Total
BY DEF RF!TotalOf, RF!SumFunctionOnSet, RF!FoldFunctionOnSet, RF!MapThenFoldSet, Sum, Sums, Some,
       Total, AmountOf, CountedRefunds

LEMMA AmountsNat ==
    ASSUME RF!RefundsConstants, RefundsKnown
    PROVE  /\ \A i \in DOMAIN refunds :
                 refunds[i] \in RefundRecord /\ AmountOf[i] = refunds[i].amount /\ AmountOf[i] \in Nat
           /\ IsFiniteSet(CountedRefunds) /\ CountedRefunds \subseteq DOMAIN refunds
           /\ Total \in Nat
<1>1. \A i \in DOMAIN refunds : refunds[i] \in RefundRecord /\ AmountOf[i] = refunds[i].amount
  BY RefundTypes DEF RefundsKnown, AmountOf
<1>2. \A i \in DOMAIN refunds : AmountOf[i] \in Nat
  BY <1>1 DEF RefundRecord, RF!Amounts, RF!RefundsConstants
<1>3. IsFiniteSet(CountedRefunds) /\ CountedRefunds \subseteq DOMAIN refunds
  BY FS_Subset DEF CountedRefunds, RefundsKnown
<1>4. Total \in Nat
  BY <1>2, <1>3, SumNat DEF Total
<1> QED BY <1>1, <1>2, <1>3, <1>4

LEMMA RefundsStart == ASSUME RF!RefundsConstants, Init PROVE RefundsInv
<1>1. /\ paymentStatus = "PAID" /\ refunds = [i \in {} |-> 0]
      /\ creation = [i \in RefundIds |-> [at |-> "no", amount |-> 0, full |-> FALSE]]
      /\ processing = [p \in Processings |-> [at |-> "no", refund |-> RF!NoRefund]]
      /\ PaymentAmount \in Nat
  BY DEF Init, RF!RefundsInit, RF!RefundsConstants
<1>2. DOMAIN refunds = {} /\ CountedRefunds = {}
  BY <1>1 DEF CountedRefunds
<1>3. /\ \A i \in RefundIds : creation[i].at = "no"
      /\ \A p \in Processings : processing[p].at = "no"
  BY <1>1
<1>4. creation \in [RefundIds -> CreationRecord] /\ processing \in [Processings -> ProcessingRecord]
  BY <1>1 DEF CreationRecord, CreationSteps, ProcessingRecord, ProcessingSteps, RF!Amounts
<1>5. RefundsKnown
  BY <1>1, <1>2, <1>3, <1>4, RefundTypes, FS_EmptySet DEF RefundsKnown, Idle
<1>6. Total = 0
  BY <1>2, SumEmpty DEF Total
<1>7. RefundsSafe
  BY <1>1, <1>2, <1>3, <1>6 DEF RefundsSafe, Idle, Knows
<1> QED BY <1>5, <1>7 DEF RefundsInv

(* A call that creates a refund goes on.                                   *)
LEMMA CreationGoesOn ==
    ASSUME RF!RefundsConstants, RefundsInv, NEW i \in RefundIds, NEW c \in CreationRecord,
           creation' = [creation EXCEPT ![i] = c], paymentStatus' \in {"PAID", "REFUNDED"},
           UNCHANGED <<faults, refunds, processing>>,
           i \in DOMAIN refunds => c.at \in {"mark", "ended"},
           "overlaps" \notin faults =>
              /\ ~Idle(c) => \A j \in RefundIds : j # i => Idle(creation[j])
              /\ c.at = "create" => Total + c.amount <= PaymentAmount
    PROVE  RefundsInv'
<1>1. /\ creation' \in [RefundIds -> CreationRecord] /\ creation'[i] = c
      /\ \A j \in RefundIds : j # i => creation'[j] = creation[j]
  BY RefundTypes DEF RefundsInv, RefundsKnown
<1>2. RF!RefundsTypeOK'
  BY <1>1, RefundTypes DEF RefundsInv, RefundsKnown, RF!RefundsTypeOK, CreationRecord, CreationSteps
<1>3. RefundsKnown'
  BY <1>1, <1>2, RefundTypes DEF RefundsInv, RefundsKnown
<1>4. Total' = Total
  BY DEF Total, AmountOf, CountedRefunds
<1>5. \A call : Knows(call)' <=> Knows(call)
  BY DEF Knows
<1>6. ASSUME "overlaps" \notin faults PROVE RefundsSafe'
  <2>1. RefundsSafe
    BY <1>6 DEF RefundsInv
  <2>2. \A j, k \in RefundIds : Idle(creation'[j]) \/ Idle(creation'[k]) \/ j = k
    BY <1>1, <1>6, <2>1 DEF RefundsSafe
  <2>3. \A j \in RefundIds : creation'[j].at = "create" => Total + creation'[j].amount <= PaymentAmount
    BY <1>1, <1>6, <2>1 DEF RefundsSafe
  <2>4. \A p \in Processings : Knows(processing[p])'
    BY <2>1 DEF RefundsSafe, Knows
  <2> QED BY <1>4, <2>1, <2>2, <2>3, <2>4 DEF RefundsSafe, Idle
<1> QED BY <1>3, <1>6 DEF RefundsInv

(* A call that processes a refund goes on.                                 *)
LEMMA ProcessingGoesOn ==
    ASSUME RF!RefundsConstants, RefundsInv, NEW p \in Processings, NEW c \in ProcessingRecord,
           processing' = [processing EXCEPT ![p] = c],
           UNCHANGED <<faults, refunds, creation, paymentStatus>>,
           ~Idle(c) => c.refund \in DOMAIN refunds,
           "overlaps" \notin faults =>
              /\ ~Idle(c) => \A q \in Processings : q # p => Idle(processing[q])
              /\ Knows(c)
              /\ faults \cap {"redis", "db"} = {} => c.at # "fail"
    PROVE  RefundsInv'
<1>1. /\ processing' \in [Processings -> ProcessingRecord] /\ processing'[p] = c
      /\ \A q \in Processings : q # p => processing'[q] = processing[q]
  BY RefundTypes DEF RefundsInv, RefundsKnown
<1>2. RF!RefundsTypeOK'
  BY <1>1 DEF RefundsInv, RefundsKnown, RF!RefundsTypeOK, ProcessingRecord, ProcessingSteps
<1>3. RefundsKnown'
  BY <1>1, <1>2 DEF RefundsInv, RefundsKnown, Idle
<1>4. Total' = Total
  BY DEF Total, AmountOf, CountedRefunds
<1>6. ASSUME "overlaps" \notin faults PROVE RefundsSafe'
  <2>1. RefundsSafe
    BY <1>6 DEF RefundsInv
  <2>2. \A q, s \in Processings : Idle(processing'[q]) \/ Idle(processing'[s]) \/ q = s
    BY <1>1, <1>6, <2>1 DEF RefundsSafe
  <2>3. \A q \in Processings : Knows(processing[q])'
    BY <1>1, <1>6, <2>1 DEF RefundsSafe, Knows
  <2>4. faults \cap {"redis", "db"} = {} => \A q \in Processings : processing'[q].at # "fail"
    BY <1>1, <1>6, <2>1 DEF RefundsSafe
  <2> QED BY <1>4, <2>1, <2>2, <2>3, <2>4 DEF RefundsSafe, Idle
<1> QED BY <1>3, <1>6 DEF RefundsInv

(* A call that processes a refund changes it.                              *)
LEMMA RefundChanges ==
    ASSUME RF!RefundsConstants, RefundsInv, NEW p \in Processings, NEW c \in ProcessingRecord,
           ~Idle(processing[p]), processing' = [processing EXCEPT ![p] = c],
           NEW i, i = processing[p].refund, c.refund = i,
           NEW x \in RefundRecord, refunds' = [refunds EXCEPT ![i] = x],
           x.amount = refunds[i].amount,
           UNCHANGED <<faults, creation, paymentStatus>>,
           "overlaps" \notin faults =>
              /\ x.status \in RF!Counted => refunds[i].status \in RF!Counted
              /\ DebitedOnce(x)
              /\ c.at = "mark" => x.status = "PENDING"
              /\ c.at = "complete" => x.status = "PROCESSING"
              /\ c.at = "debit" => x.status = "COMPLETED" /\ x.debits = 0
              /\ faults \cap {"redis", "db"} = {} => c.at # "fail" /\ x.status \in RF!Counted
    PROVE  RefundsInv'
<1>1. /\ processing' \in [Processings -> ProcessingRecord] /\ processing'[p] = c
      /\ \A q \in Processings : q # p => processing'[q] = processing[q]
  BY RefundTypes DEF RefundsInv, RefundsKnown
<1>2. /\ i \in DOMAIN refunds /\ DOMAIN refunds' = DOMAIN refunds /\ refunds'[i] = x
      /\ \A j \in DOMAIN refunds : j # i => refunds'[j] = refunds[j]
  BY DEF RefundsInv, RefundsKnown
<1>3. RefundsKnown'
  <2>1. \A j \in DOMAIN refunds' : j \in RefundIds /\ refunds'[j] \in RefundRecord
    BY <1>2, RefundTypes DEF RefundsInv, RefundsKnown
  <2>2. RF!RefundsTypeOK'
    BY <1>1, <2>1
       DEF RefundsInv, RefundsKnown, RF!RefundsTypeOK, ProcessingRecord, ProcessingSteps,
           RefundRecord, RefundStatuses
  <2>3. \A q \in Processings : ~Idle(processing'[q]) => processing'[q].refund \in DOMAIN refunds'
    BY <1>1, <1>2 DEF RefundsInv, RefundsKnown
  <2> QED BY <1>2, <2>2, <2>3 DEF RefundsInv, RefundsKnown, Idle
<1>4. ASSUME "overlaps" \notin faults PROVE RefundsSafe'
  <2>1. RefundsSafe
    BY <1>4 DEF RefundsInv
  <2>2. \A q \in Processings : q # p => Idle(processing[q]) /\ Idle(processing'[q])
    BY <1>1, <2>1 DEF RefundsSafe
  <2>3. Total' <= Total /\ Total' \in Nat
    <3>1. AmountOf' = AmountOf
      BY <1>2 DEF AmountOf
    <3>2. CountedRefunds' \in SUBSET CountedRefunds
      BY <1>2, <1>4 DEF CountedRefunds
    <3>3. IsFiniteSet(CountedRefunds) /\ \A j \in CountedRefunds : AmountOf[j] \in Nat
      BY AmountsNat DEF RefundsInv
    <3>4. Sum(AmountOf, CountedRefunds') <= Sum(AmountOf, CountedRefunds)
      BY <3>2, <3>3, SumPart
    <3>5. Total' \in Nat
      <4>1. IsFiniteSet(CountedRefunds') /\ \A j \in CountedRefunds' : AmountOf[j] \in Nat
        BY <3>2, <3>3, FS_Subset
      <4> QED BY <3>1, <4>1, SumNat DEF Total
    <3> QED BY <3>1, <3>4, <3>5 DEF Total
  <2>4. Total \in Nat /\ PaymentAmount \in Nat
    BY AmountsNat DEF RefundsInv, RF!RefundsConstants
  <2>5. \A q \in Processings : Knows(processing[q])'
    <3> SUFFICES ASSUME NEW q \in Processings PROVE Knows(processing[q])'
      OBVIOUS
    <3>1. CASE q = p
      BY <1>1, <1>2, <1>4, <3>1 DEF Knows
    <3>2. CASE q # p
      BY <2>2, <3>2 DEF Knows, Idle
    <3> QED BY <3>1, <3>2
  <2>6. \A j \in RefundIds :
           creation[j].at = "create" => Total' + creation[j].amount <= PaymentAmount
    <3>1. \A j \in RefundIds : creation[j].amount \in Nat
      BY RefundTypes DEF RefundsInv, RefundsKnown, CreationRecord, RF!Amounts, RF!RefundsConstants
    <3> QED BY <2>1, <2>3, <2>4, <3>1 DEF RefundsSafe
  <2>7. Total' <= PaymentAmount
    BY <2>1, <2>3, <2>4 DEF RefundsSafe
  <2>8. \A j \in DOMAIN refunds' : DebitedOnce(refunds'[j])
    BY <1>2, <1>4, <2>1 DEF RefundsSafe
  <2>9. faults \cap {"redis", "db"} = {} =>
           /\ \A q \in Processings : processing'[q].at # "fail"
           /\ \A j \in DOMAIN refunds' : refunds'[j].status \in RF!Counted
    BY <1>1, <1>2, <1>4, <2>1 DEF RefundsSafe
  <2>10. \A q, s \in Processings : Idle(processing'[q]) \/ Idle(processing'[s]) \/ q = s
    BY <2>2
  <2>11. \A j, k \in RefundIds : Idle(creation[j]) \/ Idle(creation[k]) \/ j = k
    BY <2>1 DEF RefundsSafe
  <2> QED BY <2>5, <2>6, <2>7, <2>8, <2>9, <2>10, <2>11 DEF RefundsSafe, Idle, DebitedOnce, RF!Counted
<1> QED BY <1>3, <1>4 DEF RefundsInv

LEMMA CreationStep ==
    ASSUME RF!RefundsTypeOK, NEW i \in RefundIds, NEW step \in CreationSteps, RF!CreationAt(i, step)
    PROVE  \E c \in CreationRecord :
              /\ creation' = [creation EXCEPT ![i] = c]
              /\ c.at = step /\ c.amount = creation[i].amount
<1> DEFINE c == [at |-> step, amount |-> creation[i].amount, full |-> creation[i].full]
<1>1. creation[i] \in CreationRecord
  BY RefundTypes
<1>2. [creation[i] EXCEPT !.at = step] = c /\ c \in CreationRecord
  BY <1>1 DEF CreationRecord
<1>3. c.at = step /\ c.amount = creation[i].amount
  OBVIOUS
<1> HIDE DEF c
<1> QED BY <1>2, <1>3 DEF RF!CreationAt

LEMMA ProcessingStep ==
    ASSUME RF!RefundsTypeOK, NEW p \in Processings, NEW step \in ProcessingSteps,
           RF!ProcessingAt(p, step)
    PROVE  \E c \in ProcessingRecord :
              /\ processing' = [processing EXCEPT ![p] = c]
              /\ c.at = step /\ c.refund = processing[p].refund
<1> DEFINE c == [at |-> step, refund |-> processing[p].refund]
<1>1. processing[p] \in ProcessingRecord
  BY RefundTypes
<1>2. [processing[p] EXCEPT !.at = step] = c /\ c \in ProcessingRecord
  BY <1>1 DEF ProcessingRecord
<1>3. c.at = step /\ c.refund = processing[p].refund
  OBVIOUS
<1> HIDE DEF c
<1> QED BY <1>2, <1>3 DEF RF!ProcessingAt

LEMMA SumsRefunds ==
    ASSUME RF!RefundsConstants, RefundsInv, NEW i \in RefundIds, RF!SumRefunds(i), UNCHANGED faults
    PROVE  RefundsInv'
<1>1. /\ RF!RefundsTypeOK /\ creation[i].at = "sum" /\ Total \in Nat
      /\ UNCHANGED <<paymentStatus, refunds, processing>>
      /\ paymentStatus \in {"PAID", "REFUNDED"} /\ PaymentAmount \in Nat
  BY AmountsNat DEF RF!SumRefunds, RefundsInv, RefundsKnown, RF!RefundsTypeOK, RF!RefundsConstants
<1>2. i \notin DOMAIN refunds
  BY <1>1 DEF RefundsInv, RefundsKnown
<1>3. "overlaps" \notin faults => \A j \in RefundIds : j # i => Idle(creation[j])
  BY <1>1 DEF RefundsInv, RefundsSafe, Idle
<1>4. CASE RF!CreationAt(i, "ended")
  <2>1. PICK c \in CreationRecord : creation' = [creation EXCEPT ![i] = c] /\ c.at = "ended"
    BY <1>1, <1>4, CreationStep DEF CreationSteps
  <2>2. Idle(c)
    BY <2>1 DEF Idle
  <2> QED BY <1>1, <1>2, <2>1, <2>2, CreationGoesOn
<1>5. CASE ~RF!CreationAt(i, "ended")
  <2>1. PICK amount \in (1..PaymentAmount) \cup {PaymentAmount - Total} :
           /\ amount > 0 /\ Total + amount <= PaymentAmount
           /\ creation' = [creation EXCEPT ![i] =
                 [at |-> "create", amount |-> amount, full |-> Total + amount = PaymentAmount]]
    BY <1>5, TotalIs DEF RF!SumRefunds
  <2>2. amount \in RF!Amounts
    BY <1>1, <2>1 DEF RF!Amounts
  <2>3. (Total + amount = PaymentAmount) \in BOOLEAN
    BY Zenon
  <2>4. PICK full \in BOOLEAN : full = (Total + amount = PaymentAmount)
    BY <2>3, Zenon
  <2> DEFINE c == [at |-> "create", amount |-> amount, full |-> full]
  <2>5. c \in CreationRecord /\ c.at = "create" /\ c.amount = amount
    BY <2>2 DEF CreationRecord, CreationSteps
  <2>6. creation' = [creation EXCEPT ![i] = c]
    BY <2>1, <2>4, Zenon
  <2> HIDE DEF c
  <2> QED BY <1>1, <1>2, <1>3, <2>1, <2>5, <2>6, CreationGoesOn
<1> QED BY <1>4, <1>5

LEMMA CreatesRefund ==
    ASSUME RF!RefundsConstants, RefundsInv, NEW i \in RefundIds, RF!CreateRefund(i), UNCHANGED faults
    PROVE  RefundsInv'
<1>1. /\ creation[i].at = "create" /\ RF!RefundsTypeOK /\ IsFiniteSet(DOMAIN refunds)
      /\ UNCHANGED <<paymentStatus, processing>>
      /\ creation \in [RefundIds -> CreationRecord]
  BY RefundTypes DEF RF!CreateRefund, RefundsInv, RefundsKnown
<1>2. i \notin DOMAIN refunds
  BY <1>1 DEF RefundsInv, RefundsKnown
<1>3. PICK toAddress \in BOOLEAN :
         refunds' = [j \in DOMAIN refunds \cup {i} |->
              IF j = i
              THEN [status |-> "PENDING", amount |-> creation[i].amount,
                    toAddress |-> toAddress, debits |-> 0]
              ELSE refunds[j]]
  BY DEF RF!CreateRefund
<1> DEFINE x == [status |-> "PENDING", amount |-> creation[i].amount,
                 toAddress |-> toAddress, debits |-> 0]
<1>4. x \in RefundRecord
  BY <1>1 DEF RefundRecord, RefundStatuses, CreationRecord
<1>5. x.status = "PENDING" /\ x.amount = creation[i].amount /\ x.debits = 0
  OBVIOUS
<1>6. /\ DOMAIN refunds' = DOMAIN refunds \cup {i} /\ refunds'[i] = x
      /\ \A j \in DOMAIN refunds : j # i /\ refunds'[j] = refunds[j]
  BY <1>2, <1>3
<1> HIDE DEF x
<1>7. PICK c \in CreationRecord : creation' = [creation EXCEPT ![i] = c] /\ c.at = "mark"
  BY <1>1, CreationStep DEF CreationSteps, RF!CreateRefund
<1>8. /\ creation' \in [RefundIds -> CreationRecord] /\ creation'[i].at = "mark"
      /\ \A j \in RefundIds : j # i => creation'[j] = creation[j]
  BY <1>1, <1>7
<1>9. RefundsKnown'
  <2>1. \A j \in DOMAIN refunds' : j \in RefundIds /\ refunds'[j] \in RefundRecord
    BY <1>1, <1>4, <1>6, RefundTypes
  <2>2. RF!RefundsTypeOK'
    BY <1>1, <1>8, <2>1
       DEF RF!RefundsTypeOK, CreationRecord, CreationSteps, RefundRecord, RefundStatuses
  <2>3. IsFiniteSet(DOMAIN refunds')
    BY <1>1, <1>6, FS_AddElement
  <2>4. \A j \in DOMAIN refunds' : creation'[j].at \in {"mark", "ended"}
    BY <1>6, <1>8, <2>1 DEF RefundsInv, RefundsKnown
  <2>5. \A p \in Processings : ~Idle(processing[p]) => processing[p].refund \in DOMAIN refunds'
    BY <1>6 DEF RefundsInv, RefundsKnown
  <2> QED BY <1>1, <2>2, <2>3, <2>4, <2>5 DEF RefundsKnown, Idle
<1>10. ASSUME "overlaps" \notin faults PROVE RefundsSafe'
  <2>1. RefundsSafe
    BY <1>10 DEF RefundsInv
  <2>2. \A j \in RefundIds : j # i => Idle(creation[j])
    BY <1>1, <2>1 DEF RefundsSafe, Idle
  <2>3. Total' = Total + creation[i].amount /\ Total + creation[i].amount <= PaymentAmount
    <3>1. CountedRefunds' = CountedRefunds \cup {i} /\ i \notin CountedRefunds
      BY <1>2, <1>5, <1>6 DEF CountedRefunds, RF!Counted
    <3>2. /\ \A j \in DOMAIN refunds : AmountOf'[j] = AmountOf[j]
          /\ AmountOf'[i] = creation[i].amount
      BY <1>5, <1>6 DEF AmountOf
    <3>3. /\ IsFiniteSet(CountedRefunds) /\ \A j \in CountedRefunds : AmountOf[j] \in Nat
          /\ \A j \in CountedRefunds : AmountOf'[j] = AmountOf[j]
      BY <3>2, AmountsNat DEF RefundsInv
    <3>4. creation[i].amount \in Nat
      BY <1>1 DEF CreationRecord, RF!Amounts, RF!RefundsConstants
    <3>5. Sum(AmountOf', CountedRefunds) = Sum(AmountOf, CountedRefunds)
      BY <3>3, SumSame
    <3>6. Sum(AmountOf', CountedRefunds \cup {i}) = AmountOf'[i] + Sum(AmountOf', CountedRefunds)
      <4>1. \A j \in CountedRefunds \cup {i} : AmountOf'[j] \in Int
        BY <3>2, <3>3, <3>4
      <4> QED BY <3>1, <3>3, <4>1, SumAdd
    <3>7. Sum(AmountOf, CountedRefunds) \in Nat
      BY <3>3, SumNat
    <3>8. Total' = Total + creation[i].amount
      BY <3>1, <3>2, <3>4, <3>5, <3>6, <3>7 DEF Total
    <3> QED BY <1>1, <2>1, <3>8 DEF RefundsSafe
  <2>4. \A p \in Processings : Knows(processing[p])'
    <3> SUFFICES ASSUME NEW p \in Processings PROVE Knows(processing[p])'
      OBVIOUS
    <3>1. CASE Idle(processing[p])
      BY <1>1, <3>1 DEF Knows, Idle
    <3>2. CASE ~Idle(processing[p])
      <4>1. processing[p].refund \in DOMAIN refunds /\ Knows(processing[p])
        BY <2>1, <3>2 DEF RefundsInv, RefundsKnown, RefundsSafe
      <4> QED BY <1>1, <1>6, <4>1 DEF Knows
    <3> QED BY <3>1, <3>2
  <2>5. \A j \in DOMAIN refunds' : DebitedOnce(refunds'[j])
    BY <1>5, <1>6, <2>1 DEF RefundsSafe, DebitedOnce
  <2>6. faults \cap {"redis", "db"} = {} =>
           \A j \in DOMAIN refunds' : refunds'[j].status \in RF!Counted
    BY <1>5, <1>6, <2>1 DEF RefundsSafe, RF!Counted
  <2>7. \A j, k \in RefundIds : Idle(creation'[j]) \/ Idle(creation'[k]) \/ j = k
    BY <1>8, <2>2
  <2>8. \A j \in RefundIds : creation'[j].at # "create"
    BY <1>8, <2>2 DEF Idle
  <2> QED BY <1>1, <2>1, <2>3, <2>4, <2>5, <2>6, <2>7, <2>8
          DEF RefundsSafe, Idle, DebitedOnce, RF!Counted
<1> QED BY <1>9, <1>10 DEF RefundsInv

(* What a step of processRefund() knows of its refund.                     *)
LEMMA RefundAt ==
    ASSUME RF!RefundsConstants, RefundsInv, NEW p \in Processings, ~Idle(processing[p])
    PROVE  /\ RF!RefundsTypeOK /\ processing[p] \in ProcessingRecord
           /\ processing[p].refund \in DOMAIN refunds
           /\ refunds[processing[p].refund] \in RefundRecord
           /\ "overlaps" \notin faults =>
                 /\ Knows(processing[p]) /\ DebitedOnce(refunds[processing[p].refund])
                 /\ \A q \in Processings : q # p => Idle(processing[q])
                 /\ faults \cap {"redis", "db"} = {} =>
                       /\ processing[p].at # "fail"
                       /\ refunds[processing[p].refund].status \in RF!Counted
BY RefundTypes DEF RefundsInv, RefundsKnown, RefundsSafe

LEMMA StatusChanges ==
    ASSUME NEW p, NEW status \in RefundStatuses, RF!SetRefund(p, status),
           refunds[processing[p].refund] \in RefundRecord
    PROVE  \E x \in RefundRecord :
              /\ refunds' = [refunds EXCEPT ![processing[p].refund] = x]
              /\ x.status = status
              /\ x.amount = refunds[processing[p].refund].amount
              /\ x.debits = refunds[processing[p].refund].debits
<1> DEFINE r == refunds[processing[p].refund]
           x == [status |-> status, amount |-> r.amount, toAddress |-> r.toAddress,
                 debits |-> r.debits]
<1>1. [r EXCEPT !.status = status] = x /\ x \in RefundRecord
  BY DEF RefundRecord
<1>2. x.status = status /\ x.amount = r.amount /\ x.debits = r.debits
  OBVIOUS
<1> HIDE DEF x
<1> QED BY <1>1, <1>2 DEF RF!SetRefund

LEMMA DebitChanges ==
    ASSUME NEW p, refunds' = [refunds EXCEPT ![processing[p].refund].debits = @ + 1],
           refunds[processing[p].refund] \in RefundRecord
    PROVE  \E x \in RefundRecord :
              /\ refunds' = [refunds EXCEPT ![processing[p].refund] = x]
              /\ x.status = refunds[processing[p].refund].status
              /\ x.amount = refunds[processing[p].refund].amount
              /\ x.debits = refunds[processing[p].refund].debits + 1
<1> DEFINE r == refunds[processing[p].refund]
           x == [status |-> r.status, amount |-> r.amount, toAddress |-> r.toAddress,
                 debits |-> r.debits + 1]
<1>1. [r EXCEPT !.debits = r.debits + 1] = x /\ x \in RefundRecord
  BY DEF RefundRecord
<1>2. x.status = r.status /\ x.amount = r.amount /\ x.debits = r.debits + 1
  OBVIOUS
<1> HIDE DEF x
<1> QED BY <1>1, <1>2

(* A call of createRefund() reads the payment, marks it, or ends.          *)
LEMMA CreationMoves ==
    ASSUME RF!RefundsConstants, RefundsInv, NEW i \in RefundIds, NEW step \in {"sum", "ended"},
           RF!CreationAt(i, step), paymentStatus' \in {"PAID", "REFUNDED"},
           UNCHANGED <<faults, refunds, processing>>,
           step = "sum" => creation[i].at = "no" /\ RF!Alone({creation[j] : j \in RefundIds})
    PROVE  RefundsInv'
<1>1. RF!RefundsTypeOK /\ step \in CreationSteps
  BY DEF RefundsInv, RefundsKnown, CreationSteps
<1>2. PICK c \in CreationRecord : creation' = [creation EXCEPT ![i] = c] /\ c.at = step
  BY <1>1, CreationStep
<1>3. i \in DOMAIN refunds => c.at \in {"mark", "ended"}
  BY <1>2 DEF RefundsInv, RefundsKnown
<1>4. ~Idle(c) => "overlaps" \in faults \/ \A j \in RefundIds : Idle(creation[j])
  BY <1>2 DEF Idle, RF!Alone
<1>5. c.at # "create"
  BY <1>2
<1> QED BY <1>2, <1>3, <1>4, <1>5, CreationGoesOn

(* A call of processRefund() goes on without changing its refund.          *)
LEMMA ProcessingMoves ==
    ASSUME RF!RefundsConstants, RefundsInv, NEW p \in Processings, NEW step \in {"fail", "ended"},
           RF!ProcessingAt(p, step), UNCHANGED <<faults, refunds, creation, paymentStatus>>,
           step = "fail" => ~Idle(processing[p]) /\ faults \cap {"redis", "db"} # {}
    PROVE  RefundsInv'
<1>1. RF!RefundsTypeOK /\ step \in ProcessingSteps
  BY DEF RefundsInv, RefundsKnown, ProcessingSteps
<1>2. PICK c \in ProcessingRecord :
         /\ processing' = [processing EXCEPT ![p] = c]
         /\ c.at = step /\ c.refund = processing[p].refund
  BY <1>1, ProcessingStep
<1>3. ~Idle(c) => step = "fail"
  BY <1>2 DEF Idle
<1>4. ~Idle(c) => c.refund \in DOMAIN refunds
  BY <1>2, <1>3, RefundAt
<1>5. Knows(c)
  BY <1>2 DEF Knows
<1>6. "overlaps" \notin faults => (~Idle(c) => \A q \in Processings : q # p => Idle(processing[q]))
  BY <1>3, RefundAt
<1> QED BY <1>2, <1>4, <1>5, <1>6, ProcessingGoesOn

LEMMA FindsRefund ==
    ASSUME RF!RefundsConstants, RefundsInv, NEW p \in Processings, RF!FindRefund(p),
           UNCHANGED faults
    PROVE  RefundsInv'
<1>1. /\ UNCHANGED <<paymentStatus, refunds, creation>>
      /\ "overlaps" \in faults \/ \A q \in Processings : Idle(processing[q])
  BY DEF RF!FindRefund, RF!Alone, Idle
<1>2. PICK i \in DOMAIN refunds :
         processing' = [processing EXCEPT ![p] =
             [at |-> IF refunds[i].status = "PENDING" THEN "mark" ELSE "ended", refund |-> i]]
  BY DEF RF!FindRefund
<1> DEFINE c == [at |-> IF refunds[i].status = "PENDING" THEN "mark" ELSE "ended", refund |-> i]
<1>3. c \in ProcessingRecord
  BY RefundTypes DEF RefundsInv, RefundsKnown, ProcessingRecord, ProcessingSteps
<1>4. c.refund = i /\ c.at \in {"mark", "ended"} /\ (c.at = "mark" => refunds[i].status = "PENDING")
  OBVIOUS
<1> HIDE DEF c
<1>5. Knows(c)
  BY <1>4 DEF Knows
<1>6. processing' = [processing EXCEPT ![p] = c]
  BY <1>2 DEF c
<1> QED BY <1>1, <1>3, <1>4, <1>5, <1>6, ProcessingGoesOn

(* The steps of processRefund() that change the refund.                    *)
LEMMA RefundProcessed ==
    ASSUME RF!RefundsConstants, RefundsInv, NEW p \in Processings,
           RF!MarkProcessing(p) \/ RF!Complete(p) \/ RF!Debit(p) \/ RF!MarkFailed(p),
           UNCHANGED faults
    PROVE  RefundsInv'
<1>1. /\ ~Idle(processing[p]) /\ UNCHANGED <<paymentStatus, creation>>
  BY DEF RF!MarkProcessing, RF!Complete, RF!Debit, RF!MarkFailed, Idle
<1> DEFINE i == processing[p].refund
<1>2. /\ RF!RefundsTypeOK /\ i \in DOMAIN refunds /\ refunds[i] \in RefundRecord
      /\ "overlaps" \notin faults =>
            /\ Knows(processing[p]) /\ DebitedOnce(refunds[i])
            /\ faults \cap {"redis", "db"} = {} =>
                  processing[p].at # "fail" /\ refunds[i].status \in RF!Counted
  BY <1>1, RefundAt
<1>3. CASE RF!MarkProcessing(p)
  <2>1. PICK x \in RefundRecord :
           /\ refunds' = [refunds EXCEPT ![i] = x] /\ x.status = "PROCESSING"
           /\ x.amount = refunds[i].amount /\ x.debits = refunds[i].debits
    BY <1>2, <1>3, StatusChanges DEF RF!MarkProcessing, RefundStatuses
  <2>2. PICK c \in ProcessingRecord :
           /\ processing' = [processing EXCEPT ![p] = c]
           /\ c.at \in {"complete", "ended"} /\ c.refund = i
    BY <1>2, <1>3, ProcessingStep DEF RF!MarkProcessing, ProcessingSteps
  <2>3. processing[p].at = "mark"
    BY <1>3 DEF RF!MarkProcessing
  <2>4. "overlaps" \notin faults => refunds[i].status = "PENDING" /\ DebitedOnce(x)
    BY <1>2, <2>1, <2>3 DEF Knows, DebitedOnce
  <2>5. "PENDING" \in RF!Counted /\ "PROCESSING" \in RF!Counted
    BY DEF RF!Counted
  <2> HIDE DEF i
  <2>6. i = processing[p].refund
    BY DEF i
  <2> QED BY <1>1, <2>1, <2>2, <2>4, <2>5, <2>6, RefundChanges
<1>4. CASE RF!Complete(p)
  <2>1. PICK x \in RefundRecord :
           /\ refunds' = [refunds EXCEPT ![i] = x] /\ x.status = "COMPLETED"
           /\ x.amount = refunds[i].amount /\ x.debits = refunds[i].debits
    BY <1>2, <1>4, StatusChanges DEF RF!Complete, RefundStatuses
  <2>2. PICK c \in ProcessingRecord :
           processing' = [processing EXCEPT ![p] = c] /\ c.at = "debit" /\ c.refund = i
    BY <1>2, <1>4, ProcessingStep DEF RF!Complete, ProcessingSteps
  <2>3. processing[p].at = "complete"
    BY <1>4 DEF RF!Complete
  <2>4. "overlaps" \notin faults =>
           refunds[i].status = "PROCESSING" /\ DebitedOnce(x) /\ x.debits = 0
    BY <1>2, <2>1, <2>3 DEF Knows, DebitedOnce
  <2>5. "PROCESSING" \in RF!Counted /\ "COMPLETED" \in RF!Counted
    BY DEF RF!Counted
  <2> HIDE DEF i
  <2>6. i = processing[p].refund
    BY DEF i
  <2> QED BY <1>1, <2>1, <2>2, <2>4, <2>5, <2>6, RefundChanges
<1>5. CASE RF!Debit(p)
  <2>1. PICK x \in RefundRecord :
           /\ refunds' = [refunds EXCEPT ![i] = x] /\ x.status = refunds[i].status
           /\ x.amount = refunds[i].amount /\ x.debits = refunds[i].debits + 1
    BY <1>2, <1>5, DebitChanges DEF RF!Debit
  <2>2. PICK c \in ProcessingRecord :
           processing' = [processing EXCEPT ![p] = c] /\ c.at = "notify" /\ c.refund = i
    BY <1>2, <1>5, ProcessingStep DEF RF!Debit, ProcessingSteps
  <2>3. processing[p].at = "debit"
    BY <1>5 DEF RF!Debit
  <2>4. "overlaps" \notin faults => x.status = "COMPLETED" /\ DebitedOnce(x)
    BY <1>2, <2>1, <2>3 DEF Knows, DebitedOnce
  <2>5. "COMPLETED" \in RF!Counted
    BY DEF RF!Counted
  <2> HIDE DEF i
  <2>6. i = processing[p].refund
    BY DEF i
  <2> QED BY <1>1, <2>1, <2>2, <2>4, <2>5, <2>6, RefundChanges
<1>6. CASE RF!MarkFailed(p)
  <2>1. PICK x \in RefundRecord :
           /\ refunds' = [refunds EXCEPT ![i] = x] /\ x.status = "FAILED"
           /\ x.amount = refunds[i].amount /\ x.debits = refunds[i].debits
    BY <1>2, <1>6, StatusChanges DEF RF!MarkFailed, RefundStatuses
  <2>2. PICK c \in ProcessingRecord :
           processing' = [processing EXCEPT ![p] = c] /\ c.at = "ended" /\ c.refund = i
    BY <1>2, <1>6, ProcessingStep DEF RF!MarkFailed, ProcessingSteps
  <2>3. processing[p].at = "fail"
    BY <1>6 DEF RF!MarkFailed
  <2>4. "overlaps" \notin faults => DebitedOnce(x) /\ faults \cap {"redis", "db"} # {}
    BY <1>2, <2>1, <2>3 DEF DebitedOnce
  <2>5. "FAILED" \notin RF!Counted
    BY DEF RF!Counted
  <2> HIDE DEF i
  <2>6. i = processing[p].refund
    BY DEF i
  <2> QED BY <1>1, <2>1, <2>2, <2>4, <2>5, <2>6, RefundChanges
<1> QED BY <1>3, <1>4, <1>5, <1>6

LEMMA RefundsStaySafe ==
    ASSUME RF!RefundsConstants, RefundsInv, RF!RefundsNext PROVE RefundsInv'
<1>1. UNCHANGED faults /\ paymentStatus \in {"PAID", "REFUNDED"}
  BY DEF RF!RefundsNext, RefundsInv, RefundsKnown, RF!RefundsTypeOK
<1>2. ASSUME NEW i \in RefundIds, RF!FindPayment(i) PROVE RefundsInv'
  BY <1>1, <1>2, CreationMoves DEF RF!FindPayment
<1>3. ASSUME NEW i \in RefundIds, RF!MarkRefunded(i) PROVE RefundsInv'
  BY <1>1, <1>3, CreationMoves DEF RF!MarkRefunded
<1>4. ASSUME NEW p \in Processings, RF!Notify(p) PROVE RefundsInv'
  <2>1. ~Idle(processing[p])
    BY <1>4 DEF RF!Notify, Idle
  <2> QED BY <1>1, <1>4, <2>1, ProcessingMoves DEF RF!Notify
<1>5. CASE RF!DbThrows
  <2>1. ASSUME NEW i \in RefundIds, RF!CreationAt(i, "ended"), UNCHANGED processing
        PROVE  RefundsInv'
    BY <1>1, <1>5, <2>1, CreationMoves DEF RF!DbThrows
  <2>2. ASSUME NEW p \in Processings, RF!ProcessingAt(p, "ended"), UNCHANGED creation
        PROVE  RefundsInv'
    BY <1>1, <1>5, <2>2, ProcessingMoves DEF RF!DbThrows
  <2>3. ASSUME NEW p \in Processings, processing[p].at \in {"complete", "debit"},
               RF!ProcessingAt(p, "fail"), UNCHANGED creation
        PROVE  RefundsInv'
    <3>1. ~Idle(processing[p]) /\ faults \cap {"redis", "db"} # {}
      BY <1>5, <2>3 DEF Idle, RF!DbThrows
    <3> QED BY <1>1, <1>5, <2>3, <3>1, ProcessingMoves DEF RF!DbThrows
  <2> QED BY <1>5, <2>1, <2>2, <2>3 DEF RF!DbThrows
<1>6. CASE RF!CallDies
  BY <1>1, <1>6, CreationMoves, ProcessingMoves DEF RF!CallDies
<1> QED BY <1>1, <1>2, <1>3, <1>4, <1>5, <1>6, SumsRefunds, CreatesRefund, FindsRefund,
           RefundProcessed
        DEF RF!RefundsNext

LEMMA RefundsStep == [Next]_vars => RF!RefundsNext \/ UNCHANGED <<faults, refundVars>>
BY FaultsStay DEF Next, vars, refundVars

LEMMA RefundsInvariant == Spec => []RefundsInv
<1>0. RF!RefundsConstants
  BY ServicesAssumption
<1>1. Init => RefundsInv
  BY <1>0, RefundsStart
<1>2. RefundsInv /\ [Next]_vars => RefundsInv'
  <2> SUFFICES ASSUME RefundsInv, [Next]_vars PROVE RefundsInv'
    OBVIOUS
  <2>1. CASE RF!RefundsNext
    BY <1>0, <2>1, RefundsStaySafe
  <2>2. CASE UNCHANGED <<faults, refundVars>>
    <3>1. UNCHANGED <<faults, paymentStatus, refunds, creation, processing>>
      BY <2>2 DEF refundVars
    <3>2. RefundsKnown'
      BY <3>1 DEF RefundsInv, RefundsKnown, RF!RefundsTypeOK, Idle
    <3>3. Total' = Total /\ \A call : Knows(call)' <=> Knows(call)
      BY <3>1 DEF Total, AmountOf, CountedRefunds, Knows
    <3>4. RefundsSafe => RefundsSafe'
      BY <3>1, <3>3 DEF RefundsSafe, Idle, DebitedOnce
    <3> QED BY <3>1, <3>2, <3>4 DEF RefundsInv
  <2> QED BY <2>1, <2>2, RefundsStep
<1> QED BY <1>1, <1>2, PTL DEF Spec

(* While refunds are created one at a time and processed one at a time,    *)
(* those that have not failed never exceed the payment, nor, unless Redis  *)
(* or the database fails, does what is taken from the merchant.            *)
THEOREM RefundsTheorem == Spec => []RefundsWithinPayment
<1>1. RefundsInv => RefundsWithinPayment
  <2> SUFFICES ASSUME RefundsInv, "overlaps" \notin faults
               PROVE  /\ RF!TotalOf(RF!Counted) <= PaymentAmount
                      /\ faults \cap {"redis", "db"} = {} => RF!Debited <= PaymentAmount
    BY DEF RefundsWithinPayment, RF!RefundsWithinPayment, RF!Counted
  <2>1. Total <= PaymentAmount /\ \A i \in DOMAIN refunds : DebitedOnce(refunds[i])
    BY DEF RefundsInv, RefundsSafe
  <2>2. ASSUME faults \cap {"redis", "db"} = {} PROVE RF!Debited <= PaymentAmount
    <3> DEFINE f == [i \in DOMAIN refunds |-> refunds[i].amount * refunds[i].debits]
    <3>1. /\ CountedRefunds = DOMAIN refunds /\ IsFiniteSet(DOMAIN refunds)
          /\ Total \in Nat /\ PaymentAmount \in Nat
          /\ \A i \in DOMAIN refunds :
                /\ refunds[i] \in RefundRecord /\ refunds[i].amount \in Nat
                /\ AmountOf[i] = refunds[i].amount
      BY <2>2, AmountsNat, ServicesAssumption
         DEF RefundsInv, RefundsKnown, RefundsSafe, CountedRefunds, RF!RefundsConstants
    <3>2. \A i \in DOMAIN refunds : AmountOf[i] \in Nat /\ f[i] \in Nat /\ f[i] <= AmountOf[i]
      BY <2>1, <3>1 DEF DebitedOnce
    <3>3. RF!Debited = Sum(f, DOMAIN refunds)
      <4>1. DOMAIN f = DOMAIN refunds
        OBVIOUS
      <4> HIDE DEF f
      <4>2. RF!SumFunction(f) = Sum(f, DOMAIN refunds)
        BY <4>1
           DEF RF!SumFunction, RF!SumFunctionOnSet, RF!FoldFunction, RF!FoldFunctionOnSet,
               RF!MapThenFoldSet, Sum, Sums, Some
      <4> QED BY <4>2 DEF RF!Debited, f
    <3> HIDE DEF f
    <3>4. Sum(f, DOMAIN refunds) <= Sum(AmountOf, DOMAIN refunds)
      BY <3>1, <3>2, SumBelow
    <3>5. Sum(f, DOMAIN refunds) \in Nat
      BY <3>1, <3>2, SumNat
    <3> QED BY <2>1, <3>1, <3>3, <3>4, <3>5 DEF Total
  <2> QED BY <2>1, <2>2, TotalIs
<1> QED BY <1>1, RefundsInvariant, PTL

---------------------------------------------------------------------------
(* The WhatsApp session                                                    *)

LEMMA SessionStarts == ASSUME WA!WhatsAppConstants, Init PROVE WA!WhatsAppTypeOK
<1>1. /\ \E first \in Sockets :
             waSocket = [s \in Sockets |-> IF s = first THEN "credentials" ELSE "no"]
      /\ current = WA!NoSocket /\ isConnected = FALSE
      /\ reconnectAttempts = 0 /\ losses = 0 /\ closedInRow = 0
  BY DEF Init, WA!WhatsAppInit, WA!WhatsAppConstants
<1>2. waSocket \in [Sockets -> WA!SocketStates]
  BY <1>1 DEF WA!SocketStates
<1>3. reconnectAttempts \in 0..MaxReconnectAttempts /\ losses \in 0..MaxLosses /\ closedInRow \in Nat
  BY <1>1 DEF WA!WhatsAppConstants
<1>4. isConnected \in BOOLEAN
  BY <1>1
<1> QED BY <1>1, <1>2, <1>3, <1>4 DEF WA!WhatsAppTypeOK

LEMMA SocketBecomes ==
    ASSUME WA!WhatsAppTypeOK, NEW s, NEW state \in WA!SocketStates, WA!Becomes(s, state)
    PROVE  waSocket' \in [Sockets -> WA!SocketStates]
BY DEF WA!WhatsAppTypeOK, WA!Becomes

LEMMA CloseHandled ==
    ASSUME WA!WhatsAppConstants, WA!WhatsAppTypeOK, NEW s \in Sockets, WA!HandleClose(s),
           losses' \in 0..MaxLosses
    PROVE  WA!WhatsAppTypeOK'
<1>1. /\ isConnected' = FALSE /\ closedInRow' = closedInRow + 1 /\ current' = current
      /\ closedInRow \in Nat /\ reconnectAttempts \in 0..MaxReconnectAttempts
      /\ MaxReconnectAttempts \in Nat /\ current \in Sockets \cup {WA!NoSocket}
  BY DEF WA!HandleClose, WA!WhatsAppTypeOK, WA!WhatsAppConstants
<1>2. "no" \in WA!SocketStates /\ "timer" \in WA!SocketStates
  BY DEF WA!SocketStates
<1>3. reconnectAttempts' \in 0..MaxReconnectAttempts
  BY <1>1 DEF WA!HandleClose
<1>4. WA!Becomes(s, "no") \/ WA!Becomes(s, "timer")
  BY DEF WA!HandleClose
<1>5. waSocket' \in [Sockets -> WA!SocketStates]
  BY <1>2, <1>4, SocketBecomes
<1>6. isConnected' \in BOOLEAN
  BY <1>1
<1>7. closedInRow' \in Nat
  BY <1>1
<1> QED BY <1>1, <1>3, <1>5, <1>6, <1>7 DEF WA!WhatsAppTypeOK

LEMMA SessionKeepsTypes ==
    ASSUME WA!WhatsAppConstants, WA!WhatsAppTypeOK, WA!WhatsAppNext PROVE WA!WhatsAppTypeOK'
<1>1. /\ \A state \in {"no", "credentials", "connecting", "open", "replaced", "ending"} :
             state \in WA!SocketStates
      /\ waSocket \in [Sockets -> WA!SocketStates]
      /\ current \in Sockets \cup {WA!NoSocket} /\ isConnected \in BOOLEAN
      /\ reconnectAttempts \in 0..MaxReconnectAttempts /\ losses \in 0..MaxLosses
      /\ closedInRow \in Nat /\ MaxReconnectAttempts \in Nat /\ MaxLosses \in Nat
  BY DEF WA!SocketStates, WA!WhatsAppTypeOK, WA!WhatsAppConstants
<1>2. ASSUME NEW s \in Sockets, WA!Initialize(s) \/ WA!TimerFires(s) \/ WA!InitializeThrows(s)
      PROVE  WA!WhatsAppTypeOK'
  <2>1. waSocket' \in [Sockets -> WA!SocketStates]
    BY <1>1, <1>2, SocketBecomes DEF WA!Initialize, WA!TimerFires, WA!InitializeThrows
  <2> QED BY <1>1, <1>2, <2>1
          DEF WA!WhatsAppTypeOK, WA!Initialize, WA!TimerFires, WA!InitializeThrows
<1>3. ASSUME NEW s \in Sockets, WA!MakeSocket(s) PROVE WA!WhatsAppTypeOK'
  <2>1. waSocket' \in [Sockets -> WA!SocketStates]
    BY <1>1, <1>3, SocketBecomes DEF WA!MakeSocket
  <2> QED BY <1>1, <1>3, <2>1 DEF WA!WhatsAppTypeOK, WA!MakeSocket
<1>4. ASSUME NEW s \in Sockets, WA!ConnectionOpens(s) PROVE WA!WhatsAppTypeOK'
  <2>1. waSocket' \in [Sockets -> WA!SocketStates]
    BY <1>1, <1>4 DEF WA!ConnectionOpens
  <2> QED BY <1>1, <1>4, <2>1 DEF WA!WhatsAppTypeOK, WA!ConnectionOpens
<1>5. ASSUME NEW s \in Sockets, WA!ConnectionLost(s) PROVE WA!WhatsAppTypeOK'
  <2>1. losses' \in 0..MaxLosses
    BY <1>1, <1>5 DEF WA!ConnectionLost
  <2> QED BY <1>5, <2>1, CloseHandled DEF WA!ConnectionLost
<1>6. ASSUME NEW s \in Sockets, WA!ConnectionClosed(s) PROVE WA!WhatsAppTypeOK'
  BY <1>1, <1>6, CloseHandled DEF WA!ConnectionClosed
<1>7. ASSUME NEW s \in Sockets, WA!LoggedOut(s) PROVE WA!WhatsAppTypeOK'
  <2>1. waSocket' \in [Sockets -> WA!SocketStates]
    BY <1>1, <1>7, SocketBecomes DEF WA!LoggedOut
  <2>2. isConnected' \in BOOLEAN
    BY <1>7 DEF WA!LoggedOut
  <2>3. closedInRow' \in Nat
    BY <1>1, <1>7 DEF WA!LoggedOut
  <2> QED BY <1>1, <1>7, <2>1, <2>2, <2>3 DEF WA!WhatsAppTypeOK, WA!LoggedOut
<1>8. CASE WA!Disconnect
  <2>1. waSocket' \in [Sockets -> WA!SocketStates]
    BY <1>1, <1>8 DEF WA!Disconnect
  <2> QED BY <1>1, <1>8, <2>1 DEF WA!WhatsAppTypeOK, WA!Disconnect
<1> QED BY <1>2, <1>3, <1>4, <1>5, <1>6, <1>7, <1>8 DEF WA!WhatsAppNext, WA!SessionStep

LEMMA SessionSteps == [Next]_vars => WA!WhatsAppNext \/ UNCHANGED <<faults, whatsAppVars>>
BY FaultsStay DEF Next, vars, whatsAppVars

LEMMA SessionInvariant == Spec => []WA!WhatsAppTypeOK
<1>0. WA!WhatsAppConstants
  BY ServicesAssumption
<1>1. Init => WA!WhatsAppTypeOK
  BY <1>0, SessionStarts
<1>2. WA!WhatsAppTypeOK /\ [Next]_vars => WA!WhatsAppTypeOK'
  <2> SUFFICES ASSUME WA!WhatsAppTypeOK, [Next]_vars PROVE WA!WhatsAppTypeOK'
    OBVIOUS
  <2>1. CASE WA!WhatsAppNext
    BY <1>0, <2>1, SessionKeepsTypes
  <2>2. CASE UNCHANGED <<faults, whatsAppVars>>
    BY <2>2 DEF whatsAppVars, WA!WhatsAppTypeOK
  <2> QED BY <2>1, <2>2, SessionSteps
<1> QED BY <1>1, <1>2, PTL DEF Spec

---------------------------------------------------------------------------
(* Start and shutdown                                                      *)

DatabaseNeeded == starting = "started" /\ ~databaseUp /\ ~early => requests = 0

(* Unless the signal came first: a signal drains the server before         *)
(* anything is disconnected, and nothing makes it listen again.            *)
Drains ==
    /\ stopping = "no" => ~early
    /\ ~early =>
          /\ listening => starting = "started" /\ stopping \in {"no", "exited"}
          /\ starting = "started" /\ stopping = "no" => listening
          /\ starting = "redis" /\ stopping = "no" => databaseUp
          /\ starting = "started" /\ stopping \in {"no", "drain", "queues", "database"} =>
                databaseUp
          /\ stopping \notin {"no", "exited"} => starting = "started"
          /\ stopping \in {"queues", "database", "redis", "rejected"} => requests = 0

LifecycleTypes ==
    /\ starting \in {"database", "redis", "started"}
    /\ stopping \in {"no", "drain", "queues", "database", "redis", "rejected", "exited"}
    /\ requests \in 0..MaxRequests /\ clients \in 0..MaxClients
Flags ==
    /\ forceTimer \in BOOLEAN /\ databaseUp \in BOOLEAN /\ listening \in BOOLEAN
    /\ background \in BOOLEAN /\ early \in BOOLEAN

LifecycleInv == LifecycleTypes /\ Flags /\ Drains /\ DatabaseNeeded

LEMMA LifecycleTyped == LifecycleTypes /\ Flags => LC!LifecycleTypeOK
BY DEF LifecycleTypes, Flags, LC!LifecycleTypeOK

LEMMA LifecycleStarts == ASSUME LC!LifecycleConstants, Init PROVE LifecycleInv
<1>1. LifecycleTypes
  BY DEF Init, LC!LifecycleInit, LifecycleTypes, LC!LifecycleConstants
<1>2. Flags
  BY DEF Init, LC!LifecycleInit, Flags
<1>3. Drains /\ DatabaseNeeded
  BY DEF Init, LC!LifecycleInit, Drains, DatabaseNeeded
<1> QED BY <1>1, <1>2, <1>3 DEF LifecycleInv

LEMMA LifecycleStepSafe ==
    ASSUME LC!LifecycleConstants, LifecycleInv, LC!LifecycleNext PROVE LifecycleInv'
<1> USE DEF LC!Alive
<1>1. LifecycleTypes /\ Flags /\ Drains /\ DatabaseNeeded
  BY DEF LifecycleInv
<1>2. LifecycleTypes'
  BY <1>1
     DEF LifecycleTypes, LC!LifecycleConstants, LC!LifecycleNext, LC!StartFails,
         LC!DatabaseConnected, LC!RedisConnected, LC!Signal, LC!Drained, LC!QueuesClosed,
         LC!DatabaseDisconnected, LC!RedisDisconnected, LC!DisconnectThrows, LC!ForceExit,
         LC!Connections
<1>3. Flags'
  BY <1>1, Zenon
     DEF Flags, LC!LifecycleNext, LC!StartFails,
         LC!DatabaseConnected, LC!RedisConnected, LC!Signal, LC!Drained, LC!QueuesClosed,
         LC!DatabaseDisconnected, LC!RedisDisconnected, LC!DisconnectThrows, LC!ForceExit,
         LC!Connections
<1>4. Drains' /\ DatabaseNeeded'
  <2> USE <1>1 DEF LifecycleTypes, Drains, DatabaseNeeded
  <2>1. CASE LC!StartFails
    BY <2>1 DEF LC!StartFails
  <2>2. CASE LC!DatabaseConnected
    BY <2>2 DEF LC!DatabaseConnected
  <2>3. CASE LC!RedisConnected
    BY <2>3 DEF LC!RedisConnected
  <2>4. CASE LC!Signal
    BY <2>4 DEF LC!Signal
  <2>5. CASE LC!Drained
    BY <2>5 DEF LC!Drained
  <2>6. CASE LC!QueuesClosed
    BY <2>6 DEF LC!QueuesClosed
  <2>7. CASE LC!DatabaseDisconnected
    BY <2>7 DEF LC!DatabaseDisconnected
  <2>8. CASE LC!RedisDisconnected
    BY <2>8 DEF LC!RedisDisconnected
  <2>9. CASE LC!DisconnectThrows
    BY <2>9 DEF LC!DisconnectThrows
  <2>10. CASE LC!ForceExit
    BY <2>10 DEF LC!ForceExit
  <2>11. CASE LC!Connections
    BY <2>11 DEF LC!Connections, LC!LifecycleConstants
  <2> QED BY <2>1, <2>2, <2>3, <2>4, <2>5, <2>6, <2>7, <2>8, <2>9, <2>10, <2>11
          DEF LC!LifecycleNext
<1> QED BY <1>2, <1>3, <1>4 DEF LifecycleInv

LEMMA LifecycleSteps == [Next]_vars => LC!LifecycleNext \/ UNCHANGED <<faults, lifecycleVars>>
BY FaultsStay DEF Next, vars, lifecycleVars

LEMMA LifecycleInvariant == Spec => []LifecycleInv
<1>0. LC!LifecycleConstants
  BY ServicesAssumption
<1>1. Init => LifecycleInv
  BY <1>0, LifecycleStarts
<1>2. LifecycleInv /\ [Next]_vars => LifecycleInv'
  <2> SUFFICES ASSUME LifecycleInv, [Next]_vars PROVE LifecycleInv'
    OBVIOUS
  <2>1. CASE LC!LifecycleNext
    BY <1>0, <2>1, LifecycleStepSafe
  <2>2. CASE UNCHANGED <<faults, lifecycleVars>>
    <3>1. UNCHANGED <<starting, stopping, forceTimer, databaseUp, listening, background,
                      requests, clients, early>>
      BY <2>2 DEF lifecycleVars
    <3>2. LifecycleTypes' /\ Drains' /\ DatabaseNeeded'
      BY <3>1 DEF LifecycleInv, LifecycleTypes, Drains, DatabaseNeeded
    <3>3. Flags'
      BY <3>1, Zenon DEF LifecycleInv, Flags
    <3> QED BY <3>2, <3>3 DEF LifecycleInv
  <2> QED BY <2>1, <2>2, LifecycleSteps
<1> QED BY <1>1, <1>2, PTL DEF Spec

(* Unless the signal came before the server listened, the database is      *)
(* disconnected only after the last request: the part of ShutdownCompletes *)
(* that is an invariant.                                                   *)
THEOREM DrainTheorem ==
    Spec => [](starting = "started" /\ ~databaseUp /\ ~early => requests = 0)
<1>1. LifecycleInv => (starting = "started" /\ ~databaseUp /\ ~early => requests = 0)
  BY DEF LifecycleInv, DatabaseNeeded
<1> QED BY <1>1, LifecycleInvariant, PTL

---------------------------------------------------------------------------
(* All services                                                            *)

(* Every variable of every service keeps its type.                         *)
THEOREM ServicesTypes == Spec => []TypeOK
<1>1. Spec => []CB!BreakerTypeOK
  <2>1. CBP!BreakerConstants
    BY ServicesAssumption DEF CB!BreakerConstants, CBP!BreakerConstants
  <2>2. CBP!BreakerSpec => []CBP!BreakerInv
    BY <2>1, CBP!BreakerInvariant
  <2>3. CBP!BreakerInv => CB!BreakerTypeOK
    BY DEF CBP!BreakerInv, CBP!BreakerTypeOK, CB!BreakerTypeOK
  <2> QED BY <2>2, <2>3, BreakerStarts, BreakerSteps, PTL DEF Spec, CBP!BreakerSpec
<1>2. Spec => [](<<focus, faults>> \in Scenarios)
  <2>1. Init => <<focus, faults>> \in Scenarios
    <3> SUFFICES ASSUME Init PROVE <<focus, faults>> \in Scenarios
      OBVIOUS
    <3>1. PICK scenario \in Scenarios : focus = scenario[1] /\ faults = scenario[2]
      BY DEF Init
    <3>2. scenario \in Focus \X SUBSET ServiceFaults
      BY ServicesAssumption
    <3> QED BY <3>1, <3>2
  <2>2. <<focus, faults>> \in Scenarios /\ [Next]_vars => (<<focus, faults>> \in Scenarios)'
    BY FaultsStay
  <2> QED BY <2>1, <2>2, PTL DEF Spec
<1>3. DeliveryInv => WD!DeliveryTypeOK
  BY DEF DeliveryInv, QueueInv
<1>4. AddressInv => PA!AddressTypeOK
  BY DEF AddressInv, Basics
<1>5. RefundsInv => RF!RefundsTypeOK
  BY DEF RefundsInv, RefundsKnown
<1>6. WalletInv => HW!WalletTypeOK
  BY DEF WalletInv
<1>7. LimiterInv => RL!LimiterTypeOK
  BY DEF LimiterInv
<1>8. RatesInv => RA!RatesTypeOK
  BY DEF RatesInv
<1>9. SettingsInv => ST!SettingsTypeOK
  BY DEF SettingsInv
<1>10. LifecycleInv => LC!LifecycleTypeOK
  BY LifecycleTyped DEF LifecycleInv
<1>11. /\ <<focus, faults>> \in Scenarios /\ CB!BreakerTypeOK /\ WD!DeliveryTypeOK
       /\ PA!AddressTypeOK /\ RF!RefundsTypeOK /\ HW!WalletTypeOK /\ RL!LimiterTypeOK
       /\ RA!RatesTypeOK /\ ST!SettingsTypeOK /\ WA!WhatsAppTypeOK /\ LC!LifecycleTypeOK
       => TypeOK
  BY DEF TypeOK
<1> QED BY <1>1, <1>2, <1>3, <1>4, <1>5, <1>6, <1>7, <1>8, <1>9, <1>10, <1>11,
           DeliveryInvariant, AddressInvariant, RefundsInvariant, WalletInvariant,
           LimiterInvariant, RatesInvariant, SettingsInvariant, SessionInvariant,
           LifecycleInvariant, PTL
=============================================================================
