------------------------------- MODULE Settings --------------------------------
(***************************************************************************)
(* A document of settings kept as one row of systemSetting with a copy in  *)
(* Redis that expires: the platform settings (src/backend/src/services/    *)
(* settings.service.ts), the approval thresholds (withdrawal-approval.     *)
(* service.ts) and the fraud rules (fraud-detection.service.ts).  Every    *)
(* getter fills the copy; an update merges a part of a document into what  *)
(* the getter answers and writes the whole.                                *)
(***************************************************************************)
EXTENDS Integers

CONSTANTS
    Updates,     \* bound: calls that update the document
    Getters,     \* callers that read it, time and again
    PatchOf,     \* update -> the field it sets and its value
    NoDocument

(* Two fields that validation compares: autoApproveLimit and               *)
(* singleApprovalLimit, or the withdrawals per hour and per day.           *)
Fields == {"lower", "upper"}
Documents == [Fields -> Nat]
Defaults == [f \in Fields |-> IF f = "lower" THEN 1 ELSE 2]

(* What the composing module assumes of the constants.                     *)
SettingsConstants ==
    /\ PatchOf \in [Updates -> Fields \X Nat]
    /\ Updates \cap Getters = {}
    /\ NoDocument \notin Documents

VARIABLES
    faults,      \* what may go wrong; never changes
    document,    \* which of the three documents it is; never changes
    stored,      \* the row
    cached,      \* the copy in Redis
    expires,     \* the copy has a time to live
    asking,      \* call -> where it is and the document it holds
    applied      \* history: the defaults with every update written so far

settingsVars == <<stored, cached, expires, asking, applied>>

Steps == {"no", "get", "load", "fill", "write", "del", "set", "ended"}

SettingsTypeOK ==
    /\ document \in {"settings", "thresholds", "rules"}
    /\ {stored, cached} \subseteq Documents \cup {NoDocument}
    /\ expires \in BOOLEAN
    /\ asking \in [Updates \cup Getters -> [at : Steps, doc : Documents]]
    /\ applied \in Documents

SettingsInit ==
    /\ stored = NoDocument /\ cached = NoDocument /\ expires = FALSE
    /\ asking = [c \in Updates \cup Getters |-> [at |-> "no", doc |-> Defaults]]
    /\ applied = Defaults

AskingAt(c, step) == asking' = [asking EXCEPT ![c].at = step]
Holds(c, step, doc) == asking' = [asking EXCEPT ![c] = [at |-> step, doc |-> doc]]

(* deepMerge(), or the spread of the partial thresholds.                   *)
Merge(doc, patch) == [doc EXCEPT ![patch[1]] = patch[2]]

(* validateSettings() and its copy in updateThresholds(); updateRules()    *)
(* validates nothing.                                                      *)
Valid(doc) == document = "rules" \/ doc.lower < doc.upper

(* What the getter answered: a caller that only reads is done.             *)
Answered(c, doc) ==
    IF c \in Getters THEN Holds(c, "ended", doc)
    ELSE LET updated == Merge(doc, PatchOf[c]) IN
         Holds(c, IF Valid(updated) THEN "write" ELSE "ended", updated)

(* Seeded fault: set instead of setex.                                     *)
SetForever(doc) == cached' = doc /\ expires' = FALSE

SetEx(doc) == cached' = doc /\ expires' = TRUE

---------------------------------------------------------------------------
(* getSettings(), getThresholds(), getRules()                              *)

Ask(c) ==
    /\ asking[c].at = "no" \/ (c \in Getters /\ asking[c].at = "ended")
    /\ \/ "overlaps" \in faults
       \/ \A d \in Updates \cup Getters : asking[d].at \in {"no", "ended"}
    /\ Holds(c, "get", Defaults)
    /\ UNCHANGED <<stored, cached, expires, applied>>

GetCached(c) ==
    /\ asking[c].at = "get"
    /\ IF cached # NoDocument THEN Answered(c, cached) ELSE AskingAt(c, "load")
    /\ UNCHANGED <<stored, cached, expires, applied>>

(* Only getSettings() goes on to the database when Redis throws.           *)
GetThrows(c) ==
    /\ asking[c].at = "get" /\ "redis" \in faults
    /\ IF document = "settings" THEN AskingAt(c, "load") ELSE Answered(c, Defaults)
    /\ UNCHANGED <<stored, cached, expires, applied>>

(* A call that throws answers the defaults, as if there were no row.       *)
LoadDocument(c) ==
    /\ asking[c].at = "load"
    /\ \/ stored # NoDocument /\ Holds(c, "fill", stored)
       \/ (stored = NoDocument \/ "db" \in faults) /\ Answered(c, Defaults)
    /\ UNCHANGED <<stored, cached, expires, applied>>

FillCache(c) ==
    /\ asking[c].at = "fill"
    /\ \/ SetEx(asking[c].doc) /\ Answered(c, asking[c].doc)
       \/ /\ "redis" \in faults
          /\ SetEx(asking[c].doc) \/ UNCHANGED <<cached, expires>>
          /\ Answered(c, Defaults)
    /\ UNCHANGED <<stored, applied>>

---------------------------------------------------------------------------
(* updateSettings(), updateThresholds(), updateRules(), from the merge on  *)

(* Seeded fault: the fraud rules and the thresholds leave the old copy.    *)
UpsertAndReturn(c) ==
    /\ asking[c].at = "write"
    /\ stored' = asking[c].doc
    /\ applied' = Merge(applied, PatchOf[c])
    /\ AskingAt(c, IF document = "settings" THEN "del" ELSE "ended")
    /\ UNCHANGED <<cached, expires>>

Upsert(c) ==
    /\ asking[c].at = "write"
    /\ stored' = asking[c].doc
    /\ applied' = Merge(applied, PatchOf[c])
    /\ AskingAt(c, IF document = "settings" THEN "del" ELSE "set")
    /\ UNCHANGED <<cached, expires>>

DeleteCached(c) ==
    /\ asking[c].at = "del"
    /\ cached' = NoDocument /\ expires' = FALSE
    /\ AskingAt(c, "set")
    /\ UNCHANGED <<stored, applied>>

(* auditService.log(), which follows, never throws.                        *)
SetCached(c) ==
    /\ asking[c].at = "set"
    /\ SetEx(asking[c].doc)
    /\ AskingAt(c, "ended")
    /\ UNCHANGED <<stored, applied>>

(* A call of the update throws and nothing is undone, or the process dies. *)
UpdateFails(c) ==
    /\ \/ "db" \in faults /\ asking[c].at = "write"
       \/ "redis" \in faults /\ asking[c].at \in {"del", "set"}
       \/ "dies" \in faults /\ asking[c].at \notin {"no", "ended"}
    /\ AskingAt(c, "ended")
    /\ UNCHANGED <<stored, cached, expires, applied>>

Expire ==
    /\ expires
    /\ cached' = NoDocument /\ expires' = FALSE
    /\ UNCHANGED <<stored, asking, applied>>

SettingsNext ==
    /\ \/ \E c \in Updates \cup Getters :
             \/ Ask(c) \/ GetCached(c) \/ GetThrows(c) \/ LoadDocument(c) \/ FillCache(c)
             \/ Upsert(c) \/ DeleteCached(c) \/ SetCached(c) \/ UpdateFails(c)
       \/ Expire
    /\ UNCHANGED <<faults, document>>

---------------------------------------------------------------------------
(* Properties                                                              *)

(* No update undoes another one while calls do not overlap and nothing     *)
(* throws, although each writes the whole document from a copy that may    *)
(* have come from Redis.                                                   *)
UpdatesKept ==
    faults = {} => stored = NoDocument \/ stored = applied

(* Whatever overlapped, failed or died, the copy in Redis is in the end    *)
(* the row: what a slow getter or update left there expires.               *)
CacheConverges == <>[](cached \in {NoDocument, stored})
=============================================================================
