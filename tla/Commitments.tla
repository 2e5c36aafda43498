---------------------------- MODULE Commitments -----------------------------
(***************************************************************************)
(* The open-loop list: commitments/usecase (manage, extract, sweep) over   *)
(* the commitments table of commitments/adapters/driven/postgres.          *)
(*                                                                         *)
(* Each SQL statement is one step.  A request that reads a row, decides    *)
(* and then writes is two steps, and the writes are unconditional, so any  *)
(* other request may come between.  What a request carries from its read   *)
(* to its write is in req.  A read that ends in an error, or in nothing to *)
(* do, changes no state and has no action.                                 *)
(***************************************************************************)
EXTENDS FiniteSets, Integers

CONSTANTS
    Loop,          \* rows the table may ever hold (the bound on inserts)
    Text,          \* wordings up to service.Fingerprint
    Client,        \* requests that may be in flight together
    MaxCandidates, \* proposals one extraction may store (3 in ParseCandidates)
    ListLimit      \* rows findLive asks for (500)

ASSUME CommitmentsAssumption ==
    /\ IsFiniteSet(Loop)
    /\ Text # {}
    /\ MaxCandidates \in Nat
    /\ ListLimit \in Nat \ {0}

VARIABLES
    status,    \* the status column, "none" before the insert
    text,      \* the fingerprint column
    resolved,  \* rows whose resolved_at is set
    untouched, \* rows whose updated_at is older than the sweep's cutoff
    req,       \* req[c], what request c carries to its next statement
    extract,   \* the extraction slot: "idle", "asking" the model, "storing",
               \* "late" when its context is done
    left       \* candidates the extraction has not stored yet

rows == <<status, text, resolved, untouched>>
slot == <<extract, left>>
vars == <<status, text, resolved, untouched, req, extract, left>>

-----------------------------------------------------------------------------

Status == {"proposed", "open", "done", "dropped", "stale"}

LiveStatus == {"proposed", "open"}

ResolvedStatus == {"done", "dropped"}

\* Slip: every change of status is a transition.
allowedAnything == [s \in Status |-> Status \ {s}]

\* The transitions Manage.SetStatus lets through.
allowed ==
    [s \in Status |->
        CASE s = "proposed" -> {"open", "dropped"}
          [] s = "open"     -> {"done", "dropped", "stale"}
          [] s = "stale"    -> {"open", "done", "dropped"}
          [] s = "done"     -> {"open"}
          [] s = "dropped"  -> {"open"}]

Exists(l) == status[l] # "none"

Live(l) == status[l] \in LiveStatus

\* Slip: an index on open rows only.
FreeOfOpen(l, t) == \A m \in Loop \ {l} : status[m] = "open" => text[m] # t

\* uq_commitments_live_fingerprint lets row l be live with wording t.
Free(l, t) == \A m \in Loop \ {l} : Live(m) => text[m] # t

Request ==
    [op : {"idle", "refused"}]
        \cup [op : {"find"}, text : Text]
        \cup [op : {"write"}, id : Loop, to : Status]
        \cup [op : {"reword"}, id : Loop, text : Text, accept : BOOLEAN]

Idle == [op |-> "idle"]

\* resolved_at is set on the rows that are done or dropped, and on no other.
ResolvedStamp ==
    \A l \in Loop : l \in resolved <=> status[l] \in ResolvedStatus

\* The columns, the requests and the extraction slot; a row has a resolution
\* time exactly when it is done or dropped: reopening leaves no old time and
\* going stale takes none away (repository.SetStatus).
TypeOK ==
    /\ status \in [Loop -> Status \cup {"none"}]
    /\ text \in [Loop -> Text]
    /\ resolved \subseteq Loop
    /\ untouched \subseteq Loop
    /\ ResolvedStamp
    /\ req \in [Client -> Request]
    /\ extract \in {"idle", "asking", "storing", "late"}
    /\ left \subseteq Text

Init ==
    /\ status = [l \in Loop |-> "none"]
    /\ \E t \in Text : text = [l \in Loop |-> t]
    /\ resolved = {}
    /\ untouched = {}
    /\ req = [c \in Client |-> Idle]
    /\ extract = "idle"
    /\ left = {}

-----------------------------------------------------------------------------
(* The statements of the repository.                                       *)

\* Repository.Create when the index lets it in.
Insert(l, t, s) ==
    /\ status[l] = "none"
    /\ Free(l, t)
    /\ status' = [status EXCEPT ![l] = s]
    /\ text' = [text EXCEPT ![l] = t]
    /\ untouched' = untouched \ {l}
    /\ UNCHANGED resolved

\* Repository.Create refused with ErrDuplicate.
Tracked(t) == \E l \in Loop : Live(l) /\ text[l] = t

\* Slip: a row that is reopened keeps its time.
ResolutionKept(l, to) ==
    IF to \in ResolvedStatus THEN resolved \cup {l} ELSE resolved

\* The CASE on resolved_at: stamped on done and dropped, cleared otherwise.
Resolution(l, to) ==
    IF to \in ResolvedStatus THEN resolved \cup {l} ELSE resolved \ {l}

\* Repository.SetStatus: by id alone, whatever the row says by now.
Stamp(l, to) ==
    /\ to \in LiveStatus => Free(l, text[l])
    /\ status' = [status EXCEPT ![l] = to]
    /\ resolved' = Resolution(l, to)
    /\ untouched' = untouched \ {l}
    /\ UNCHANGED text

\* Slip: UpdateText on a table without the index.
RewriteFreely(l, t) ==
    /\ text' = [text EXCEPT ![l] = t]
    /\ untouched' = untouched \ {l}
    /\ UNCHANGED <<status, resolved>>

\* Repository.UpdateText.
Rewrite(l, t) ==
    /\ Live(l) => Free(l, t)
    /\ text' = [text EXCEPT ![l] = t]
    /\ untouched' = untouched \ {l}
    /\ UNCHANGED <<status, resolved>>

Then(c, r) == req' = [req EXCEPT ![c] = r]

-----------------------------------------------------------------------------
(* Manage: the requests of the web handler, and of the campaign map.       *)

\* Create stores a new open row.
CreateNew(c, t) ==
    /\ req[c] = Idle
    /\ \E l \in Loop : Insert(l, t, "open")
    /\ UNCHANGED <<req, slot>>

\* Create meets a live row with the same wording and will look for it.
CreateDuplicate(c, t) ==
    /\ req[c] = Idle
    /\ Tracked(t)
    /\ Then(c, [op |-> "find", text |-> t])
    /\ UNCHANGED <<rows, slot>>

\* What List returns to findLive: proposals before open rows, cut at the limit.
Page(S) ==
    LET live == {l \in Loop : Live(l)} IN
    /\ S \subseteq live
    /\ S = live \/ Cardinality(S) = ListLimit
    /\ Cardinality(S) <= ListLimit
    /\ \A l \in live \ S, m \in S : status[l] = "proposed" => status[m] = "proposed"

\* findLive: a proposal is confirmed next, an open row is the answer, and a row
\* that is not on the page leaves the duplicate error.
FindLive(c) ==
    /\ req[c].op = "find"
    /\ \E S \in SUBSET Loop :
        LET same == {l \in S : text[l] = req[c].text} IN
        /\ Page(S)
        /\ \/ /\ same = {}
              /\ Then(c, [op |-> "refused"])
           \/ \E l \in same :
                Then(c, IF status[l] = "proposed"
                        THEN [op |-> "write", id |-> l, to |-> "open"]
                        ELSE Idle)
    /\ UNCHANGED <<rows, slot>>

\* The handler answers a refused Create.
Answer(c) ==
    /\ req[c].op = "refused"
    /\ Then(c, Idle)
    /\ UNCHANGED <<rows, slot>>

\* SetStatus reads the row and checks the transition.
SetStatusRead(c, l, to) ==
    /\ req[c] = Idle
    /\ Exists(l)
    /\ to \in allowed[status[l]]
    /\ Then(c, [op |-> "write", id |-> l, to |-> to])
    /\ UNCHANGED <<rows, slot>>

\* The write that ends SetStatus, an accepting Edit and a confirming findLive.
SetStatusWrite(c) ==
    /\ req[c].op = "write"
    /\ \/ Stamp(req[c].id, req[c].to)
       \/ /\ req[c].to \in LiveStatus
          /\ ~Free(req[c].id, text[req[c].id])
          /\ UNCHANGED rows
    /\ Then(c, Idle)
    /\ UNCHANGED slot

\* Edit reads the row; a proposal will be accepted by it.
EditRead(c, l, t) ==
    /\ req[c] = Idle
    /\ Exists(l)
    /\ Then(c, [op |-> "reword", id |-> l, text |-> t,
                accept |-> status[l] = "proposed"])
    /\ UNCHANGED <<rows, slot>>

\* Edit rewrites the text, or is refused by the index and stops.
EditWrite(c) ==
    /\ req[c].op = "reword"
    /\ \/ /\ Rewrite(req[c].id, req[c].text)
          /\ Then(c, IF req[c].accept
                     THEN [op |-> "write", id |-> req[c].id, to |-> "open"]
                     ELSE Idle)
       \/ /\ Live(req[c].id) /\ ~Free(req[c].id, req[c].text)
          /\ Then(c, Idle)
          /\ UNCHANGED rows
    /\ UNCHANGED slot

\* SetTarget aims the row at a campaign item: here, only a touch.
SetTarget(l) ==
    /\ Exists(l)
    /\ untouched' = untouched \ {l}
    /\ UNCHANGED <<status, text, resolved, req, slot>>

\* Propose stores an order the room drew up.
Propose(t) ==
    /\ \E l \in Loop : Insert(l, t, "proposed")
    /\ UNCHANGED <<req, slot>>

\* The client goes away, or a statement fails: the request's context ends it.
Disconnect(c) ==
    /\ req[c] # Idle
    /\ Then(c, Idle)
    /\ UNCHANGED <<rows, slot>>

-----------------------------------------------------------------------------
(* Extract: one at a time, the turns that arrive meanwhile are skipped.    *)

ObserveTurn ==
    /\ extract = "idle"
    /\ extract' = "asking"
    /\ UNCHANGED <<rows, req, left>>

\* The model answers with at most MaxCandidates candidates.
ParseCandidates ==
    /\ extract = "asking"
    /\ extract' = "storing"
    /\ left' \in {T \in SUBSET Text : Cardinality(T) <= MaxCandidates}
    /\ UNCHANGED <<rows, req>>

\* Run stores a candidate as a proposal and passes over one already tracked.
StoreCandidate(t) ==
    /\ extract = "storing"
    /\ t \in left
    /\ left' = left \ {t}
    /\ \/ \E l \in Loop : Insert(l, t, "proposed")
       \/ Tracked(t) /\ UNCHANGED rows
    /\ UNCHANGED <<req, extract>>

\* Slip: the call to the model runs on a context of its own.
TimeOutStoring ==
    /\ extract = "storing"
    /\ extract' = "late"
    /\ left' = {}
    /\ UNCHANGED <<rows, req>>

\* extractTimeout passes: the call or the statement under way ends in an error,
\* and what was left is not stored.
TimeOut ==
    /\ extract \in {"asking", "storing"}
    /\ extract' = "late"
    /\ left' = {}
    /\ UNCHANGED <<rows, req>>

FreeSlot ==
    /\ extract' = "idle"
    /\ left' = {}
    /\ UNCHANGED <<rows, req>>

\* Run returns, all stored or out of time, and the deferred receive frees the
\* slot.
Returns == (extract = "late" \/ (extract = "storing" /\ left = {})) /\ FreeSlot

\* Run returns early: the call failed, its answer is no list or a statement
\* failed.
ExtractionFails == extract \in {"asking", "storing"} /\ FreeSlot

-----------------------------------------------------------------------------
(* Time, the hourly sweep and the process.                                 *)

\* Two weeks pass without a write to the row.
Age(l) ==
    /\ Exists(l)
    /\ l \notin untouched
    /\ untouched' = untouched \cup {l}
    /\ UNCHANGED <<status, text, resolved, req, slot>>

\* Slip: the cutoff compared the wrong way round.
SweepTouched ==
    /\ \E l \in Loop \ untouched : status[l] = "open"
    /\ status' = [l \in Loop |->
                    IF status[l] = "open" /\ l \notin untouched THEN "stale" ELSE status[l]]
    /\ UNCHANGED <<text, resolved, untouched, req, slot>>

\* MarkStale, one statement; it does not touch updated_at.
Sweep ==
    /\ \E l \in untouched : status[l] = "open"
    /\ status' = [l \in Loop |->
                    IF status[l] = "open" /\ l \in untouched THEN "stale" ELSE status[l]]
    /\ UNCHANGED <<text, resolved, untouched, req, slot>>

\* The process stops and starts: requests and the extraction are lost.
Restart ==
    /\ req' = [c \in Client |-> Idle]
    /\ extract' = "idle"
    /\ left' = {}
    /\ UNCHANGED rows

Next ==
    \/ \E c \in Client :
        \/ \E t \in Text : CreateNew(c, t) \/ CreateDuplicate(c, t)
        \/ FindLive(c)
        \/ Answer(c)
        \/ \E l \in Loop, to \in Status : SetStatusRead(c, l, to)
        \/ SetStatusWrite(c)
        \/ \E l \in Loop, t \in Text : EditRead(c, l, t)
        \/ EditWrite(c)
        \/ Disconnect(c)
    \/ \E l \in Loop : SetTarget(l) \/ Age(l)
    \/ \E t \in Text : Propose(t) \/ StoreCandidate(t)
    \/ ObserveTurn
    \/ ParseCandidates
    \/ TimeOut
    \/ Returns
    \/ ExtractionFails
    \/ Sweep
    \/ Restart

Spec == Init /\ [][Next]_vars

\* The sweep's ticker runs for the life of the process, a context's deadline
\* passes, and what returns frees the slot.  Nothing else is promised: the model
\* may never answer.
FairSpec == Spec /\ WF_vars(Sweep) /\ WF_vars(TimeOut) /\ WF_vars(Returns)

-----------------------------------------------------------------------------
(* Safety.                                                                 *)

\* The same promise made twice is one row: of the rows that count as
\* outstanding no two have one fingerprint, whatever creations, rewordings and
\* reopenings cross (migration 004, repository.Create, SetStatus, UpdateText).
LiveFingerprintUnique ==
    \A l, m \in Loop : l # m /\ Live(l) /\ Live(m) => text[l] # text[m]

\* Nothing you never agreed to enters the record of what you finished: a
\* proposal leaves the proposals as open or as dropped, even by a write decided
\* on an older read of the row (manage.go, allowed and SetStatus).
ProposalAcceptedFirst ==
    [][\A l \in Loop : status[l] = "proposed" /\ status'[l] # "proposed"
            => status'[l] \in {"open", "dropped"}]_vars

\* What a request has decided stays sound until it is written: its row is still
\* there, and if the row is a proposal the write accepts or drops it.
PendingDecision(r) ==
    /\ r.op = "write" => /\ Exists(r.id)
                         /\ r.to # "proposed"
                         /\ status[r.id] = "proposed" => r.to \in {"open", "dropped"}
    /\ r.op = "reword" => Exists(r.id)

\* What makes ProposalAcceptedFirst hold though SetStatus, findLive and Edit
\* write on an old read: no statement of another request makes the decision
\* wrong for a proposal (manage.go, SetStatus, findLive, Edit).
PendingDecisionsSound == \A c \in Client : PendingDecision(req[c])

\* The list implements the ledger (the fingerprint index and the life of a
\* loop), with requests that read first and write later.
Ledger == INSTANCE LoopLedger WITH status <- status, text <- text

ImplementsLedger == Ledger!Spec

-----------------------------------------------------------------------------
(* Liveness, under FairSpec.                                               *)

\* The list stays honest: a row that is open and two weeks untouched is touched,
\* settled or marked stale (startSweep, MarkStale).
UntouchedGoesStale ==
    \A l \in Loop : (status[l] = "open" /\ l \in untouched)
        ~> ~(status[l] = "open" /\ l \in untouched)

\* A turn that took the extraction slot gives it back though the model never
\* answers and no statement ends, so extraction does not stop for good: the
\* deadline reaches the call and every statement (ObserveTurn, extractTimeout).
SlotComesBack == (extract # "idle") ~> (extract = "idle")
=============================================================================
