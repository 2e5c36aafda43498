---------------------------- MODULE MemoryStore ----------------------------
(***************************************************************************)
(* The memories and the doctrine with their vectors, while the embedding   *)
(* model changes under them.  A write embeds through the memo              *)
(* (memory/usecase/memo_embedder.go) and the provider switch               *)
(* (memory/adapters/driven/aiswitch/switch.go), which read the settings at *)
(* every call, and labels the vector with the model current when it is     *)
(* saved.  Reindex (memory/usecase/reindex.go) replaces vectors of other   *)
(* models; the doctrine index (memory/usecase/doctrine.go) is rebuilt in   *)
(* the background after every change of settings.                          *)
(***************************************************************************)
EXTENDS Settings, Integers, SequencesExt

CONSTANTS EmbedKey,     \* the setting that picks the embedding model
          ApiKey,       \* the key that model NeedsKey needs
          DefaultModel, \* the model when EmbedKey is not set
          NeedsKey,     \* the model whose provider needs ApiKey
          Rosters,      \* passages a start of the process may find
          MemoSize,     \* MemoEmbedder.size
          Batch,        \* reindex.go batchSize
          Writers,      \* requests that write memories
          MaxRows,      \* bound: memories ever ingested
          MaxEdits,     \* bound: edits asked, to one of two bodies of the row
          MaxRuns       \* bound: reindex runs

ASSUME MemoryAssumption ==
    /\ {EmbedKey, ApiKey} \subseteq Keys
    /\ MemoSize \in Nat \ {0} /\ Batch \in Nat \ {0} /\ MaxRows \in Nat

VARIABLES memories,  \* id -> [body, vec, label]; Gone when deleted
          made,      \* memories ingested so far
          edits,     \* edits asked so far
          cache,     \* MemoEmbedder.cache: key -> vector
          order,     \* MemoEmbedder.order
          task,      \* writer -> the write it is in
          run,       \* the reindex that runs
          runs,      \* reindexes started so far
          roster,    \* the passages of this process
          doctrine,  \* DoctrineIndex: [model, vectors]
          kept,      \* the doctrine_embeddings table: <<passage, model>> -> vector
          waiting,   \* builds started and not yet under buildMu
          build      \* the build under buildMu

memoryVars == <<memories, made, edits, cache, order, task, run, runs,
                roster, doctrine, kept, waiting, build>>
vars == <<settingsVars, memoryVars>>

Models == {DefaultModel} \cup UNION {Accepts[r][EmbedKey] : r \in Releases}
Passages == UNION Rosters
Bodies == (1..MaxRows) \X (1..2)
Texts == Bodies \cup Passages
Vectors == [model : Models, text : Texts]
NoVector == [model |-> Unset, text |-> Unset]
Gone == [body |-> Unset, vec |-> NoVector, label |-> Unset]
Idle == [at |-> "idle"]
NoRun == [at |-> "idle", model |-> Unset, max |-> 0, done |-> 0, failed |-> 0,
          batch |-> <<>>, size |-> 0, before |-> 0, key |-> NoVector]
NoBuild == [at |-> "idle", model |-> Unset, todo |-> {}, calls |-> {}, failed |-> FALSE]
Alive == {i \in 1..made : memories[i] # Gone}

\* Slip: the setting as it is, not what it resolves to.
ModelIDRaw == current[EmbedKey]

\* Switch.ModelID: the embedding model the settings name at this moment.
ModelID == IF current[EmbedKey] = Unset THEN DefaultModel ELSE current[EmbedKey]

\* Config.EmbedProblem: nil.
CanEmbed == ModelID = NeedsKey => current[ApiKey] # Unset

\* The key MemoEmbedder looks a text up under.
MemoKey(text) == [model |-> ModelID, text |-> text]
Cached(key) == key \in DOMAIN cache

\* Slip: the miss is not looked up again before it is kept.
RememberTwice(key, vec) ==
    LET full == Len(order) >= MemoSize
        rest == IF full THEN [k \in DOMAIN cache \ {Head(order)} |-> cache[k]] ELSE cache
    IN  /\ cache' = [k \in DOMAIN rest \cup {key} |-> IF k = key THEN vec ELSE rest[k]]
        /\ order' = Append(IF full THEN Tail(order) ELSE order, key)

\* MemoEmbedder.Embed after the call: kept if still absent, the oldest leaves.
Remember(key, vec) ==
    IF Cached(key) THEN UNCHANGED <<cache, order>>
    ELSE LET full == Len(order) >= MemoSize
             rest == IF full THEN [k \in DOMAIN cache \ {Head(order)} |-> cache[k]]
                     ELSE cache
         IN  /\ cache' = [k \in DOMAIN rest \cup {key} |-> IF k = key THEN vec ELSE rest[k]]
             /\ order' = Append(IF full THEN Tail(order) ELSE order, key)

\* What the provider returns now for the text of a key looked up earlier.
Answer(key) == [model |-> ModelID, text |-> key.text]

----------------------------------------------------------------------------
(* Writes: Ingest.Execute of one chunk, Update.Execute, Delete. *)

\* The write embeds its text: a hit is had at once, a miss is called for.
Ask(w, id, new, text) ==
    task' = [task EXCEPT ![w] =
        IF Cached(MemoKey(text))
        THEN [at |-> "save", id |-> id, new |-> new, text |-> text, vec |-> cache[MemoKey(text)]]
        ELSE [at |-> "call", id |-> id, new |-> new, key |-> MemoKey(text)]]

Ingest(w) ==
    /\ up /\ task[w] = Idle /\ made < MaxRows
    /\ made' = made + 1
    /\ Ask(w, made + 1, TRUE, <<made + 1, 1>>)
    /\ UNCHANGED <<settingsVars, memories, edits, cache, order, run, runs,
                   roster, doctrine, kept, waiting, build>>

\* The body is the client's; the row is only looked for by the UPDATE.
Edit(w, id, body) ==
    /\ up /\ task[w] = Idle /\ id \in Alive /\ edits < MaxEdits
    /\ edits' = edits + 1
    /\ Ask(w, id, FALSE, body)
    /\ UNCHANGED <<settingsVars, memories, made, cache, order, run, runs,
                   roster, doctrine, kept, waiting, build>>

\* The provider answers, with the model of this moment.
Called(w) ==
    /\ up /\ task[w].at = "call" /\ CanEmbed
    /\ LET key == task[w].key IN
        /\ task' = [task EXCEPT ![w] =
               [at |-> "save", id |-> task[w].id, new |-> task[w].new,
                text |-> key.text, vec |-> Answer(key)]]
        /\ Remember(key, Answer(key))
    /\ UNCHANGED <<settingsVars, memories, made, edits, run, runs,
                   roster, doctrine, kept, waiting, build>>

\* The provider fails, or has no key: the write is refused.
CallFails(w) ==
    /\ up /\ task[w].at = "call"
    /\ task' = [task EXCEPT ![w] = Idle]
    /\ UNCHANGED <<settingsVars, memories, made, edits, cache, order, run, runs,
                   roster, doctrine, kept, waiting, build>>

\* The row is written with its vector and the model current now.  A new row
\* has no other writer; an UPDATE of a deleted row meets none.
Save(w) ==
    /\ up /\ task[w].at = "save"
    /\ LET t == task[w] IN
        memories' = IF ~t.new /\ memories[t.id] = Gone THEN memories
                    ELSE [memories EXCEPT ![t.id] =
                             [body |-> t.text, vec |-> t.vec, label |-> ModelID]]
    /\ task' = [task EXCEPT ![w] = Idle]
    /\ UNCHANGED <<settingsVars, made, edits, cache, order, run, runs,
                   roster, doctrine, kept, waiting, build>>

Delete(id) ==
    /\ up /\ id \in Alive
    /\ memories' = [memories EXCEPT ![id] = Gone]
    /\ UNCHANGED <<settingsVars, made, edits, cache, order, task, run, runs,
                   roster, doctrine, kept, waiting, build>>

----------------------------------------------------------------------------
(* Reindex.Execute. *)

\* ListStale: the oldest n rows of another model.
Stale(model) == {i \in Alive : memories[i].label # model}

Oldest(S, n) == {i \in S : Cardinality({j \in S : j < i}) < n}

Quota(r) ==
    IF r.max = 0 \/ r.max - r.done >= Batch THEN Batch ELSE r.max - r.done

StartReindex(max) ==
    /\ up /\ run = NoRun /\ runs < MaxRuns
    /\ run' = [NoRun EXCEPT !.at = "list", !.model = ModelID, !.max = max]
    /\ runs' = runs + 1
    /\ UNCHANGED <<settingsVars, memories, made, edits, cache, order, task,
                   roster, doctrine, kept, waiting, build>>

\* The next batch, or the end of the run.
ListBatch ==
    /\ up /\ run.at = "list"
    /\ LET batch == Oldest(Stale(run.model), Quota(run)) IN
        run' = IF batch = {} THEN NoRun
               ELSE [run EXCEPT !.at = "row", !.size = Cardinality(batch), !.before = run.done,
                                !.batch = [i \in batch |-> memories[i].body]]
    /\ UNCHANGED <<settingsVars, memories, made, edits, cache, order, task, runs,
                   roster, doctrine, kept, waiting, build>>

\* The row of a batch whose turn it is.
First(i) == i \in DOMAIN run.batch /\ \A j \in DOMAIN run.batch : i <= j

\* Slip: the failures of a whole batch do not end the run.
NextRowAlways(r, i) ==
    IF DOMAIN r.batch # {i} THEN [r EXCEPT !.at = "row", !.batch = Restrict(@, DOMAIN @ \ {i})]
    ELSE [r EXCEPT !.at = "list", !.batch = <<>>]

\* Row i is done with: the next of the batch, else another batch unless as
\* many rows failed so far as this batch had.
NextRow(r, i) ==
    IF DOMAIN r.batch # {i} THEN [r EXCEPT !.at = "row", !.batch = Restrict(@, DOMAIN @ \ {i})]
    ELSE IF r.failed >= r.size THEN NoRun
    ELSE [r EXCEPT !.at = "list", !.batch = <<>>]

\* The text the batch was listed with is looked up.
AskRow ==
    /\ up /\ run.at = "row"
    /\ \E i \in DOMAIN run.batch : First(i) /\
        LET key == MemoKey(run.batch[i]) IN
        run' = IF Cached(key) THEN [run EXCEPT !.at = "write", !.key = cache[key]]
               ELSE [run EXCEPT !.at = "call", !.key = key]
    /\ UNCHANGED <<settingsVars, memories, made, edits, cache, order, task, runs,
                   roster, doctrine, kept, waiting, build>>

RowCalled ==
    /\ up /\ run.at = "call" /\ CanEmbed
    /\ run' = [run EXCEPT !.at = "write", !.key = Answer(run.key)]
    /\ Remember(run.key, Answer(run.key))
    /\ UNCHANGED <<settingsVars, memories, made, edits, task, runs,
                   roster, doctrine, kept, waiting, build>>

RowFails ==
    /\ up /\ run.at = "call"
    /\ \E i \in DOMAIN run.batch :
        First(i) /\ run' = NextRow([run EXCEPT !.failed = @ + 1, !.key = NoVector], i)
    /\ UNCHANGED <<settingsVars, memories, made, edits, cache, order, task, runs,
                   roster, doctrine, kept, waiting, build>>

\* UpdateEmbedding: vector and label, whatever the row holds by now.
WriteRow ==
    /\ up /\ run.at = "write"
    /\ \E i \in DOMAIN run.batch :
        /\ First(i)
        /\ memories' = IF memories[i] = Gone THEN memories
                       ELSE [memories EXCEPT ![i].vec = run.key, ![i].label = run.model]
        /\ run' = NextRow([run EXCEPT !.done = @ + 1, !.key = NoVector], i)
    /\ UNCHANGED <<settingsVars, made, edits, cache, order, task, runs,
                   roster, doctrine, kept, waiting, build>>

----------------------------------------------------------------------------
(* DoctrineIndex.Build, started at boot and by every Apply. *)

\* A build given the model it is for: vectors of another are dropped, what the
\* table holds for this one is loaded (or Load fails), the rest is to embed.
Begun(model, loaded) ==
    LET have == IF doctrine.model = model THEN doctrine.vectors ELSE <<>>
        load == {p \in roster : loaded /\ <<p, model>> \in DOMAIN kept}
        known == DOMAIN have \cup load
    IN  /\ doctrine' = [model |-> model, vectors |->
               [p \in known |-> IF p \in DOMAIN have THEN have[p] ELSE kept[<<p, model>>]]]
        /\ build' = [NoBuild EXCEPT !.at = "embed", !.model = model, !.todo = roster \ known]

\* Slip: the model is read before buildMu is held, here when the process began.
BeginBuildStale ==
    /\ up /\ build = NoBuild /\ waiting > 0
    /\ waiting' = waiting - 1
    /\ \E loaded \in BOOLEAN :
        Begun(IF boot[EmbedKey] = Unset THEN DefaultModel ELSE boot[EmbedKey], loaded)
    /\ UNCHANGED <<settingsVars, memories, made, edits, cache, order, task, run, runs,
                   roster, kept>>

\* A waiting build gets buildMu and reads the model.
BeginBuild ==
    /\ up /\ build = NoBuild /\ waiting > 0
    /\ waiting' = waiting - 1
    /\ \E loaded \in BOOLEAN : Begun(ModelID, loaded)
    /\ UNCHANGED <<settingsVars, memories, made, edits, cache, order, task, run, runs,
                   roster, kept>>

\* The passage has its vector, in memory and, unless Save fails, in the table
\* under the model the build is for.
Placed(p, vec, saves) ==
    /\ doctrine' = [doctrine EXCEPT !.vectors =
           [q \in DOMAIN doctrine.vectors \cup {p} |->
               IF q = p THEN vec ELSE doctrine.vectors[q]]]
    /\ kept' = IF saves
               THEN [q \in DOMAIN kept \cup {<<p, build.model>>} |->
                        IF q = <<p, build.model>> THEN vec ELSE kept[q]]
               ELSE kept

\* One of the errgroup's goroutines takes a passage.
AskPassage(p) ==
    /\ up /\ p \in build.todo
    /\ LET key == MemoKey(p) IN
        IF Cached(key)
        THEN /\ build' = [build EXCEPT !.todo = @ \ {p}]
             /\ \E saves \in BOOLEAN : Placed(p, cache[key], saves)
        ELSE /\ build' = [build EXCEPT !.todo = @ \ {p}, !.calls = @ \cup {key}]
             /\ UNCHANGED <<doctrine, kept>>
    /\ UNCHANGED <<settingsVars, memories, made, edits, cache, order, task, run, runs,
                   roster, waiting>>

PassageCalled(key) ==
    /\ up /\ key \in build.calls /\ CanEmbed
    /\ build' = [build EXCEPT !.calls = @ \ {key}]
    /\ Remember(key, Answer(key))
    /\ \E saves \in BOOLEAN : Placed(key.text, Answer(key), saves)
    /\ UNCHANGED <<settingsVars, memories, made, edits, task, run, runs, roster, waiting>>

PassageFails(key) ==
    /\ up /\ key \in build.calls
    /\ build' = [build EXCEPT !.calls = @ \ {key}, !.failed = TRUE]
    /\ UNCHANGED <<settingsVars, memories, made, edits, cache, order, task, run, runs,
                   roster, doctrine, kept, waiting>>

\* Every passage is done with; a build that embedded all it missed prunes the
\* rows of its model no passage has any more.
EndBuild ==
    /\ up /\ build.at = "embed" /\ build.todo = {} /\ build.calls = {}
    /\ build' = NoBuild
    /\ kept' = IF build.failed THEN kept
               ELSE [q \in {d \in DOMAIN kept : d[2] = build.model => d[1] \in roster} |->
                        kept[q]]
    /\ UNCHANGED <<settingsVars, memories, made, edits, cache, order, task, run, runs,
                   roster, doctrine, waiting>>

----------------------------------------------------------------------------

\* The process starts: empty memo, no doctrine, the boot build started.
Start ==
    /\ \E h \in [env : Environments, seal : SealKeys \cup {NoSeal}, release : Releases] :
           Boot(h)
    /\ roster' \in Rosters
    /\ waiting' = 1
    /\ UNCHANGED <<memories, made, edits, cache, order, task, run, runs,
                   doctrine, kept, build>>

Change(changes) == Update(changes) /\ UNCHANGED memoryVars

\* Every Apply starts a build in a goroutine of its own.
Applied ==
    /\ Apply
    /\ waiting' = waiting + 1
    /\ UNCHANGED <<memories, made, edits, cache, order, task, run, runs,
                   roster, doctrine, kept, build>>

\* A write that had not saved is lost with the process.
Die ==
    /\ Crash
    /\ cache' = <<>> /\ order' = <<>>
    /\ task' = [w \in Writers |-> Idle]
    /\ run' = NoRun
    /\ doctrine' = [model |-> Unset, vectors |-> <<>>]
    /\ waiting' = 0 /\ build' = NoBuild
    /\ UNCHANGED <<memories, made, edits, runs, roster, kept>>

Init ==
    /\ SettingsInit
    /\ memories = [i \in 1..MaxRows |-> Gone]
    /\ made = 0 /\ edits = 0
    /\ cache = <<>> /\ order = <<>>
    /\ task = [w \in Writers |-> Idle]
    /\ run = NoRun /\ runs = 0
    /\ roster \in Rosters
    /\ doctrine = [model |-> Unset, vectors |-> <<>>]
    /\ kept = <<>>
    /\ waiting = 0 /\ build = NoBuild

\* What a PUT may ask: values or null for some of the keys.
ChangeSets == UNION {[S -> Values \cup {Unset}] : S \in SUBSET Keys}

Next ==
    \/ Start \/ Applied \/ Die
    \/ \E changes \in ChangeSets : Change(changes)
    \/ \E w \in Writers :
        \/ Ingest(w) \/ Called(w) \/ CallFails(w) \/ Save(w)
        \/ \E id \in Alive : \E v \in 1..2 : Edit(w, id, <<id, v>>)
    \/ \E id \in Alive : Delete(id)
    \/ \E max \in 0..1 : StartReindex(max)
    \/ ListBatch \/ AskRow \/ RowCalled \/ RowFails \/ WriteRow
    \/ BeginBuild \/ EndBuild
    \/ \E p \in build.todo : AskPassage(p)
    \/ \E key \in build.calls : PassageCalled(key) \/ PassageFails(key)

Spec == Init /\ [][Next]_vars

----------------------------------------------------------------------------

\* The shape of what the run and the tables hold.
TypeOK ==
    /\ DOMAIN memories = 1..MaxRows
    /\ \A i \in Alive : /\ memories[i].body \in Bodies
                        /\ memories[i].vec \in Vectors
                        /\ memories[i].label \in Models
    /\ DOMAIN cache \subseteq Vectors
    /\ \A p \in DOMAIN doctrine.vectors : p \in Passages /\ doctrine.vectors[p] \in Vectors

\* The memo never outgrows its size and its queue lists each entry once: two
\* misses on one text that are both answered leave one entry, so that no
\* eviction later drops a live entry or leaks one (memo_embedder.go).
MemoFits ==
    /\ Len(order) <= MemoSize
    /\ IsInjective(order) /\ ToSet(order) = DOMAIN cache

\* When every build started has ended, the doctrine is held in the model the
\* settings name: no order of builds and changes of settings leaves questions
\* compared with vectors dropped late (Build reads the model under buildMu,
\* after the change that started it was applied).
BuildsCatchUp ==
    up /\ waiting = 0 /\ build = NoBuild /\ saved = None => doctrine.model = ModelID

\* A reindex goes round again only after it rewrote a row: it cannot turn
\* forever on rows whose embedding fails (reindex.go).
RoundsProgress ==
    [][run.at \in {"call", "write"} /\ run'.at = "list" => run'.done > run'.before]_vars
============================================================================
