-------------------------- MODULE MemoryStoreProofs --------------------------
(***************************************************************************)
(* Proofs about MemoryStore and the Settings it extends, for any settings, *)
(* releases, models, passages, writers and bounds.                         *)
(***************************************************************************)
EXTENDS MemoryStore, FiniteSetTheorems, TLAPS

\* The stored values pl are the usable ones, and br says of the others.
Fit(pl, br) ==
    \A k \in Keys :
        IF Opens(k, host.seal)
           /\ (host.env[k] # Unset \/ table[k].value \in Accepts[host.release][k])
        THEN pl[k] = table[k].value /\ k \notin br
        ELSE pl[k] = Unset /\ (k \in br <=> table[k] # NoRow)

\* What the process runs is what it stored, or is about to: what Apply still
\* has to put in place fits the table already.
Configured ==
    /\ \A k \in Keys : table[k] # NoRow => table[k].value # Unset
    /\ ~up => saved = None
    /\ up => /\ host.release \in Releases
             /\ current = Layered(host.env, plain)
             /\ Candidate(host, plain)
             /\ saved = None => Fit(plain, broken)
             /\ saved # None => /\ Candidate(host, saved.next)
                                /\ Fit(saved.next, broken \ saved.changes)

\* The memo, its queue as long as its map is large.
Memo ==
    /\ DOMAIN cache \subseteq Vectors
    /\ \A k \in DOMAIN cache : cache[k] \in Vectors
    /\ order \in Seq(Vectors)
    /\ MemoFits

Tasks ==
    {Idle}
    \cup [at : {"save"}, id : 1 .. MaxRows, new : BOOLEAN, text : Bodies, vec : Vectors]
    \cup [at : {"call"}, id : 1 .. MaxRows, new : BOOLEAN, key : [model : Models, text : Bodies]]

\* Rows, and the writes on their way to them.
Written ==
    /\ made \in 0 .. MaxRows
    /\ DOMAIN memories = 1 .. MaxRows
    /\ \A i \in 1 .. MaxRows : memories[i] # Gone =>
        memories[i] \in [body : Bodies, vec : Vectors, label : Models]
    /\ task \in [Writers -> Tasks]

RunFields == {"at", "model", "max", "done", "failed", "batch", "size", "before", "key"}

\* A reindex within a batch: each row it has done with is done or failed.
Running ==
    /\ DOMAIN run = RunFields
    /\ {run.done, run.failed, run.size, run.before} \subseteq Nat
    /\ run.at # "idle" => run.model \in Models
    /\ DOMAIN run.batch \subseteq 1 .. MaxRows
    /\ \A i \in DOMAIN run.batch : run.batch[i] \in Bodies
    /\ run.at \in {"call", "write"} => run.key \in Vectors
    /\ run.at \in {"row", "call", "write"} =>
        run.size - Cardinality(DOMAIN run.batch) <= (run.done - run.before) + run.failed

Builds ==
    [at : {"idle", "embed"}, model : Models \cup {Unset}, todo : SUBSET Passages,
     calls : SUBSET [model : Models, text : Passages], failed : BOOLEAN]

\* The doctrine: with no build waiting it is held in the model the settings
\* name, whatever the build that holds buildMu still has to embed.
Held ==
    /\ roster \in Rosters
    /\ DOMAIN doctrine = {"model", "vectors"}
    /\ \A p \in DOMAIN doctrine.vectors : p \in Passages /\ doctrine.vectors[p] \in Vectors
    /\ \A q \in DOMAIN kept : kept[q] \in Vectors
    /\ build \in Builds
    /\ waiting \in Nat
    /\ up /\ waiting = 0 => doctrine.model = ModelID

Inv == Configured /\ Memo /\ Written /\ Running /\ Held

-----------------------------------------------------------------------------
(* The memo.                                                               *)

\* An answer kept leaves the queue and the map of one accord: the entry that
\* leaves is in the queue once, the one that enters was in neither.
LEMMA RememberMemo ==
    ASSUME Memo, NEW key \in Vectors, NEW vec \in Vectors, Remember(key, vec)
    PROVE  Memo'
  <1>0. MemoSize \in Nat \ {0}
    BY MemoryAssumption
  <1>1. CASE Cached(key)
    BY <1>1 DEF Remember, Memo, MemoFits
  <1>2. CASE ~Cached(key)
    <2> DEFINE full == Len(order) >= MemoSize
               front == IF full THEN Tail(order) ELSE order
               left == IF full THEN DOMAIN cache \ {Head(order)} ELSE DOMAIN cache
    <2>1. /\ order' = Append(front, key)
          /\ DOMAIN cache' = left \cup {key}
          /\ cache'[key] = vec
          /\ \A k \in left : k # key => cache'[k] = cache[k]
      BY <1>2 DEF Remember
    <2>2. /\ order \in Seq(Vectors) /\ Len(order) \in Nat /\ Len(order) <= MemoSize
          /\ DOMAIN order = 1 .. Len(order)
          /\ \A i, j \in 1 .. Len(order) : order[i] = order[j] => i = j
          /\ \A k \in DOMAIN cache : \E i \in 1 .. Len(order) : order[i] = k
          /\ \A i \in 1 .. Len(order) : order[i] \in DOMAIN cache
          /\ key \notin DOMAIN cache
      BY <1>2 DEF Memo, MemoFits, IsInjective, ToSet, Cached
    <2>3. /\ front \in Seq(Vectors)
          /\ Len(front) \in Nat /\ Len(front) < MemoSize
          /\ \A i, j \in 1 .. Len(front) : front[i] = front[j] => i = j
          /\ \A k \in left : \E i \in 1 .. Len(front) : front[i] = k
          /\ \A i \in 1 .. Len(front) : front[i] \in left
      <3>1. CASE full
        <4>1. /\ order # <<>> /\ Head(order) = order[1]
              /\ Tail(order) \in Seq(Vectors)
              /\ Len(Tail(order)) = Len(order) - 1
              /\ \A i \in 1 .. Len(order) - 1 : Tail(order)[i] = order[i + 1]
          BY <1>0, <2>2, <3>1
        <4>2. \A i \in 1 .. Len(order) - 1 : Tail(order)[i] \in left
          BY <2>2, <3>1, <4>1
        <4>3. \A i, j \in 1 .. Len(order) - 1 : Tail(order)[i] = Tail(order)[j] => i = j
          BY <2>2, <4>1
        <4>4. ASSUME NEW k \in left
              PROVE  \E i \in 1 .. Len(order) - 1 : Tail(order)[i] = k
          <5>1. PICK i \in 1 .. Len(order) : order[i] = k
            BY <2>2
          <5>2. i # 1
            BY <3>1, <4>1, <5>1
          <5>3. i - 1 \in 1 .. Len(order) - 1 /\ Tail(order)[i - 1] = k
            BY <2>2, <4>1, <5>1, <5>2
          <5> QED BY <5>3
        <4> QED BY <1>0, <2>2, <3>1, <4>1, <4>2, <4>3, <4>4
      <3>2. CASE ~full
        BY <1>0, <2>2, <3>2
      <3> QED BY <3>1, <3>2
    <2>4. left \subseteq DOMAIN cache
      OBVIOUS
    <2> HIDE DEF front, left
    <2>5. /\ order' \in Seq(Vectors) /\ Len(order') = Len(front) + 1
          /\ DOMAIN order' = 1 .. Len(front) + 1
          /\ \A i \in 1 .. Len(front) : order'[i] = front[i]
          /\ order'[Len(front) + 1] = key
      BY <2>1, <2>3
    <2>6. Len(order') <= MemoSize
      BY <1>0, <2>3, <2>5
    <2>7. \A i \in DOMAIN order' : order'[i] \in left \cup {key}
      BY <2>3, <2>5
    <2>8. \A i, j \in DOMAIN order' : order'[i] = order'[j] => i = j
      BY <2>2, <2>3, <2>4, <2>5
    <2>9. ASSUME NEW k \in left \cup {key}
          PROVE  \E i \in DOMAIN order' : order'[i] = k
      <3>1. CASE k = key
        BY <2>3, <2>5, <3>1
      <3>2. CASE k \in left
        <4>1. PICK i \in 1 .. Len(front) : front[i] = k
          BY <2>3, <3>2
        <4> QED BY <2>3, <2>5, <4>1
      <3> QED BY <3>1, <3>2
    <2>10. IsInjective(order')
      BY <2>8 DEF IsInjective
    <2>11. ToSet(order') = left \cup {key}
      BY <2>7, <2>9 DEF ToSet
    <2>12. /\ DOMAIN cache' \subseteq Vectors
           /\ \A k \in DOMAIN cache' : cache'[k] \in Vectors
      BY <2>1, <2>4 DEF Memo
    <2> QED BY <2>1, <2>5, <2>6, <2>10, <2>11, <2>12 DEF Memo, MemoFits
  <1> QED BY <1>1, <1>2

LEMMA EmptyMemo == ASSUME cache' = <<>>, order' = <<>> PROVE Memo'
  <1>1. DOMAIN cache' = {} /\ DOMAIN order' = {} /\ Len(order') = 0
    OBVIOUS
  <1>2. order' \in Seq(Vectors)
    OBVIOUS
  <1>3. IsInjective(order') /\ ToSet(order') = {}
    BY <1>1 DEF IsInjective, ToSet
  <1>4. 0 <= MemoSize
    BY MemoryAssumption
  <1> QED BY <1>1, <1>2, <1>3, <1>4 DEF Memo, MemoFits

-----------------------------------------------------------------------------
(* The settings.                                                           *)

\* What runs is accepted, so a model it names is one of the models.
LEMMA ModelKnown ==
    ASSUME Configured, up
    PROVE  ModelID \in Models
  <1>1. EmbedKey \in Keys
    BY MemoryAssumption
  <1>2. /\ host.release \in Releases
        /\ current[EmbedKey] \in Accepts[host.release][EmbedKey] \cup {Unset}
    BY <1>1 DEF Configured, Candidate
  <1> QED BY <1>2 DEF ModelID, Models

\* The second pass keeps what the first would have, key by key.
LEMMA FitsAccepted ==
    ASSUME NEW h, NEW read, Candidate(h, Defaults)
    PROVE  /\ Candidate(h, Fits(h, read))
           /\ Candidate(h, read) => Fits(h, read) = [k \in Keys |-> read[k]]
  BY DEF Candidate, Defaults, Fits, Layered

LEMMA BootConfigured ==
    ASSUME Configured, NEW h, h.release \in Releases, Boot(h)
    PROVE  Configured'
  <1> DEFINE read == Readable(h.seal)
             keep == IF Candidate(h, read) THEN read ELSE Fits(h, read)
  <1>1. /\ ~up /\ saved = None /\ up' = TRUE /\ host' = h
        /\ Candidate(h, Defaults)
        /\ plain' = keep
        /\ broken' = {k \in Keys : table[k] # NoRow /\ keep[k] = Unset}
        /\ current' = Layered(h.env, keep)
        /\ table' = table /\ saved' = saved
    BY DEF Boot, Configured
  <1>2. Candidate(h, keep)
    BY <1>1, FitsAccepted
  <1>3. ASSUME NEW k \in Keys
        PROVE  keep[k] = IF Layered(h.env, read)[k] \in Accepts[h.release][k] \cup {Unset}
                         THEN read[k] ELSE Unset
    BY DEF Candidate, Fits
  <1>4. ASSUME NEW k \in Keys
        PROVE  IF Opens(k, h.seal)
                  /\ (h.env[k] # Unset \/ table[k].value \in Accepts[h.release][k])
               THEN keep[k] = table[k].value /\ table[k].value # Unset
               ELSE keep[k] = Unset
    <2>1. read[k] = IF Opens(k, h.seal) THEN table[k].value ELSE Unset
      BY DEF Readable
    <2>2. Layered(h.env, read)[k] = IF h.env[k] # Unset THEN h.env[k] ELSE read[k]
      BY DEF Layered
    <2>3. h.env[k] # Unset => h.env[k] \in Accepts[h.release][k] \cup {Unset}
      BY <1>1 DEF Candidate, Layered
    <2>4. Opens(k, h.seal) => table[k].value # Unset
      BY DEF Opens, Configured
    <2> QED BY <1>3, <2>1, <2>2, <2>3, <2>4
  <1> HIDE DEF keep
  <1>5. Fit(plain, broken)'
    BY <1>1, <1>4 DEF Fit, Opens
  <1>6. Candidate(host, plain)'
    BY <1>1, <1>2 DEF Candidate
  <1>7. current' = Layered(host.env, plain)'
    BY <1>1 DEF Layered
  <1> QED BY <1>1, <1>5, <1>6, <1>7 DEF Configured

LEMMA UpdateConfigured ==
    ASSUME Configured, NEW changes, Update(changes)
    PROVE  Configured'
  <1>1. /\ up /\ up' = up /\ saved = None /\ DOMAIN changes # {}
        /\ Mergeable(changes) /\ Candidate(host, Merged(changes))
        /\ table' = Rows(changes)
        /\ saved' = [changes |-> DOMAIN changes, next |-> Merged(changes)]
        /\ UNCHANGED <<host, plain, broken, current>>
    BY DEF Update
  <1>2. saved' # None /\ saved'.changes = DOMAIN changes /\ saved'.next = Merged(changes)
    BY <1>1 DEF None
  <1>3. \A k \in Keys : table'[k] # NoRow => table'[k].value # Unset
    BY <1>1 DEF Rows, Configured, NoRow
  <1>4. ASSUME NEW k \in Keys
        PROVE  IF Opens(k, host.seal)'
                  /\ (host.env[k] # Unset \/ table'[k].value \in Accepts[host.release][k])
               THEN Merged(changes)[k] = table'[k].value /\ k \notin broken \ DOMAIN changes
               ELSE Merged(changes)[k] = Unset /\ (k \in broken \ DOMAIN changes <=> table'[k] # NoRow)
    <2>1. CASE k \notin DOMAIN changes
      <3>1. table'[k] = table[k] /\ Merged(changes)[k] = plain[k]
        BY <1>1, <2>1 DEF Rows, Merged
      <3>2. Opens(k, host.seal)' <=> Opens(k, host.seal)
        BY <1>1, <3>1 DEF Opens
      <3>3. Fit(plain, broken)
        BY <1>1 DEF Configured
      <3> QED BY <2>1, <3>1, <3>2, <3>3 DEF Fit
    <2>2. CASE k \in DOMAIN changes /\ changes[k] = Unset
      <3>1. table'[k] = NoRow /\ Merged(changes)[k] = Unset
        BY <1>1, <2>2 DEF Rows, Merged
      <3>2. ~Opens(k, host.seal)'
        BY <3>1 DEF Opens
      <3> QED BY <2>2, <3>1, <3>2
    <2>3. CASE k \in DOMAIN changes /\ changes[k] # Unset
      <3>1. /\ table'[k] = [value |-> changes[k], seal |-> IF k \in Secrets THEN host.seal ELSE NoSeal]
            /\ Merged(changes)[k] = changes[k]
        BY <1>1, <2>3 DEF Rows, Merged
      <3>2. host.env[k] = Unset /\ (k \in Secrets => host.seal # NoSeal)
        BY <1>1, <2>3 DEF Mergeable
      <3>3. Opens(k, host.seal)'
        BY <1>1, <2>3, <3>1, <3>2 DEF Opens, NoRow
      <3>4. changes[k] \in Accepts[host.release][k]
        BY <1>1, <2>3, <3>1, <3>2 DEF Candidate, Layered
      <3> QED BY <2>3, <3>1, <3>3, <3>4
    <2> QED BY <2>1, <2>2, <2>3
  <1>5. Fit(saved.next, broken \ saved.changes)'
    BY <1>1, <1>2, <1>4 DEF Fit
  <1>6. /\ current' = Layered(host.env, plain)'
        /\ Candidate(host, plain)' /\ Candidate(host, saved.next)'
        /\ host'.release \in Releases
    BY <1>1, <1>2 DEF Configured, Layered, Candidate
  <1> QED BY <1>1, <1>2, <1>3, <1>5, <1>6 DEF Configured

LEMMA ApplyConfigured ==
    ASSUME Configured, Apply
    PROVE  Configured'
  <1>1. /\ up /\ up' = up /\ saved # None /\ saved' = None
        /\ current' = Layered(host.env, saved.next)
        /\ plain' = saved.next /\ broken' = broken \ saved.changes
        /\ UNCHANGED <<table, host>>
    BY DEF Apply
  <1>2. Fit(plain, broken)'
    BY <1>1 DEF Configured, Fit, Opens
  <1>3. Candidate(host, plain)' /\ current' = Layered(host.env, plain)'
    BY <1>1 DEF Configured, Candidate, Layered
  <1> QED BY <1>1, <1>2, <1>3 DEF Configured

LEMMA SameConfigured ==
    ASSUME Configured, UNCHANGED settingsVars
    PROVE  Configured' /\ ModelID' = ModelID /\ up' = up
  BY DEF settingsVars, Configured, Fit, Opens, Candidate, Layered, ModelID
LEMMA CrashConfigured ==
    ASSUME Configured, Crash
    PROVE  Configured'
  BY DEF Configured, Crash

-----------------------------------------------------------------------------
(* What a step leaves alone stays as it was.                               *)

LEMMA SameMemo == ASSUME Memo, UNCHANGED <<cache, order>> PROVE Memo'
  BY DEF Memo, MemoFits

LEMMA SameWritten ==
    ASSUME Written, UNCHANGED <<memories, made, task>> PROVE Written'
  BY DEF Written

LEMMA SameRunning == ASSUME Running, UNCHANGED run PROVE Running'
  BY DEF Running

LEMMA SameHeld ==
    ASSUME Held, UNCHANGED <<roster, doctrine, kept, build>>, waiting' \in Nat,
           up' /\ waiting' = 0 => waiting = 0 /\ up /\ ModelID' = ModelID
    PROVE  Held'
  BY DEF Held

-----------------------------------------------------------------------------
(* The process and its settings.                                           *)

\* A crash puts every local state back to where a start finds it.
LEMMA DieInv ==
    ASSUME Inv, Die
    PROVE  Inv'
  <1>1. Configured'
    BY CrashConfigured DEF Inv, Die
  <1>2. Memo'
    BY EmptyMemo DEF Die
  <1>3. Written'
    BY DEF Inv, Die, Written, Tasks
  <1>4. Running'
    BY DEF Die, Running, NoRun, RunFields
  <1>5. Held'
    <2>1. /\ doctrine' = [model |-> Unset, vectors |-> <<>>]
          /\ waiting' = 0 /\ build' = NoBuild /\ ~up'
          /\ UNCHANGED <<roster, kept>>
      BY DEF Die, Crash
    <2>2. DOMAIN doctrine' = {"model", "vectors"} /\ DOMAIN doctrine'.vectors = {}
      BY <2>1
    <2>3. NoBuild \in Builds
      BY DEF NoBuild, Builds
    <2> QED BY <2>1, <2>2, <2>3 DEF Inv, Held
  <1> QED BY <1>1, <1>2, <1>3, <1>4, <1>5 DEF Inv

LEMMA SettingsInv ==
    ASSUME Inv, Start \/ Applied \/ \E changes \in ChangeSets : Change(changes)
    PROVE  Inv'
  <1>1. CASE Start
    <2>1. PICK h \in [env : Environments, seal : SealKeys \cup {NoSeal}, release : Releases] : Boot(h)
      BY <1>1 DEF Start
    <2>2. Configured'
      BY <2>1, BootConfigured DEF Inv
    <2>3. Memo' /\ Written' /\ Running'
      BY <1>1, SameMemo, SameWritten, SameRunning DEF Start, Inv
    <2>4. Held'
      BY <1>1 DEF Start, Inv, Held
    <2> QED BY <2>2, <2>3, <2>4 DEF Inv
  <1>2. CASE Applied
    <2>1. Configured'
      BY <1>2, ApplyConfigured DEF Applied, Inv
    <2>2. Memo' /\ Written' /\ Running'
      BY <1>2, SameMemo, SameWritten, SameRunning DEF Applied, Inv
    <2>3. Held'
      BY <1>2 DEF Applied, Inv, Held
    <2> QED BY <2>1, <2>2, <2>3 DEF Inv
  <1>3. CASE \E changes \in ChangeSets : Change(changes)
    <2>1. PICK changes : Update(changes) /\ UNCHANGED memoryVars
      BY <1>3 DEF Change
    <2>2. Configured'
      BY <2>1, UpdateConfigured DEF Inv
    <2>3. Memo' /\ Written' /\ Running'
      BY <2>1, SameMemo, SameWritten, SameRunning DEF memoryVars, Inv
    <2>4. ModelID' = ModelID /\ up' = up
      BY <2>1 DEF Update, ModelID
    <2>5. Held'
      BY <2>1, <2>4 DEF memoryVars, Inv, Held
    <2> QED BY <2>2, <2>3, <2>5 DEF Inv
  <1> QED BY <1>1, <1>2, <1>3

-----------------------------------------------------------------------------
(* The requests that write memories.                                       *)

LEMMA AnswerFits ==
    ASSUME Configured, up, NEW key, key.text \in Texts
    PROVE  Answer(key) \in Vectors
  BY ModelKnown DEF Answer, Vectors

LEMMA AskTask ==
    ASSUME Inv, up, NEW w \in Writers, NEW id \in 1 .. MaxRows, NEW new \in BOOLEAN,
           NEW text \in Bodies, Ask(w, id, new, text)
    PROVE  task' \in [Writers -> Tasks]
  <1>1. MemoKey(text) \in [model : Models, text : Bodies]
    BY ModelKnown DEF MemoKey, Inv
  <1>2. Cached(MemoKey(text)) => cache[MemoKey(text)] \in Vectors
    BY DEF Cached, Inv, Memo
  <1>3. PICK t \in Tasks : task' = [task EXCEPT ![w] = t]
    BY <1>1, <1>2 DEF Ask, Tasks
  <1> QED BY <1>3 DEF Inv, Written

\* A write that asks, in the frame of Ingest and of Edit.
LEMMA AskInv ==
    ASSUME Inv, up, task' \in [Writers -> Tasks], made' \in 0 .. MaxRows,
           UNCHANGED <<settingsVars, memories, cache, order, run, runs,
                       roster, doctrine, kept, waiting, build>>
    PROVE  Inv'
  <1>1. Configured' /\ ModelID' = ModelID /\ up' = up
    BY SameConfigured DEF Inv
  <1>2. Memo' /\ Running'
    BY SameMemo, SameRunning DEF Inv
  <1>3. Written'
    BY DEF Inv, Written
  <1>4. Held'
    BY <1>1, SameHeld DEF Inv, Held
  <1> QED BY <1>1, <1>2, <1>3, <1>4 DEF Inv

LEMMA WriterAsks ==
    ASSUME Inv, NEW w \in Writers,
           Ingest(w) \/ \E id \in Alive : \E v \in 1 .. 2 : Edit(w, id, <<id, v>>)
    PROVE  Inv'
  <1>0. MaxRows \in Nat /\ made \in 0 .. MaxRows
    BY MemoryAssumption DEF Inv, Written
  <1>1. CASE Ingest(w)
    <2>1. made + 1 \in 1 .. MaxRows /\ made' \in 0 .. MaxRows
      BY <1>0, <1>1 DEF Ingest
    <2>2. <<made + 1, 1>> \in Bodies
      BY <2>1 DEF Bodies
    <2>3. task' \in [Writers -> Tasks]
      BY <1>1, <2>1, <2>2, AskTask DEF Ingest
    <2> QED BY <1>1, <2>1, <2>3, AskInv DEF Ingest
  <1>2. ASSUME NEW id \in Alive, NEW v \in 1 .. 2, Edit(w, id, <<id, v>>)
        PROVE  Inv'
    <2>1. id \in 1 .. MaxRows
      BY <1>0 DEF Alive
    <2>2. <<id, v>> \in Bodies
      BY <2>1 DEF Bodies
    <2>3. task' \in [Writers -> Tasks]
      BY <1>2, <2>1, <2>2, AskTask DEF Edit
    <2> QED BY <1>0, <1>2, <2>3, AskInv DEF Edit
  <1> QED BY <1>1, <1>2

LEMMA CalledInv ==
    ASSUME Inv, NEW w \in Writers, Called(w)
    PROVE  Inv'
  <1> DEFINE t == task[w]
  <1>1. /\ up /\ t \in [at : {"call"}, id : 1 .. MaxRows, new : BOOLEAN,
                        key : [model : Models, text : Bodies]]
        /\ UNCHANGED <<settingsVars, memories, made, run, roster, doctrine, kept, waiting, build>>
        /\ task' = [task EXCEPT ![w] = [at |-> "save", id |-> t.id, new |-> t.new,
                                        text |-> t.key.text, vec |-> Answer(t.key)]]
        /\ Remember(t.key, Answer(t.key))
    BY DEF Called, Inv, Written, Tasks, Idle
  <1>2. t.key \in Vectors /\ t.key.text \in Texts /\ t.key.text \in Bodies
    BY <1>1 DEF Vectors, Texts
  <1>3. Answer(t.key) \in Vectors
    BY <1>1, <1>2, AnswerFits DEF Inv
  <1>4. Memo'
    BY <1>1, <1>2, <1>3, RememberMemo DEF Inv
  <1>5. [at |-> "save", id |-> t.id, new |-> t.new, text |-> t.key.text, vec |-> Answer(t.key)] \in Tasks
    BY <1>1, <1>2, <1>3 DEF Tasks
  <1>6. Written'
    BY <1>1, <1>5 DEF Inv, Written
  <1>7. Configured' /\ ModelID' = ModelID /\ up' = up
    BY <1>1, SameConfigured DEF Inv
  <1>8. Held' /\ Running'
    BY <1>1, <1>7, SameHeld, SameRunning DEF Inv, Held
  <1> QED BY <1>4, <1>6, <1>7, <1>8 DEF Inv

\* A row is written whole, of what the write holds, or emptied.
LEMMA WriterEnds ==
    ASSUME Inv,
           \/ \E w \in Writers : CallFails(w) \/ Save(w)
           \/ \E id \in Alive : Delete(id)
    PROVE  Inv'
  <1>1. /\ up
        /\ UNCHANGED <<settingsVars, made, edits, cache, order, run, runs,
                       roster, doctrine, kept, waiting, build>>
    BY DEF CallFails, Save, Delete
  <1>2. Configured' /\ ModelID' = ModelID /\ up' = up
    BY <1>1, SameConfigured DEF Inv
  <1>3. Memo' /\ Running' /\ Held'
    BY <1>1, <1>2, SameMemo, SameRunning, SameHeld DEF Inv, Held
  <1>4. Idle \in Tasks
    BY DEF Tasks
  <1>5. Written'
    <2>1. CASE \E w \in Writers : CallFails(w)
      BY <1>1, <1>4, <2>1 DEF CallFails, Inv, Written
    <2>2. ASSUME NEW w \in Writers, Save(w)
          PROVE  Written'
      <3>1. task[w] \in [at : {"save"}, id : 1 .. MaxRows, new : BOOLEAN,
                         text : Bodies, vec : Vectors]
        BY <2>2 DEF Save, Inv, Written, Tasks, Idle
      <3>2. ModelID \in Models
        BY <1>1, ModelKnown DEF Inv
      <3> DEFINE row == [body |-> task[w].text, vec |-> task[w].vec, label |-> ModelID]
      <3>3. /\ row \in [body : Bodies, vec : Vectors, label : Models]
            /\ \/ memories' = memories
               \/ memories' = [memories EXCEPT ![task[w].id] = row]
        BY <2>2, <3>1, <3>2 DEF Save
      <3> HIDE DEF row
      <3>4. task' \in [Writers -> Tasks]
        BY <1>4, <2>2 DEF Save, Inv, Written
      <3>5. /\ DOMAIN memories' = 1 .. MaxRows
            /\ \A i \in 1 .. MaxRows : memories'[i] = memories[i] \/ memories'[i] = row
        <4>1. DOMAIN memories = 1 .. MaxRows /\ task[w].id \in 1 .. MaxRows
          BY <3>1 DEF Inv, Written
        <4>2. CASE memories' = memories
          BY <4>1, <4>2
        <4>3. CASE memories' = [memories EXCEPT ![task[w].id] = row]
          BY <4>1, <4>3
        <4> QED BY <3>3, <4>2, <4>3
      <3> QED BY <1>1, <3>3, <3>4, <3>5 DEF Inv, Written
    <2>3. CASE \E id \in Alive : Delete(id)
      BY <1>1, <2>3 DEF Delete, Inv, Written
    <2> QED BY <2>1, <2>2, <2>3
  <1> QED BY <1>2, <1>3, <1>5 DEF Inv

-----------------------------------------------------------------------------
(* The reindex.                                                            *)

LEMMA BatchFinite ==
    ASSUME NEW S, S \subseteq 1 .. MaxRows
    PROVE  IsFiniteSet(S) /\ Cardinality(S) \in Nat
  <1>1. IsFiniteSet(1 .. MaxRows)
    BY MemoryAssumption, FS_Interval
  <1>2. IsFiniteSet(S)
    BY <1>1, FS_Subset
  <1> QED BY <1>2, FS_CardinalityType

\* A row done with, counted as done or as failed: the batch is one row shorter
\* or, at its end, the run goes on only if some row of it was rewritten.
LEMMA NextRowRuns ==
    ASSUME NEW r, DOMAIN r = RunFields, r.model \in Models,
           r.done \in Nat, r.failed \in Nat, r.size \in Nat, r.before \in Nat,
           DOMAIN r.batch \subseteq 1 .. MaxRows,
           \A j \in DOMAIN r.batch : r.batch[j] \in Bodies,
           NEW i \in DOMAIN r.batch,
           r.size - Cardinality(DOMAIN r.batch) + 1 <= (r.done - r.before) + r.failed,
           run' = NextRow(r, i)
    PROVE  Running' /\ (run'.at = "list" => run'.done > run'.before)
  <1> DEFINE n == Cardinality(DOMAIN r.batch)
  <1>0. IsFiniteSet(DOMAIN r.batch) /\ n \in Nat
    BY BatchFinite
  <1>1. CASE DOMAIN r.batch # {i}
    <2>1. PICK rest : rest = Restrict(r.batch, DOMAIN r.batch \ {i})
      OBVIOUS
    <2>2. /\ DOMAIN rest = DOMAIN r.batch \ {i}
          /\ \A j \in DOMAIN rest : rest[j] = r.batch[j]
      BY <2>1 DEF Restrict
    <2>3. PICK a : a = [r EXCEPT !.at = "row"]
      OBVIOUS
    <2>4. DOMAIN a = RunFields /\ a.at = "row" /\ \A f \in RunFields \ {"at"} : a[f] = r[f]
      BY <2>3 DEF RunFields
    <2>5. run' = [a EXCEPT !.batch = rest]
      BY <1>1, <2>1, <2>3, <2>4 DEF NextRow, RunFields
    <2>6. /\ DOMAIN run' = RunFields /\ run'.at = "row" /\ run'.batch = rest
          /\ \A f \in RunFields \ {"at", "batch"} : run'[f] = r[f]
      BY <2>4, <2>5 DEF RunFields
    <2>7. /\ run'.model = r.model /\ run'.done = r.done /\ run'.failed = r.failed
          /\ run'.size = r.size /\ run'.before = r.before
      BY <2>6 DEF RunFields
    <2>8. Cardinality(DOMAIN run'.batch) = n - 1
      BY <1>0, <2>2, <2>6, FS_RemoveElement
    <2>9. run'.size - Cardinality(DOMAIN run'.batch) <= (run'.done - run'.before) + run'.failed
      BY <1>0, <2>7, <2>8
    <2> QED BY <2>2, <2>6, <2>7, <2>9 DEF Running
  <1>2. CASE DOMAIN r.batch = {i} /\ r.failed >= r.size
    BY <1>2 DEF NextRow, Running, NoRun, RunFields
  <1>3. CASE DOMAIN r.batch = {i} /\ ~(r.failed >= r.size)
    <2>1. n = 1
      BY <1>3, FS_Singleton
    <2>2. PICK a : a = [r EXCEPT !.at = "list"]
      OBVIOUS
    <2>3. DOMAIN a = RunFields /\ a.at = "list" /\ \A f \in RunFields \ {"at"} : a[f] = r[f]
      BY <2>2 DEF RunFields
    <2>4. run' = [a EXCEPT !.batch = <<>>]
      BY <1>3, <2>2 DEF NextRow
    <2>5. /\ DOMAIN run' = RunFields /\ run'.at = "list" /\ DOMAIN run'.batch = {}
          /\ \A f \in RunFields \ {"at", "batch"} : run'[f] = r[f]
      BY <2>3, <2>4 DEF RunFields
    <2>6. /\ run'.model = r.model /\ run'.done = r.done /\ run'.failed = r.failed
          /\ run'.size = r.size /\ run'.before = r.before
      BY <2>5 DEF RunFields
    <2>7. run'.done > run'.before
      BY <1>3, <2>1, <2>6
    <2> QED BY <2>5, <2>6, <2>7 DEF Running
  <1> QED BY <1>1, <1>2, <1>3

\* A row that fails, or is written, is counted before the next one is taken.
LEMMA RowDone ==
    ASSUME Running, run.at \in {"call", "write"}, NEW i \in DOMAIN run.batch,
           \/ run' = NextRow([run EXCEPT !.failed = @ + 1, !.key = NoVector], i)
           \/ run' = NextRow([run EXCEPT !.done = @ + 1, !.key = NoVector], i)
    PROVE  Running' /\ (run'.at = "list" => run'.done > run'.before)
  <1>0. /\ DOMAIN run = RunFields /\ run.model \in Models
        /\ run.done \in Nat /\ run.failed \in Nat /\ run.size \in Nat /\ run.before \in Nat
        /\ DOMAIN run.batch \subseteq 1 .. MaxRows
        /\ \A j \in DOMAIN run.batch : run.batch[j] \in Bodies
        /\ run.size - Cardinality(DOMAIN run.batch) <= (run.done - run.before) + run.failed
        /\ Cardinality(DOMAIN run.batch) \in Nat
    BY BatchFinite DEF Running
  <1>1. CASE run' = NextRow([run EXCEPT !.failed = @ + 1, !.key = NoVector], i)
    <2>1. PICK a : a = [run EXCEPT !.failed = @ + 1]
      OBVIOUS
    <2>2. DOMAIN a = RunFields /\ a.failed = run.failed + 1 /\ \A f \in RunFields \ {"failed"} : a[f] = run[f]
      BY <1>0, <2>1 DEF RunFields
    <2>3. PICK r : r = [a EXCEPT !.key = NoVector]
      OBVIOUS
    <2>4. /\ DOMAIN r = RunFields /\ r.failed = run.failed + 1
          /\ \A f \in RunFields \ {"failed", "key"} : r[f] = run[f]
      BY <2>2, <2>3 DEF RunFields
    <2>5. /\ r.model = run.model /\ r.done = run.done /\ r.size = run.size
          /\ r.before = run.before /\ r.batch = run.batch
      BY <2>4 DEF RunFields
    <2>6. run' = NextRow(r, i)
      BY <1>1, <2>1, <2>3
    <2>7. r.size - Cardinality(DOMAIN r.batch) + 1 <= (r.done - r.before) + r.failed
      BY <1>0, <2>4, <2>5
    <2> QED BY <1>0, <2>4, <2>5, <2>6, <2>7, NextRowRuns
  <1>2. CASE run' = NextRow([run EXCEPT !.done = @ + 1, !.key = NoVector], i)
    <2>1. PICK a : a = [run EXCEPT !.done = @ + 1]
      OBVIOUS
    <2>2. DOMAIN a = RunFields /\ a.done = run.done + 1 /\ \A f \in RunFields \ {"done"} : a[f] = run[f]
      BY <1>0, <2>1 DEF RunFields
    <2>3. PICK r : r = [a EXCEPT !.key = NoVector]
      OBVIOUS
    <2>4. /\ DOMAIN r = RunFields /\ r.done = run.done + 1
          /\ \A f \in RunFields \ {"done", "key"} : r[f] = run[f]
      BY <2>2, <2>3 DEF RunFields
    <2>5. /\ r.model = run.model /\ r.failed = run.failed /\ r.size = run.size
          /\ r.before = run.before /\ r.batch = run.batch
      BY <2>4 DEF RunFields
    <2>6. run' = NextRow(r, i)
      BY <1>2, <2>1, <2>3
    <2>7. r.size - Cardinality(DOMAIN r.batch) + 1 <= (r.done - r.before) + r.failed
      BY <1>0, <2>4, <2>5
    <2> QED BY <1>0, <2>4, <2>5, <2>6, <2>7, NextRowRuns
  <1> QED BY <1>1, <1>2

\* The steps of a reindex that leave rows and memo alone.
LEMMA RunAloneInv ==
    ASSUME Inv, Running', UNCHANGED <<settingsVars, memories, made, cache, order, task,
                                      roster, doctrine, kept, waiting, build>>
    PROVE  Inv'
  <1>1. Configured' /\ ModelID' = ModelID /\ up' = up
    BY SameConfigured DEF Inv
  <1>2. Memo' /\ Written' /\ Held'
    BY <1>1, SameMemo, SameWritten, SameHeld DEF Inv, Held
  <1> QED BY <1>1, <1>2 DEF Inv

LEMMA StartReindexInv ==
    ASSUME Inv, NEW max, StartReindex(max)
    PROVE  Inv'
  <1>1. PICK a : a = [NoRun EXCEPT !.at = "list"]
    OBVIOUS
  <1>2. PICK b : b = [a EXCEPT !.model = ModelID]
    OBVIOUS
  <1>3. run' = [b EXCEPT !.max = max]
    BY <1>1, <1>2 DEF StartReindex
  <1>4. /\ DOMAIN a = RunFields /\ a.at = "list" /\ DOMAIN a.batch = {}
        /\ a.done = 0 /\ a.failed = 0 /\ a.size = 0 /\ a.before = 0
    BY <1>1 DEF NoRun, RunFields
  <1>5. /\ DOMAIN b = RunFields /\ b.at = "list" /\ b.model = ModelID /\ DOMAIN b.batch = {}
        /\ b.done = 0 /\ b.failed = 0 /\ b.size = 0 /\ b.before = 0
    BY <1>2, <1>4 DEF RunFields
  <1>6. /\ DOMAIN run' = RunFields /\ run'.at = "list" /\ run'.model = ModelID
        /\ DOMAIN run'.batch = {}
        /\ run'.done = 0 /\ run'.failed = 0 /\ run'.size = 0 /\ run'.before = 0
    BY <1>3, <1>5 DEF RunFields
  <1>7. Running'
    BY <1>6, ModelKnown DEF Running, StartReindex, Inv
  <1> QED BY <1>7, RunAloneInv DEF StartReindex

LEMMA ListBatchInv ==
    ASSUME Inv, ListBatch
    PROVE  Inv'
  <1> DEFINE batch == Oldest(Stale(run.model), Quota(run))
             texts == [i \in batch |-> memories[i].body]
  <1>0. /\ DOMAIN run = RunFields /\ run.model \in Models /\ run.at = "list"
        /\ run.done \in Nat /\ run.failed \in Nat /\ run.size \in Nat /\ run.before \in Nat
    BY DEF ListBatch, Inv, Running
  <1>1. \A i \in batch : i \in 1 .. MaxRows /\ memories[i].body \in Bodies
    BY MemoryAssumption DEF Oldest, Stale, Alive, Inv, Written
  <1>2. Cardinality(batch) \in Nat
    BY <1>1, BatchFinite
  <1>3. CASE batch = {}
    BY <1>3, RunAloneInv DEF ListBatch, Running, NoRun, RunFields
  <1>4. CASE batch # {}
    <2> HIDE DEF batch
    <2>1. DOMAIN texts = batch /\ \A i \in batch : texts[i] = memories[i].body
      OBVIOUS
    <2>2. run' = [run EXCEPT !.at = "row", !.size = Cardinality(batch), !.before = run.done,
                             !.batch = texts]
      BY <1>4 DEF ListBatch, batch
    <2> HIDE DEF texts
    <2>3. PICK a : a = [run EXCEPT !.at = "row"]
      OBVIOUS
    <2>4. PICK b : b = [a EXCEPT !.size = Cardinality(batch)]
      OBVIOUS
    <2>5. PICK c : c = [b EXCEPT !.before = run.done]
      OBVIOUS
    <2>6. run' = [c EXCEPT !.batch = texts]
      BY <2>2, <2>3, <2>4, <2>5
    <2>7. /\ DOMAIN a = RunFields /\ a.at = "row" /\ a.model = run.model
          /\ a.done = run.done /\ a.failed = run.failed
      BY <1>0, <2>3 DEF RunFields
    <2>8. /\ DOMAIN b = RunFields /\ b.at = "row" /\ b.model = run.model
          /\ b.done = run.done /\ b.failed = run.failed /\ b.size = Cardinality(batch)
      BY <2>4, <2>7 DEF RunFields
    <2>9. /\ DOMAIN c = RunFields /\ c.at = "row" /\ c.model = run.model
          /\ c.done = run.done /\ c.failed = run.failed /\ c.size = Cardinality(batch)
          /\ c.before = run.done
      BY <2>5, <2>8 DEF RunFields
    <2>10. /\ DOMAIN run' = RunFields /\ run'.at = "row" /\ run'.model = run.model
           /\ run'.done = run.done /\ run'.failed = run.failed
           /\ run'.size = Cardinality(batch) /\ run'.before = run.done /\ run'.batch = texts
      BY <2>6, <2>9 DEF RunFields
    <2>11. run'.size - Cardinality(DOMAIN run'.batch) <= (run'.done - run'.before) + run'.failed
      BY <1>0, <1>2, <2>1, <2>10
    <2>12. Running'
      BY <1>0, <1>1, <1>2, <2>1, <2>10, <2>11 DEF Running
    <2> QED BY <2>12, RunAloneInv DEF ListBatch
  <1> QED BY <1>3, <1>4

\* A row that is asked about, or answered, is still the batch's next.
LEMMA RowKeyed ==
    ASSUME Running, run.at \in {"row", "call"}, NEW at \in {"call", "write"},
           NEW key \in Vectors, run' = [run EXCEPT !.at = at, !.key = key]
    PROVE  Running'
  <1>1. PICK a : a = [run EXCEPT !.at = at]
    OBVIOUS
  <1>2. run' = [a EXCEPT !.key = key]
    BY <1>1
  <1>3. DOMAIN a = RunFields /\ a.at = at /\ \A f \in RunFields \ {"at"} : a[f] = run[f]
    BY <1>1 DEF Running, RunFields
  <1>4. /\ DOMAIN run' = RunFields /\ run'.at = at /\ run'.key = key
        /\ \A f \in RunFields \ {"at", "key"} : run'[f] = run[f]
    BY <1>2, <1>3 DEF RunFields
  <1>5. /\ run'.model = run.model /\ run'.done = run.done /\ run'.failed = run.failed
        /\ run'.size = run.size /\ run'.before = run.before /\ run'.batch = run.batch
    BY <1>4 DEF RunFields
  <1> QED BY <1>4, <1>5 DEF Running

LEMMA AskRowInv ==
    ASSUME Inv, AskRow
    PROVE  Inv'
  <1>1. PICK i \in DOMAIN run.batch :
            LET key == MemoKey(run.batch[i]) IN
            run' = IF Cached(key) THEN [run EXCEPT !.at = "write", !.key = cache[key]]
                   ELSE [run EXCEPT !.at = "call", !.key = key]
    BY DEF AskRow
  <1> DEFINE key == MemoKey(run.batch[i])
  <1>2. key \in Vectors
    BY ModelKnown DEF AskRow, Inv, Running, MemoKey, Vectors, Texts
  <1>3. Cached(key) => cache[key] \in Vectors
    BY DEF Cached, Inv, Memo
  <1>4. Running'
    <2>1. CASE Cached(key)
      <3>1. PICK v \in Vectors : v = cache[key]
        BY <1>3, <2>1
      <3>2. run' = [run EXCEPT !.at = "write", !.key = v]
        BY <1>1, <2>1, <3>1
      <3> QED BY <3>2, RowKeyed DEF AskRow, Inv
    <2>2. CASE ~Cached(key)
      <3>1. PICK v \in Vectors : v = key
        BY <1>2
      <3>2. run' = [run EXCEPT !.at = "call", !.key = v]
        BY <1>1, <2>2, <3>1
      <3> QED BY <3>2, RowKeyed DEF AskRow, Inv
    <2> QED BY <2>1, <2>2
  <1> QED BY <1>4, RunAloneInv DEF AskRow

LEMMA RowCalledInv ==
    ASSUME Inv, RowCalled
    PROVE  Inv'
  <1>1. run.key \in Vectors /\ run.key.text \in Texts
    BY DEF RowCalled, Inv, Running, Vectors
  <1>2. PICK v \in Vectors : v = Answer(run.key)
    BY <1>1, AnswerFits DEF RowCalled, Inv
  <1>3. Memo'
    BY <1>1, <1>2, RememberMemo DEF RowCalled, Inv
  <1>4. run' = [run EXCEPT !.at = "write", !.key = v]
    BY <1>2 DEF RowCalled
  <1>5. Running'
    BY <1>4, RowKeyed DEF RowCalled, Inv
  <1>6. Configured' /\ ModelID' = ModelID /\ up' = up
    BY SameConfigured DEF RowCalled, Inv
  <1>7. Written' /\ Held'
    BY <1>6, SameWritten, SameHeld DEF RowCalled, Inv, Held
  <1> QED BY <1>3, <1>5, <1>6, <1>7 DEF Inv

LEMMA RowFailsInv ==
    ASSUME Inv, RowFails
    PROVE  Inv' /\ (run'.at = "list" => run'.done > run'.before)
  <1>1. PICK i \in DOMAIN run.batch :
            run' = NextRow([run EXCEPT !.failed = @ + 1, !.key = NoVector], i)
    BY DEF RowFails
  <1>2. Running' /\ (run'.at = "list" => run'.done > run'.before)
    BY <1>1, RowDone DEF RowFails, Inv
  <1> QED BY <1>2, RunAloneInv DEF RowFails

LEMMA WriteRowInv ==
    ASSUME Inv, WriteRow
    PROVE  Inv' /\ (run'.at = "list" => run'.done > run'.before)
  <1>1. PICK i \in DOMAIN run.batch :
            /\ memories' = IF memories[i] = Gone THEN memories
                           ELSE [memories EXCEPT ![i].vec = run.key, ![i].label = run.model]
            /\ run' = NextRow([run EXCEPT !.done = @ + 1, !.key = NoVector], i)
    BY DEF WriteRow
  <1>2. Running' /\ (run'.at = "list" => run'.done > run'.before)
    BY <1>1, RowDone DEF WriteRow, Inv
  <1>3. Written'
    <2>1. /\ DOMAIN memories = 1 .. MaxRows /\ i \in 1 .. MaxRows
          /\ run.key \in Vectors /\ run.model \in Models
      BY DEF Inv, Written, Running, WriteRow
    <2>2. CASE memories[i] = Gone
      BY <1>1, <2>2, SameWritten DEF WriteRow, Inv
    <2>3. CASE memories[i] # Gone
      <3>1. memories[i] \in [body : Bodies, vec : Vectors, label : Models]
        BY <2>1, <2>3 DEF Inv, Written
      <3>2. PICK a : a = [memories[i] EXCEPT !.vec = run.key]
        OBVIOUS
      <3>3. a \in [body : Bodies, vec : Vectors, label : Models]
        BY <2>1, <3>1, <3>2
      <3>4. PICK b : b = [a EXCEPT !.label = run.model]
        OBVIOUS
      <3>5. b \in [body : Bodies, vec : Vectors, label : Models]
        BY <2>1, <3>3, <3>4
      <3>6. memories' = [memories EXCEPT ![i] = b]
        <4>1. PICK m : m = [memories EXCEPT ![i].vec = run.key]
          OBVIOUS
        <4>2. memories' = [m EXCEPT ![i].label = run.model]
          BY <1>1, <2>3, <4>1
        <4>3. DOMAIN m = 1 .. MaxRows /\ m[i] = a /\ \A j \in 1 .. MaxRows : j # i => m[j] = memories[j]
          BY <2>1, <3>2, <4>1
        <4>4. /\ memories'[i] = b /\ \A j \in 1 .. MaxRows : j # i => memories'[j] = memories[j]
              /\ memories' = [j \in 1 .. MaxRows |-> memories'[j]]
          BY <2>1, <3>4, <4>2, <4>3
        <4>5. [memories EXCEPT ![i] = b] = [j \in 1 .. MaxRows |-> IF j = i THEN b ELSE memories[j]]
          BY <2>1
        <4> QED BY <2>1, <4>4, <4>5
      <3>7. /\ DOMAIN memories' = 1 .. MaxRows
            /\ \A j \in 1 .. MaxRows : memories'[j] = IF j = i THEN b ELSE memories[j]
        BY <2>1, <3>6
      <3> QED BY <3>5, <3>7 DEF WriteRow, Inv, Written
    <2> QED BY <2>2, <2>3
  <1>4. Configured' /\ ModelID' = ModelID /\ up' = up
    BY SameConfigured DEF WriteRow, Inv
  <1>5. Memo' /\ Held'
    BY <1>4, SameMemo, SameHeld DEF WriteRow, Inv, Held
  <1> QED BY <1>2, <1>3, <1>4, <1>5 DEF Inv

-----------------------------------------------------------------------------
(* The doctrine.                                                           *)

\* What a build places keeps the doctrine a map of passages to vectors.
LEMMA PlacedHeld ==
    ASSUME Held, NEW p \in Passages, NEW vec \in Vectors, NEW saves, Placed(p, vec, saves)
    PROVE  /\ DOMAIN doctrine' = {"model", "vectors"} /\ doctrine'.model = doctrine.model
           /\ \A q \in DOMAIN doctrine'.vectors : q \in Passages /\ doctrine'.vectors[q] \in Vectors
           /\ \A q \in DOMAIN kept' : kept'[q] \in Vectors
  <1>1. PICK vs : vs = [q \in DOMAIN doctrine.vectors \cup {p} |->
                           IF q = p THEN vec ELSE doctrine.vectors[q]]
    OBVIOUS
  <1>2. \A q \in DOMAIN vs : q \in Passages /\ vs[q] \in Vectors
    BY <1>1 DEF Held
  <1>3. doctrine' = [doctrine EXCEPT !.vectors = vs]
    BY <1>1 DEF Placed
  <1>4. DOMAIN doctrine' = {"model", "vectors"} /\ doctrine'.model = doctrine.model /\ doctrine'.vectors = vs
    BY <1>3 DEF Held
  <1>5. \A q \in DOMAIN kept' : kept'[q] \in Vectors
    BY DEF Placed, Held
  <1> QED BY <1>2, <1>4, <1>5

\* The steps of a build that leave the queue of builds alone.
LEMMA BuildAloneInv ==
    ASSUME Inv, Memo', build' \in Builds,
           DOMAIN doctrine' = {"model", "vectors"}, doctrine'.model = doctrine.model,
           \A q \in DOMAIN doctrine'.vectors : q \in Passages /\ doctrine'.vectors[q] \in Vectors,
           \A q \in DOMAIN kept' : kept'[q] \in Vectors,
           UNCHANGED <<settingsVars, memories, made, task, run, roster, waiting>>
    PROVE  Inv'
  <1>1. Configured' /\ ModelID' = ModelID /\ up' = up
    BY SameConfigured DEF Inv
  <1>2. Written' /\ Running'
    BY SameWritten, SameRunning DEF Inv
  <1>3. Held'
    BY <1>1 DEF Inv, Held
  <1> QED BY <1>1, <1>2, <1>3 DEF Inv

\* A build that begins reads the model the settings name by then: whatever was
\* applied before it began, it holds the doctrine in the model of now.
LEMMA BeginBuildInv ==
    ASSUME Inv, BeginBuild
    PROVE  Inv'
  <1>1. PICK loaded \in BOOLEAN : Begun(ModelID, loaded)
    BY DEF BeginBuild
  <1>2. Configured' /\ ModelID' = ModelID /\ up' = up
    BY SameConfigured DEF BeginBuild, Inv
  <1>3. ModelID \in Models
    BY ModelKnown DEF BeginBuild, Inv
  <1>4. roster \subseteq Passages
    BY DEF Inv, Held, Passages
  <1> DEFINE have == IF doctrine.model = ModelID THEN doctrine.vectors ELSE <<>>
             load == {p \in roster : loaded /\ <<p, ModelID>> \in DOMAIN kept}
             known == DOMAIN have \cup load
             vs == [p \in known |-> IF p \in DOMAIN have THEN have[p] ELSE kept[<<p, ModelID>>]]
  <1>5. \A p \in DOMAIN have : p \in Passages /\ have[p] \in Vectors
    BY DEF Inv, Held
  <1>6. \A p \in load : p \in Passages /\ kept[<<p, ModelID>>] \in Vectors
    BY <1>4 DEF Inv, Held
  <1>7. \A p \in DOMAIN vs : p \in Passages /\ vs[p] \in Vectors
    <2> HIDE DEF have, load
    <2> QED BY <1>5, <1>6
  <1>8. /\ doctrine' = [model |-> ModelID, vectors |-> vs]
        /\ build' = [NoBuild EXCEPT !.at = "embed", !.model = ModelID, !.todo = roster \ known]
    BY <1>1 DEF Begun
  <1> HIDE DEF vs, known, have, load
  <1>9. build' \in Builds
    <2>1. PICK a : a = [NoBuild EXCEPT !.at = "embed"]
      OBVIOUS
    <2>2. a \in Builds
      BY <2>1 DEF NoBuild, Builds
    <2>3. PICK b : b = [a EXCEPT !.model = ModelID]
      OBVIOUS
    <2>4. b \in Builds
      BY <1>3, <2>2, <2>3 DEF Builds
    <2>5. build' = [b EXCEPT !.todo = roster \ known]
      BY <1>8, <2>1, <2>3
    <2> QED BY <1>4, <2>4, <2>5 DEF Builds
  <1>10. Memo' /\ Written' /\ Running'
    BY SameMemo, SameWritten, SameRunning DEF BeginBuild, Inv
  <1>11. Held'
    <2>1. /\ DOMAIN doctrine' = {"model", "vectors"} /\ doctrine'.model = ModelID
          /\ doctrine'.vectors = vs
      BY <1>8
    <2>2. waiting' \in Nat /\ UNCHANGED <<roster, kept>>
      BY DEF BeginBuild, Inv, Held
    <2> QED BY <1>2, <1>7, <1>9, <2>1, <2>2 DEF Inv, Held
  <1> QED BY <1>2, <1>10, <1>11 DEF Inv

LEMMA AskPassageInv ==
    ASSUME Inv, NEW p \in build.todo, AskPassage(p)
    PROVE  Inv'
  <1> DEFINE key == MemoKey(p)
  <1>1. build \in Builds /\ p \in Passages
    BY DEF Inv, Held, Builds
  <1>2. key \in [model : Models, text : Passages]
    BY <1>1, ModelKnown DEF AskPassage, Inv, MemoKey
  <1>3. PICK a : a = [build EXCEPT !.todo = @ \ {p}]
    OBVIOUS
  <1>4. a \in Builds /\ a.calls = build.calls
    BY <1>1, <1>3 DEF Builds
  <1>5. Memo'
    BY SameMemo DEF AskPassage, Inv
  <1>6. CASE Cached(key)
    <2>1. PICK v \in Vectors : v = cache[key]
      BY <1>6 DEF Cached, Inv, Memo
    <2>2. PICK saves \in BOOLEAN : Placed(p, v, saves)
      BY <1>6, <2>1 DEF AskPassage
    <2>3. build' = a
      BY <1>3, <1>6 DEF AskPassage
    <2> QED BY <1>1, <1>4, <1>5, <2>2, <2>3, PlacedHeld, BuildAloneInv DEF AskPassage, Inv
  <1>7. CASE ~Cached(key)
    <2>1. build' = [a EXCEPT !.calls = @ \cup {key}]
      BY <1>3, <1>7 DEF AskPassage
    <2>2. build' \in Builds
      BY <1>2, <1>4, <2>1 DEF Builds
    <2>3. UNCHANGED <<doctrine, kept>>
      BY <1>7 DEF AskPassage
    <2> QED BY <1>5, <2>2, <2>3, BuildAloneInv DEF AskPassage, Inv, Held
  <1> QED BY <1>6, <1>7

LEMMA PassageCalledInv ==
    ASSUME Inv, NEW key \in build.calls, PassageCalled(key)
    PROVE  Inv'
  <1>1. build \in Builds /\ key \in [model : Models, text : Passages]
    BY DEF Inv, Held, Builds
  <1>2. key \in Vectors /\ key.text \in Texts /\ key.text \in Passages
    BY <1>1 DEF Vectors, Texts
  <1>3. PICK v \in Vectors : v = Answer(key)
    BY <1>2, AnswerFits DEF PassageCalled, Inv
  <1>4. Memo'
    BY <1>2, <1>3, RememberMemo DEF PassageCalled, Inv
  <1>5. PICK saves \in BOOLEAN : Placed(key.text, v, saves)
    BY <1>3 DEF PassageCalled
  <1>6. build' \in Builds
    BY <1>1 DEF PassageCalled, Builds
  <1>7. PICK p \in Passages : p = key.text
    BY <1>2
  <1>8. Placed(p, v, saves)
    BY <1>5, <1>7
  <1> QED BY <1>4, <1>6, <1>8, PlacedHeld, BuildAloneInv DEF PassageCalled, Inv

LEMMA PassageEnds ==
    ASSUME Inv, (\E key \in build.calls : PassageFails(key)) \/ EndBuild
    PROVE  Inv'
  <1>1. build \in Builds
    BY DEF Inv, Held
  <1>2. Memo'
    BY SameMemo DEF PassageFails, EndBuild, Inv
  <1>3. ASSUME NEW key \in build.calls, PassageFails(key)
        PROVE  Inv'
    <2>1. PICK a : a = [build EXCEPT !.calls = @ \ {key}]
      OBVIOUS
    <2>2. a \in Builds
      BY <1>1, <2>1 DEF Builds
    <2>3. build' = [a EXCEPT !.failed = TRUE]
      BY <1>3, <2>1 DEF PassageFails
    <2>4. build' \in Builds
      BY <2>2, <2>3 DEF Builds
    <2> QED BY <1>2, <1>3, <2>4, BuildAloneInv DEF PassageFails, Inv, Held
  <1>4. CASE EndBuild
    <2>1. build' \in Builds
      BY <1>4 DEF EndBuild, NoBuild, Builds
    <2>2. \A q \in DOMAIN kept' : kept'[q] \in Vectors
      BY <1>4 DEF EndBuild, Inv, Held
    <2> QED BY <1>2, <1>4, <2>1, <2>2, BuildAloneInv DEF EndBuild, Inv, Held
  <1> QED BY <1>3, <1>4

-----------------------------------------------------------------------------
(* The whole.                                                              *)

LEMMA InitInv == Init => Inv
  <1> SUFFICES ASSUME Init PROVE Inv
    OBVIOUS
  <1>1. Configured
    BY DEF Init, SettingsInit, Configured
  <1>2. Memo
    <2>1. DOMAIN cache = {} /\ DOMAIN order = {} /\ Len(order) = 0
      BY DEF Init
    <2>2. order \in Seq(Vectors)
      <3>1. order = <<>>
        BY DEF Init
      <3> QED BY <3>1
    <2>3. IsInjective(order) /\ ToSet(order) = {}
      BY <2>1 DEF IsInjective, ToSet
    <2>4. 0 <= MemoSize
      BY MemoryAssumption
    <2> QED BY <2>1, <2>2, <2>3, <2>4 DEF Memo, MemoFits
  <1>3. Written
    BY MemoryAssumption DEF Init, Written, Tasks
  <1>4. Running
    BY DEF Init, Running, NoRun, RunFields
  <1>5. Held
    <2>1. /\ doctrine = [model |-> Unset, vectors |-> <<>>] /\ kept = <<>>
          /\ waiting = 0 /\ build = NoBuild /\ ~up /\ roster \in Rosters
      BY DEF Init, SettingsInit
    <2>2. /\ DOMAIN doctrine = {"model", "vectors"} /\ DOMAIN doctrine.vectors = {}
          /\ DOMAIN kept = {}
      BY <2>1
    <2>3. NoBuild \in Builds
      BY DEF NoBuild, Builds
    <2> QED BY <2>1, <2>2, <2>3 DEF Held
  <1> QED BY <1>1, <1>2, <1>3, <1>4, <1>5 DEF Inv

LEMMA StutterInv == Inv /\ UNCHANGED vars => Inv'
  <1> SUFFICES ASSUME Inv, UNCHANGED vars PROVE Inv'
    OBVIOUS
  <1>1. Configured' /\ ModelID' = ModelID /\ up' = up
    BY SameConfigured DEF Inv, vars
  <1>2. Memo' /\ Written' /\ Running' /\ Held'
    BY <1>1, SameMemo, SameWritten, SameRunning, SameHeld DEF Inv, Held, vars, memoryVars
  <1> QED BY <1>1, <1>2 DEF Inv

LEMMA NextInv == Inv /\ [Next]_vars => Inv'
  <1> SUFFICES ASSUME Inv, [Next]_vars PROVE Inv'
    OBVIOUS
  <1>1. CASE UNCHANGED vars
    BY <1>1, StutterInv
  <1>2. CASE Start \/ Applied \/ \E changes \in ChangeSets : Change(changes)
    BY <1>2, SettingsInv
  <1>3. CASE Die
    BY <1>3, DieInv
  <1>4. ASSUME NEW w \in Writers,
               Ingest(w) \/ \E id \in Alive : \E v \in 1 .. 2 : Edit(w, id, <<id, v>>)
        PROVE  Inv'
    BY <1>4, WriterAsks
  <1>5. ASSUME NEW w \in Writers, Called(w)
        PROVE  Inv'
    BY <1>5, CalledInv
  <1>6. CASE (\E w \in Writers : CallFails(w) \/ Save(w)) \/ \E id \in Alive : Delete(id)
    BY <1>6, WriterEnds
  <1>7. CASE \E max \in 0 .. 1 : StartReindex(max)
    BY <1>7, StartReindexInv
  <1>8. CASE ListBatch \/ AskRow \/ RowCalled \/ RowFails \/ WriteRow
    BY <1>8, ListBatchInv, AskRowInv, RowCalledInv, RowFailsInv, WriteRowInv
  <1>9. CASE BeginBuild
    BY <1>9, BeginBuildInv
  <1>10. CASE \E p \in build.todo : AskPassage(p)
    BY <1>10, AskPassageInv
  <1>11. CASE \E key \in build.calls : PassageCalled(key)
    BY <1>11, PassageCalledInv
  <1>12. CASE (\E key \in build.calls : PassageFails(key)) \/ EndBuild
    BY <1>12, PassageEnds
  <1> QED
    BY <1>1, <1>2, <1>3, <1>4, <1>5, <1>6, <1>7, <1>8, <1>9, <1>10, <1>11, <1>12 DEF Next

\* The rows, the memo and the doctrine hold what they are meant to hold,
\* through every change of model, crash and restart.
THEOREM MemoryTypeOK == Spec => []TypeOK
  <1>1. Inv => TypeOK
    <2> SUFFICES ASSUME Inv PROVE TypeOK
      OBVIOUS
    <2>1. \A i \in Alive : i \in 1 .. MaxRows /\ memories[i] # Gone
      BY MemoryAssumption DEF Alive, Inv, Written
    <2> QED BY <2>1 DEF Inv, Written, Memo, Held, TypeOK
  <1> QED BY <1>1, InitInv, NextInv, PTL DEF Spec

\* Between updates the room runs on the stored values it can use and names
\* the others (settings/usecase/service.go, Load and Update): whatever the
\* catalogue, the releases and what each of them accepts.
THEOREM StoredRuns == Spec => []RunsWhatIsStored
  <1>1. Inv => RunsWhatIsStored
    BY DEF Inv, Configured, Fit, RunsWhatIsStored
  <1> QED BY <1>1, InitInv, NextInv, PTL DEF Spec

\* The memo never outgrows its size and its queue lists each entry once
\* (memory/usecase/memo_embedder.go): however many calls miss on one text at
\* a time, and whatever model each is answered with.
THEOREM MemoStaysFit == Spec => []MemoFits
  <1>1. Inv => MemoFits
    BY DEF Inv, Memo
  <1> QED BY <1>1, InitInv, NextInv, PTL DEF Spec

\* With every build started ended, the doctrine is held in the model the
\* settings name (memory/usecase/doctrine.go): for any number of changes
\* applied while builds wait or run.
THEOREM DoctrineCatchesUp == Spec => []BuildsCatchUp
  <1>1. Inv => BuildsCatchUp
    BY DEF Inv, Held, BuildsCatchUp
  <1> QED BY <1>1, InitInv, NextInv, PTL DEF Spec

\* A reindex that goes round again has rewritten a row in the batch it ended
\* (memory/usecase/reindex.go), for every size of batch and quota.
THEOREM ReindexProgresses == Spec => RoundsProgress
  <1> DEFINE Progress == run.at \in {"call", "write"} /\ run'.at = "list" => run'.done > run'.before
  <1>1. Inv /\ [Next]_vars => Progress
    <2> SUFFICES ASSUME Inv, [Next]_vars PROVE Progress
      OBVIOUS
    <2>1. CASE RowFails \/ WriteRow
      BY <2>1, RowFailsInv, WriteRowInv
    <2>2. CASE ListBatch \/ AskRow \/ \E max \in 0 .. 1 : StartReindex(max)
      <3>1. ListBatch => run.at = "list"
        BY DEF ListBatch
      <3>2. AskRow => run.at = "row"
        BY DEF AskRow
      <3>3. (\E max \in 0 .. 1 : StartReindex(max)) => run.at = "idle"
        BY DEF StartReindex, NoRun
      <3> QED BY <2>2, <3>1, <3>2, <3>3
    <2>3. CASE RowCalled
      <3>1. DOMAIN run = RunFields
        BY DEF Inv, Running
      <3>2. PICK a : a = [run EXCEPT !.at = "write"]
        OBVIOUS
      <3>3. DOMAIN a = RunFields /\ a.at = "write"
        BY <3>1, <3>2 DEF RunFields
      <3>4. run' = [a EXCEPT !.key = Answer(run.key)]
        BY <2>3, <3>2 DEF RowCalled
      <3>5. run'.at = "write"
        BY <3>3, <3>4 DEF RunFields
      <3> QED BY <3>5
    <2>4. CASE Die
      BY <2>4 DEF Die, NoRun
    <2>5. CASE run' = run
      BY <2>5
    <2>6. \/ RowFails \/ WriteRow \/ ListBatch \/ AskRow \/ RowCalled \/ Die
          \/ \E max \in 0 .. 1 : StartReindex(max)
          \/ run' = run
      BY DEF Next, vars, memoryVars, Start, Applied, Change, Ingest, Called, CallFails, Save,
             Edit, Delete, BeginBuild, EndBuild, AskPassage, PassageCalled, PassageFails
    <2> QED BY <2>1, <2>2, <2>3, <2>4, <2>5, <2>6
  <1> QED BY <1>1, InitInv, NextInv, PTL DEF Spec, RoundsProgress

=============================================================================
