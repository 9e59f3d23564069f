-------------------------- MODULE ServerLifecycle --------------------------
(***************************************************************************)
(* The likhadb-server process: requests over REST and gRPC against one     *)
(* WalManager behind an RwLock, the periodic checkpoint task, and the life *)
(* of the process (startup, serving, SIGTERM, draining both servers, final *)
(* checkpoint, exit, crash).                                               *)
(*                                                                         *)
(* A handler takes the write guard, runs all its WalManager calls and      *)
(* drops it, with no await in between; a crash or an I/O error may still   *)
(* fall between two of those calls.  Exports hold a read guard while they  *)
(* write their file, so two of them may run at once.                       *)
(*                                                                         *)
(* Abstractions.  The WAL keeps WalStore's promise: an append is whole or  *)
(* failed, a checkpoint is atomic.  `log` holds the operations since the   *)
(* last checkpoint.  Metrics, tracing, the concurrency limit and the       *)
(* Iceberg background tasks are left out; enriched queries are in          *)
(* QueryPipeline, here they are a wait for somebody else.                  *)
(***************************************************************************)
EXTENDS ParquetIo

CONSTANTS
    Clients,
    RequestSet,            \* what clients may ask: records of the kind, the server
                           \* (via), a good token (auth), arguments that parse
                           \* (valid), and the arguments
    Paths,                 \* Parquet files under LIKHADB_PARQUET_ROOT
    SeedFiles,             \* what is in them at first
    SeedStore,             \* the snapshot an earlier life left
    CheckpointEveryEntries,\* WalConfig threshold, 0 = disabled
    Nobody,                \* no writer holds the lock
    NoFile,                \* nothing at that path
    NoRequest,             \* nothing asked
    MaxRequests,           \* bound: requests sent
    MaxLives,              \* bound: starts of the process
    MaxFaults              \* bound: appends and checkpoints that return an error

\* Requests carry the arguments of their kind; an id is a u64.
ASSUME RequestAssumption ==
    /\ Nobody \notin Clients /\ IsFiniteSet(Ids) /\ Collections # {}
    /\ \A r \in RequestSet :
          /\ r.via \in {"rest", "grpc"} /\ r.c \in Collections
          /\ r.kind = "create" =>
                r.fts \in BOOLEAN /\ r.binding \in Bindings \cup {NoBinding}
          /\ r.kind \in {"drop", "insert", "delete"} =>
                r.op \in AllOps /\ r.op.kind = r.kind /\ r.op.c = r.c

Rows == [Ids -> Row \cup {NoRow}]

\* The rows of a file whose columns fit are inserts, whichever of its columns
\* make the payload.
Importable(file) ==
    file.parses /\ file.fits =>
        \A c \in Collections, cols \in SUBSET file.cols :
            ImportOps(c, file, cols) \in Seq({op \in InsertOps : op.vec # BadVec})

\* A file at a path, with the collections being exported to it and, once that
\* is done, the rows it was written from (history).
AtPath(x) ==
    /\ x.by \subseteq Collections /\ Importable(x.file)
    /\ x.of = NoFile \/ (x.of \in Rows /\ x.file = ExportFile(x.of))

ASSUME SeedAssumption ==
    /\ SeedStore \in Store
    /\ SeedFiles = [p \in Paths |-> SeedFiles[p]]
    /\ \A p \in Paths : SeedFiles[p] = NoFile \/ AtPath(SeedFiles[p])

VARIABLES
    proc,        \* where the process is
    store,       \* the CollectionManager in memory
    log, snap,   \* wal.log since the checkpoint, snapshot.bin
    holder,      \* who holds the write guard
    pc, req,     \* per client: the handler's state, the request
    reply,       \* the last answer of this life
    todo,        \* per client: WalManager calls the handler has still to make
    files,       \* the Parquet files
    stop,        \* how this life of the process ends
    sent, lives, faults,   \* what the bounds count
    wrote,       \* history: requests under way that changed the store
    asked,       \* history: the options each collection was created with
    partial,     \* history: collections whose DDL did not complete
    uncertain    \* history: memory and log may disagree since a failed call

counts == <<sent, lives, faults>>
durable == <<log, snap>>
ghost == <<asked, partial, uncertain>>
vars == <<proc, store, durable, holder, pc, req, reply, todo, files, stop,
          counts, wrote, ghost>>

Answers == {"ok", "bad_request", "unauthorized", "forbidden", "not_found",
            "conflict", "internal"}
ClientErrors == Answers \ {"ok", "internal"}
Up == proc # "down"

Free == holder = Nobody /\ \A c \in Clients : pc[c] # "export"

\* An append or a checkpoint returns an error.
Fault == faults < MaxFaults /\ faults' = faults + 1

\* replay_wal: the operations one after the other.
Replayed(s, ops) ==
    LET after[k \in 0 .. Len(ops)] ==
            IF k = 0 THEN s ELSE ReplayOp(after[k - 1], ops[k])
    IN  after[Len(ops)]

\* What opening the directory would bring back.
Recovered == Replayed(snap, log)

Init ==
    /\ proc = "down" /\ store = EmptyStore
    /\ log = <<>> /\ snap = SeedStore
    /\ holder = Nobody /\ todo = [c \in Clients |-> <<>>]
    /\ pc = [c \in Clients |-> "idle"]
    /\ req = [c \in Clients |-> NoRequest]
    /\ files = SeedFiles
    /\ stop = "none" /\ reply = "ok" /\ sent = 0 /\ lives = 0 /\ faults = 0
    /\ wrote = {} /\ partial = {} /\ uncertain = FALSE
    /\ asked = [c \in Collections |->
                   IF SeedStore[c] = Absent THEN <<FALSE, NoBinding>>
                   ELSE <<SeedStore[c].fts, SeedStore[c].binding>>]

----------------------------------------------------------------------------
(* Before the lock *)

Submit(c, r) ==
    /\ proc = "serving" /\ pc[c] = "idle" /\ sent < MaxRequests
    /\ sent' = sent + 1
    /\ req' = [req EXCEPT ![c] = r]
    /\ pc' = [pc EXCEPT ![c] = "sent"]
    /\ UNCHANGED <<proc, store, durable, holder, reply, todo, files, stop,
                   lives, faults, wrote, ghost>>

\* A handler goes on, or answers.
Goto(c, l) == pc' = [pc EXCEPT ![c] = l] /\ UNCHANGED <<req, reply, wrote>>
Answer(c, a) == /\ pc' = [pc EXCEPT ![c] = "idle"] /\ reply' = a
                /\ req' = [req EXCEPT ![c] = NoRequest]
                /\ wrote' = wrote \ {c}

\* require_bearer (all routes but /health) and grpc_interceptor (all methods).
Authorized(r) == r.auth \/ (r.kind = "health" /\ r.via = "rest")

\* resolve_under_root: an import needs the file.
PathAllowed(r) ==
    r.kind \in {"import", "export"} =>
        /\ r.path \in Paths
        /\ r.kind = "import" => files[r.path] # NoFile

\* What the layers and the first lines of the handlers say.
Vetted(r) ==
    IF ~Authorized(r) THEN "unauthorized"
    ELSE IF ~r.valid THEN "bad_request"   \* parse_metric, validate_k, JSON
    ELSE IF ~PathAllowed(r) THEN "forbidden"
    ELSE "ok"

Admit(c) ==
    /\ pc[c] = "sent"
    /\ IF Vetted(req[c]) # "ok" \/ req[c].kind = "health"
       THEN Answer(c, Vetted(req[c])) ELSE Goto(c, "lock")
    /\ UNCHANGED <<proc, store, durable, holder, todo, files, stop, counts,
                   ghost>>

----------------------------------------------------------------------------
(* Reads *)

\* get_collection, get_vector, list_collections, and the search of a query; an
\* enriched query or a result stream then waits for somebody else.
ReadStep(c) ==
    /\ pc[c] = "lock" /\ req[c].kind \in {"get", "query"} /\ holder = Nobody
    /\ IF store[req[c].c] = Absent THEN Answer(c, "not_found")
       ELSE IF req[c].kind = "query" THEN Goto(c, "waiting") ELSE Answer(c, "ok")
    /\ UNCHANGED <<proc, store, durable, holder, todo, files, stop, counts,
                   ghost>>

\* The model service, or the client reading the stream, may never do this.
Respond(c) ==
    /\ pc[c] = "waiting"
    /\ Answer(c, "ok")
    /\ UNCHANGED <<proc, store, durable, holder, todo, files, stop, counts,
                   ghost>>

Exporting(p) == {c \in Clients : pc[c] = "export" /\ req[c].path = p}

\* A finished file, with the rows it was written from (history).
Exported(rows) == [by |-> {}, file |-> ExportFile(rows), of |-> rows]
Ruined == [by |-> {}, file |-> Broken, of |-> NoFile]

\* export_parquet: File::create empties the file, also under another export.
BeginExport(c) ==
    /\ pc[c] = "lock" /\ req[c].kind = "export" /\ holder = Nobody
    /\ LET p == req[c].path
           others == {req[d].c : d \in Exporting(p)}
       IN  IF store[req[c].c] = Absent
           THEN Answer(c, "not_found") /\ UNCHANGED files
           ELSE /\ Goto(c, "export")
                /\ files' = [files EXCEPT ![p] =
                       [Ruined EXCEPT !.by = {req[c].c} \cup
                           IF others = {} THEN {} ELSE files[p].by]]
    /\ UNCHANGED <<proc, store, durable, holder, todo, stop, counts, ghost>>

\* The last writer of the path is done.  Exports of one collection write the
\* same bytes; those of several leave one of them or a mixture.
EndExport(c) ==
    /\ pc[c] = "export"
    /\ LET p == req[c].path
           by == files[p].by
       IN  IF Exporting(p) # {c} THEN UNCHANGED files
           ELSE \E f \in {Exported(store[d].rows) : d \in by}
                         \cup IF Cardinality(by) > 1 THEN {Ruined} ELSE {} :
                    files' = [files EXCEPT ![p] = f]
    /\ Answer(c, "ok")
    /\ UNCHANGED <<proc, store, durable, holder, todo, stop, counts, ghost>>

----------------------------------------------------------------------------
(* Writes *)

Op(kind, c) == [kind |-> kind, c |-> c]

\* The options a collection is created with; gRPC has no source binding.
Options(r) == <<r.fts, IF r.via = "rest" THEN r.binding ELSE NoBinding>>

\* The WalManager calls of a handler.
Calls(r) ==
    CASE r.kind = "create" ->
            <<Op("create", r.c)>>
              \o (IF r.fts THEN <<Op("enable_fts", r.c)>> ELSE <<>>)
              \o (IF Options(r)[2] # NoBinding
                  THEN <<[kind |-> "bind", c |-> r.c, binding |-> r.binding]>>
                  ELSE <<>>)
      [] r.kind = "import" -> ImportOps(r.c, files[r.path].file, r.cols)
      [] OTHER -> <<r.op>>

\* Mutant: the guard does not exclude anybody.
AcquireShared(c) ==
    /\ pc[c] = "lock"
    /\ req[c].kind \in {"create", "drop", "insert", "delete"}
    /\ Goto(c, "write")
    /\ holder' = c /\ todo' = [todo EXCEPT ![c] = Calls(req[c])]
    /\ UNCHANGED <<proc, store, durable, files, stop, counts, ghost>>

\* The write guard.  An import looks at the collection and the file first.
Acquire(c) ==
    /\ pc[c] = "lock" /\ Free
    /\ req[c].kind \in {"create", "drop", "insert", "delete", "import"}
    /\ LET found == IF req[c].kind = "import"
                    THEN ImportCheck(store[req[c].c], files[req[c].path].file,
                                     req[c].cols)
                    ELSE "ok"
       IN  IF found # "ok" \/ Calls(req[c]) = <<>>
           THEN Answer(c, found) /\ UNCHANGED <<holder, todo>>
           ELSE /\ Goto(c, "write")
                /\ holder' = c /\ todo' = [todo EXCEPT ![c] = Calls(req[c])]
    /\ UNCHANGED <<proc, store, durable, files, stop, counts, ghost>>

\* The guard is dropped and the handler answers.
Release(c, answer) ==
    /\ holder' = Nobody /\ todo' = [todo EXCEPT ![c] = <<>>]
    /\ Answer(c, answer)

\* The next call of the handler, or the answer.
Advance(c) ==
    IF Len(todo[c]) = 1 THEN Release(c, "ok")
    ELSE /\ todo' = [todo EXCEPT ![c] = Tail(@)]
         /\ wrote' = wrote \cup {c}
         /\ UNCHANGED <<holder, pc, req, reply>>

\* Mutant: errors of the log are client errors, too.
StatusOfIoBad(r) == "bad_request"

\* ApiError and Status of an error that is not the manager's: import turns
\* every error of an insert into a schema error.
StatusOfIo(r) == IF r.kind = "import" THEN "bad_request" ELSE "internal"

\* From<LikhaDbError> and core_err, for what Accepts refuses.
StatusOf(s, op) ==
    IF op.kind = "create" THEN "conflict"
    ELSE IF s[op.c] = Absent THEN "not_found" ELSE "bad_request"

\* Mutant: imported rows go straight to the manager (CollectionManager's
\* import, not WalManager's).
LogEntryNotImports(r, op) == IF r.kind = "import" THEN log ELSE Append(log, op)

\* WalManager logs the rows of an import like any insert.
LogEntry(r, op) == Append(log, op)

\* History: a collection that is dropped or created anew starts afresh.
Settled(op) == IF op.kind \in {"create", "drop"} THEN partial \ {op.c} ELSE partial

Asked(r, op) == IF op.kind = "create" THEN Options(r)
                ELSE IF op.kind = "drop" THEN <<FALSE, NoBinding>> ELSE asked[op.c]

CheckpointDue ==
    CheckpointEveryEntries > 0 /\ Len(log) + 1 >= CheckpointEveryEntries

\* log_and_apply of a call the manager accepts; maybe_checkpoint may fail,
\* and then the handler gives up although the call is done.
Write(c) ==
    /\ pc[c] = "write" /\ Accepts(store, todo[c][1])
    /\ LET op == todo[c][1]
       IN  /\ store' = ApplyLive(store, op)
           /\ asked' = [asked EXCEPT ![op.c] = Asked(req[c], op)]
           /\ \/ /\ ~CheckpointDue
                 /\ log' = LogEntry(req[c], op)
                 /\ Advance(c)
                 /\ partial' = Settled(op)
                 /\ UNCHANGED <<snap, uncertain, faults>>
              \/ /\ CheckpointDue
                 /\ snap' = store' /\ log' = <<>>
                 /\ Advance(c)
                 /\ partial' = Settled(op)
                 /\ uncertain' = FALSE /\ UNCHANGED faults
              \/ /\ CheckpointDue /\ Fault
                 /\ log' = LogEntry(req[c], op)
                 /\ Release(c, StatusOfIo(req[c]))
                 /\ partial' = partial \cup {op.c}
                 /\ UNCHANGED <<snap, uncertain>>
    /\ UNCHANGED <<proc, files, stop, sent, lives>>

\* ... of one it refuses: the entry is in the log all the same.
Refuse(c) ==
    /\ pc[c] = "write" /\ ~Accepts(store, todo[c][1])
    /\ log' = LogEntry(req[c], todo[c][1])
    /\ Release(c, StatusOf(store, todo[c][1]))
    /\ UNCHANGED <<proc, store, snap, files, stop, counts, ghost>>

\* The append fails, with or without the entry in the file, or the FTS index
\* cannot be opened once the entry is in it.
WriteFails(c) ==
    /\ pc[c] = "write" /\ Fault
    /\ log' \in {log, LogEntry(req[c], todo[c][1])}
    /\ Release(c, StatusOfIo(req[c]))
    /\ uncertain' = TRUE /\ partial' = partial \cup {req[c].c}
    /\ UNCHANGED <<proc, store, snap, files, stop, sent, lives, asked>>

----------------------------------------------------------------------------
(* The process *)

\* main up to the listeners.
Open ==
    /\ proc = "down" /\ lives < MaxLives /\ lives' = lives + 1
    /\ proc' = "serving" /\ store' = Recovered
    /\ stop' = "none" /\ reply' = "ok"
    /\ uncertain' = FALSE
    /\ UNCHANGED <<durable, holder, pc, req, todo, files, sent, faults, wrote,
                   asked, partial>>

\* WalManager::checkpoint under the write guard; it settles what failed
\* appends left open.
CheckpointNow == /\ Free
                 /\ snap' = store /\ log' = <<>> /\ uncertain' = FALSE

\* spawn_checkpoint_task; a failure is logged and changes nothing.
PeriodicCheckpoint ==
    /\ proc = "serving" /\ CheckpointNow
    /\ UNCHANGED <<proc, store, holder, pc, req, reply, todo, files, stop,
                   counts, wrote, asked, partial>>

\* SIGTERM: the checkpoint task is aborted, both servers stop accepting.
Sigterm ==
    /\ proc = "serving"
    /\ proc' = "drain_grpc" /\ stop' = "clean"
    /\ UNCHANGED <<store, durable, holder, pc, req, reply, todo, files,
                   counts, wrote, ghost>>

InFlight(via) == {c \in Clients : pc[c] # "idle" /\ req[c].via = via}

\* Mutant: the REST server is not waited for.
DrainedGrpcOnly(via) == via = "grpc" => InFlight(via) = {}

\* A server task ends once its requests are done ...
Drained(via) == InFlight(via) = {}

\* Mutant: only REST is given 30 s.
DrainTimesOutRest(via) == via = "rest" /\ InFlight(via) # {}

\* ... or main stops waiting after 30 s; its handlers go on.
DrainTimesOut(via) == InFlight(via) # {}

Drain ==
    \E via \in {"grpc", "rest"} :
        /\ proc = IF via = "grpc" THEN "drain_grpc" ELSE "drain_rest"
        /\ proc' = IF via = "grpc" THEN "drain_rest" ELSE "final"
        /\ \/ Drained(via) /\ UNCHANGED stop
           \/ DrainTimesOut(via) /\ stop' = "cut"
        /\ UNCHANGED <<store, durable, holder, pc, req, reply, todo, files,
                   counts, wrote, ghost>>

FinalCheckpoint ==
    /\ proc = "final"
    /\ proc' = "exiting"
    /\ \/ CheckpointNow /\ UNCHANGED <<stop, faults>>
       \/ /\ Free /\ Fault /\ stop' = "failed"
          /\ UNCHANGED <<durable, uncertain>>
    /\ UNCHANGED <<store, holder, pc, req, reply, todo, files, sent, lives,
                   wrote, asked, partial>>

Halt == /\ proc' = "down" /\ store' = EmptyStore /\ holder' = Nobody
        /\ pc' = [c \in Clients |-> "idle"]
        /\ req' = [c \in Clients |-> NoRequest] /\ wrote' = {}
        /\ todo' = [c \in Clients |-> <<>>]

\* main returns: the runtime drops every task at its next await, so a handler
\* that has a guard still finishes.
Exit ==
    /\ proc = "exiting" /\ Free
    /\ Halt
    /\ UNCHANGED <<durable, reply, files, stop, counts, ghost>>

\* The process is killed, or a server task ends by itself and main exits with
\* status 1: nothing is finished.
Crash ==
    /\ Up /\ stop' = "crash"
    /\ Halt
    /\ partial' = partial \cup
          {req[c].c : c \in {d \in Clients : /\ pc[d] = "write"
                                            /\ req[d].kind = "create"
                                            /\ todo[d][1].kind # "create"}}
    /\ files' = [p \in Paths |-> IF Exporting(p) = {} THEN files[p] ELSE Ruined]
    /\ UNCHANGED <<durable, reply, counts, asked, uncertain>>

----------------------------------------------------------------------------
Guarded == \E c \in Clients :
               Write(c) \/ Refuse(c) \/ WriteFails(c) \/ EndExport(c)
Main == Drain \/ FinalCheckpoint \/ Exit

Next ==
    \/ \E c \in Clients, r \in RequestSet : Submit(c, r)
    \/ \E c \in Clients : \/ Admit(c) \/ ReadStep(c) \/ Respond(c)
                           \/ BeginExport(c) \/ Acquire(c)
    \/ Guarded
    \/ Open \/ PeriodicCheckpoint \/ Sigterm \/ Main \/ Crash

Spec == Init /\ [][Next]_vars

\* Handlers do not stop inside a guard, and main runs on (its waits have
\* timeouts, the lock is first come first served).
Fairness == WF_vars(Guarded) /\ WF_vars(Main)

FairSpec == Spec /\ Fairness

----------------------------------------------------------------------------
(* Properties *)

\* Handlers only make calls WalManager has, answers are statuses, and a file at
\* a path is readable, being written or known bad, wherever an export, an
\* import, a shutdown or a crash is.
TypeOK ==
    /\ proc \in {"down", "serving", "drain_grpc", "drain_rest", "final", "exiting"}
    /\ store \in Store /\ snap \in Store /\ log \in Seq(AllOps)
    /\ holder \in Clients \cup {Nobody}
    /\ pc \in [Clients -> {"idle", "sent", "lock", "waiting", "export", "write"}]
    /\ req \in [Clients -> RequestSet \cup {NoRequest}]
    /\ reply \in Answers /\ todo \in [Clients -> Seq(AllOps)]
    /\ files = [p \in Paths |-> files[p]]
    /\ \A p \in Paths : files[p] = NoFile \/ AtPath(files[p])
    /\ stop \in {"none", "clean", "cut", "failed", "crash"}
    /\ sent \in Nat /\ lives \in Nat /\ faults \in Nat
    /\ wrote \subseteq Clients /\ partial \subseteq Collections
    /\ uncertain \in BOOLEAN
    /\ asked \in [Collections -> BOOLEAN \X (Bindings \cup {NoBinding})]

\* Between two guards the log and the snapshot hold exactly what clients see:
\* a restart brings the same store back, refused calls and partly done
\* requests and imports included, unless a failed append left it open.
RestartSame == Up /\ holder = Nobody /\ ~uncertain => Recovered = store

\* A collection has the options its creating request asked for, however
\* creates, drops, crashes and restarts interleave, unless a call of a request
\* on it failed or the process died inside its create.
CreatorsOptions ==
    Up /\ holder = Nobody =>
        \A c \in Collections \ partial : store[c] # Absent =>
            <<store[c].fts, store[c].binding>> = asked[c]

\* A request answered with a client error has changed nothing, neither the
\* store nor what a restart would bring back.  An import is excepted: rows
\* before the error stay.
ClientErrorsHarmless ==
    [][\A c \in Clients :
          pc[c] # "idle" /\ pc'[c] = "idle" /\ Up' /\ reply' \in ClientErrors =>
              \/ req[c].kind = "import"
              \/ /\ c \notin wrote /\ store' = store
                 /\ ~uncertain => Recovered' = Recovered]_vars

\* "Write snapshot and truncate WAL so the next startup has nothing to replay":
\* after a shutdown in which both servers drained in time and the final
\* checkpoint succeeded, the log is empty.
CleanStop == proc = "down" /\ stop = "clean" => log = <<>>

\* Export and import lose nothing: an exported file, imported into an empty
\* collection with its payload column, gives the rows it was written from; row
\* by row or in batches is the same for every file an import takes; importing
\* it again after a partial import of it ends where one import ends.
ImportFaithful ==
    \A p \in {q \in Paths : files[q] # NoFile} :
      ImportCheck(NewCollection, files[p].file, {"payload"}) = "ok" =>
        LET any == CHOOSE c \in Collections : TRUE
            ops == ImportOps(any, files[p].file, {"payload"})
            All(rows) == ImportRows(rows, ops, Len(ops))
            empty == NewCollection.rows
            old == files[p].of
        IN  /\ old # NoFile =>
                  /\ All(empty) = old
                  /\ ImportFromStore(empty, ExportBytes(old), any, {"payload"}) = old
            /\ \A c \in {d \in Collections : store[d] # Absent} :
                  LET rows == store[c].rows
                  IN  /\ ImportBatches(rows, ops) = All(rows)
                      /\ \A n \in DOMAIN ops :
                            All(ImportRows(rows, ops, n)) = All(rows)

\* A shutdown ends, also with a request in flight that is never answered.
ShutdownCompletes == proc = "drain_grpc" ~> proc = "down"
=============================================================================
