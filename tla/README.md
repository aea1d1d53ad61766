# A TLA+ model of scry3

scry3 turns a Kythe `kzip` (compilation units, CUs, with their inputs) into a
Kythe serving table and answers code-navigation queries from it. The indexers,
`write_entries`, `write_tables`, `entrystream`, `kythe` and `http_server` are
stock Kythe tools that scry3 runs as processes; what scry3 adds is their
orchestration, a name index, and a query front end. This directory holds the
TLA+ modules for that orchestration, the TLC runs that check them on small
instances, and the theorems about them that TLAPS checks for every value of
the constants.

Source paths below are relative to `src/crates/scry3/src/`.

## 1. The system

| component | source | state | operations |
|---|---|---|---|
| `index-stream` pipeline | `stream.rs` | GraphStore, `<gs>.done`, staging directory; channel, batch, per-worker position | start/resume, index a CU, scan names, send, receive, fold, log, write tables, write names, clean up |
| name sink | `stream.rs` (`NameSink`) | set of rows, `BufWriter`, `<gs>.names` | preload, add, drop, remove |
| batch indexer (`index`) | `indexer.rs` | `<sha>.entries`, `<sha>.entries.tmp`, summary counters | plan with resume, index a CU, rename, summary |
| table builder (`build`) | `build.rs` | work directory (sorted file or GraphStore), serving table | three modes, each a feed and a `write_tables` |
| name index | `nameindex.rs` | sorted rows in memory, `scry3.names.idx` | scan, build, write, load, exact, substring, reverse lookup |
| kzip reader and writer | `kzip.rs` | none between calls | full and filtered read, sub-kzip extraction, normalisation, proto codec |
| tickets, marked source | `ticket.rs`, `marked_source.rs` | none | escaping, path cleaning, base64, rendering, JVM names |
| queries | `query.rs` | none between calls | resolve, def/ref/callers, super/sub, call graph, repl |
| HTTP client | `http.rs` | one kept-alive connection | post with one retry |
| warm backend | `query.rs` | a child process and its port | autostart, kill on drop, serve |
| command line | `main.rs` | none | parsing and dispatch |

How they interact:

    kzip --> index ----> <sha>.entries ----> build ------> serving table --> queries
         \-> index-stream (GraphStore, done log, names) -/      |              |
                         \--> scry3.names.idx -----------------/---> resolve --/
                                                   http_server <--- HttpClient

`index` and `index-stream` are multi-threaded (scoped threads sharing a plan by
stride); everything else is sequential. `index-stream` adds a bounded channel
and a folder thread. Between processes, state passes only through files, and
all of those outlive a kill. What is hard in this code, and what makes each
part correct:

* **Resume.** `index-stream --resume` skips what its done log names, `index
  --resume` what has a non-empty `.entries` file. Whatever was killed or failed
  in the middle of whatever step, what is skipped must be complete.
* **Deletion.** The pipeline deletes an entry file after its fold. A published
  table must still have every CU, and the name index every name.
* **Threads.** No CU may be indexed twice or forgotten; the pipeline may not
  hang when one side of the channel dies; disk use must stay bounded.
* **Partial failure.** Almost every call may fail, several failures are
  deliberately ignored (`let _ =`), and the summary has to say what happened.
* **Keep-alive.** An answer must belong to its question, also when the server
  closes or dies between any two bytes.

`PROJECT.json` lists each hazard at its line, with the properties that cover it.

## 2. The modules

| module | models | variables and actions |
|---|---|---|
| `StridePlan` | `i += workers` over a plan (`stream.rs`, `indexer.rs`) | none: the strides and the next position of a worker |
| `NameSink` | `NameSink` of `stream.rs` | the set, the `BufWriter`, the `.names` file with a torn last line; each operation with and without an error, which the code drops |
| `IndexStream` | `index-stream`: `run`, its workers and folder | disk (GraphStore, done log, names, table, index, staging), main thread, one pc per worker, the channel, the folder and its batch; one action per call that can fail |
| `ResumeContract` | what resume promises: fold, remember, publish | five sets; `IndexStream` implements it |
| `EntryDir` | the directory of `.entries` files that `index` and `build` share | the content of each file |
| `BatchIndexer` | `index` | main thread, workers, the indexer each waits for, `.tmp` files, counters |
| `TableBuilder` | `build`, modes `sorted` and `graphstore` | the listing, what was fed, the work directory of each mode, `--out`, a tool that has outlived its command |
| `IndexAndBuild` | `index` and `build` over one directory at the same time, and a user who removes files | composition |
| `NameIndex` | `name-index`, `NameIndex::load`, `exact`, `substr` | the scanners, the merged set, the index file, the loaded rows |
| `CallGraph` | `callgraph`: the breadth-first walk | the node list, the node to expand, the reply being looked at |
| `QueryVerbs` | `def`, `ref`, `callers`, `super`, `sub`: a request per ticket, filter, `--limit`, headers, what is printed when there is nothing | the command, the tickets that are answered, the lines printed |
| `QuerySession` | name index, `resolve` with `--def-in` and its caps, then the walk or the lists | composition of the three |
| `Lists` | `retain`, a filtering loop, `truncate` | none |
| `EntryNames` | `VName::to_ticket`, `clean_path`, `path_of`, `sig_of`; `strip_jvm_method_descriptor`, `base64_decode` | none: pure algorithms, each with a reference definition |
| `QueryTexts` | the texts that stand in the rows of `QuerySession` | `QuerySession` with `EntryNames` |
| `MarkedSource` | `render`, `parse_marked_source_fqn`: the names of declarations | none, beside those of `QueryTexts`; the only recursive operator of the project |
| `KzipUnits` | a compilation unit in either encoding: its primary path, the two peeks, what the decoders read and where they fail, what the encoder writes | none |
| `KzipRead` | `read_units`, `read_units_filtered`: the pass over the protos, then over the JSON units | the archive, the filter, the entries of the pass, `proto_shas`, what was read |
| `SubKzip` | `extract_with` with the transforms of `index` and `index-stream`, and `normalize` | the files of the archive, the kzip that was written last |
| `WarmServer` | Kythe's `http_server` as `http.rs` meets it (external) | the process, one connection, the pieces on the wire |
| `HttpClient` | `HttpClient::post`, `post_once`, `read_chunked` | the connection, the attempt, where in the answer it reads |
| `ReplSession` | `repl`, `autostart_backend`, `BackendGuard`: a session over one client, with a backend it is given or starts | the session, the child, who owns the port, the posts of a command |

`MC*` modules hold the values of constants that a `.cfg` cannot write; where
none is needed a run uses the module itself. `*Proofs` hold the theorems.

The map in `PROJECT.json` names the lines behind every definition. Conventions:

* A call that touches disk or runs a process is an action, and its failure is
  another one. A kill may come between any two, which is also where another
  thread may step in. Code between two such calls is part of an action.
* Data are model values or numbers: a CU is the number of its position in the
  plan, an entry stream the set of its name rows, a name or ticket a number in
  the order of the strings, an HTTP answer a sequence of five pieces at most.
* `Mut...` operators are plausible bugs, one or more per property: put in the
  place of the definition that follows, they must violate the property. No
  specification uses them.

### index-stream

`proc` is the main thread: it starts (with or without `--resume`), reads the
done log if the GraphStore is there, spawns the threads, joins them, writes the
table and the names, cleans up. A worker takes the CUs of its stride, runs an
indexer, scans names, and sends to a channel of twice as many places as there
are workers; the folder collects a batch up to `BatchFiles` or `BatchBytes`,
runs `write_entries`, appends the done lines, deletes the entry files. Every
file survives a kill, nothing in memory does; of a line that is being
appended, a prefix stays, and the next line is glued to it. `--in`, `--langs`
and similar flags are fixed for an instance: the plan is the same in each run.

Three things the code does not look at have a variable, so that the properties
can say what they cost. A worker that cannot open the kzip returns, and the CUs
of its stride are counted nowhere: they are `deserted`. An error of the names
log (a write, the last flush, the preload) is dropped, and `logBad` remembers
that there was one. A directory that `--staging` names (`FixedStaging`) outlives
a run that fails or is killed: what is left in it is `stale` in the next run,
which removes it at its end if it succeeds; the default one has the process's
number in its name, and no later run looks into it.

### index and build

A worker extracts its CU, creates `<sha>.entries.tmp`, runs an indexer that
writes to it, and renames it. A kill takes the indexers along (Ctrl-C, a
container that stops). `build` lists the directory, feeds the listed files to
`entrystream --unique` or `write_entries`, and runs `write_tables`; several
builds, in either mode, share `--work`. They may run while `index` renames
files into the directory. When a build is killed, or fails while it feeds
(`build.rs:143`), its tool is dead or goes on (`orphan`): it writes any part of
what it was fed, between any steps of the next builds, into the GraphStore or
the sorted file. A build in mode `sorted` that begins meanwhile has truncated a
file that two processes write (`overlapped`).

### queries

`name-index` has one scanner per worker; the file it writes may be cut by a
failure and may be extended by hand, which `load` allows for by sorting. A
command resolves a ticket, an exact name or a needle, drops what `--def-in` does
not want, truncates, and walks or prints lists. The backend's replies are a
graph that is chosen in the beginning, any of a set; a request may fail. For
the walk a failing request ends the command; for `--def-in` it counts as no
definition, which drops the ticket without a word. The lists are printed in
the order of the reply, any order, and what was printed before a request fails
stays. `--limit` counts per list for `def`, `ref` and `callers` and over all
tickets for `super` and `sub`; in both an item is printed before the limit is
looked at.

### tickets and names

`EntryNames` has no behaviour: its definitions are functions of a text, and its
properties compare each with another definition over all inputs of the bounds.
A path is the sequence of its segments and a text that of its characters,
of which those that a function looks at are kept apart. Which characters
are escaped (`Reserved`), what their two digits are (`Code`) and which may
stand in a JVM descriptor (`TypeChar`) are constants with the assumptions the code justifies: `%`, `?`, `#` and `/` are escaped,
digits are not, and no two characters have the same code. The bytes of base64
are checked against the four sextets they are made of (`Byte`). In `MarkedSource`
a MarkedSource is the tree that `render` walks; `Written` is the tree that the
C++ indexer writes for a function. The declarations of the instance have types
with a bracket (`decltype(auto)`, `function<void(int)>`) and names with one or
with a blank (`operator()`, `operator bool`, an anonymous namespace), of which
the code leaves a piece; `DeclarationsNamed` is about the others (`Simple`).

### kzip

A unit is reduced to what the peeks, the decoders, the filter and the
transforms look at: the paths in the four places a primary path may be, the
digests of the inputs, the arguments, and four flags (its language is wanted,
`has_compile_errors` is set, it has fields the decoder does not know, its bytes
are cut). The peek of a proto looks in other places than the decoder, that of a
JSON text at the order of the text, and at its characters as they stand there,
escapes and all (`Raw`). Where a peek contradicts the decoder on the filter a unit
is dropped, and where the two units of a name contradict each other the JSON one
may be read beside a proto that was rejected; `PeeksAgree` and `TwinsAgree` say
where they do not, and `ReadIsExact` holds there. The bytes of a unit and the zip container are left out: a unit's bytes are
the record, and copying them keeps the fields the decoder would lose.

### HTTP

The client sends a request, then reads a status line, headers and a body whose
end is a length, a last chunk or the end of the connection. The server writes
those pieces one at a time; between any two it may die, and it may close the
connection between requests, while one is on its way. Reading at the end of a
closed connection gives nothing or an error (reset). A session makes commands
of several posts over this client; the first failing post ends the command, not
the session. Without `--http` it picks a port, gives it back, spawns
`http_server` and polls until somebody accepts: in between another process may
bind the port, the child may exit, the deadline may pass. The guard that kills
the child is dropped however the session ends, but not when it is killed.

## 3. The runs

| run | instance | shows |
|---|---|---|
| `stream_resume` | 3 CUs, 2 workers, batches of 2, a fixed staging directory, a kill, two failing calls | the done log never claims what the store lacks; a published table has all it should; no CU in two places; the CUs that nobody counts are exactly the deserted ones; no entry file is deleted too early; the pipeline implements `ResumeContract` |
| `stream_names` | 2 CUs with two rows, one shared, 2 workers, a kill, a failing call, which may be one on the names log | names are complete unless a run was killed or an error of the log dropped; a run has the names of what it indexed itself |
| `stream_channel` | 5 CUs, 1 worker (a channel of 2), batches of 1, a fixed staging directory, a failing call | the channel fills and the worker blocks; a run's entry files stay bounded, and what earlier runs have left by as much for each failure; the run ends although the folder may die first |
| `stream_life` | 2 CUs, 2 workers, names, a kill, a failing call or scan, cleanup and the user's removal of the store | no deadlock between workers, channel and folder; types; an operator who retries gets a table |
| `stream_names_lost` | violation | a kill after the done line and before the names are flushed loses them for good |
| `stream_stale_done` | violation | removing the GraphStore and not its done log makes resume skip what is lost |
| `index_resume` | 4 CUs (one without entries), 2 workers, a kill, a failing call, any number of reruns | files are whole, stay, and have one writer; all CUs are counted but those of a worker that could not open the kzip; reruns complete the directory |
| `build_tables` | 2 CUs, builds of both modes, a failure or kill whose tool may write on, `index` and removals meanwhile | tables are complete and have nothing foreign, but for a sorted file that two tools write and a GraphStore that outlives removed files |
| `query_callgraph` | 3 files, 2 scanners, a failure, 18 graphs of 4 symbols, `--max-syms` 2 and 5, `--limit` 2, `--def-in` with failing requests, all commands; some 15 500 VNames, 5461 signatures, 4000 declarations and 4160 base64 texts | lookups find every row; the walk is a breadth-first forest, is closed unless it is cut, and ends; lists hide nothing but beyond the limit and stand below their own header; tickets and names are right; the session implements `WalkSpec` |
| `repl_session` | given or started backend, commands of up to 3 posts, 2 failures of server, child, port or session, 3 framings, errors | answers belong to their questions; the retry does its work; every command comes back to the prompt; no backend is left behind |
| `http_cut` | violation | an answer that is cut may be returned as a success |
| `kzip` | two names, 15 units in either encoding, 3 filters, every set of files | a read returns what the filter wants, once and as the proto of two twins, where peeks agree with decoders and twins with each other, and nothing else anywhere; sub-kzips and normalized kzips have their units, files and arguments |

All runs but the three violations pass. `PROJECT.json` lists the findings
with the lines of code and of comment that disagree.

**Bounds.** `MaxKills`, `MaxFaults`, `MaxScanFaults`, `MaxBuildFaults` and the
server's `MaxFaults` bound what goes wrong, `MaxRows` and `MaxPosts` what a
user does; everything else is finite by itself. One kill and one failing call
reach every pair of a torn state and the step that repairs or trips over it,
since runs before and after are not bounded; `stream_resume` has two failing
calls, so that a failed run can be followed by one whose worker cannot open the
kzip. `build_tables` has one failing build: its tool may write on beside any
number of builds that succeed (with two TLC takes longer than is useful; the
theorems have any number). Two workers make the strides
matter; three or four CUs give a worker a second one, so that a batch of two can
hold CUs of both and a worker is at its second when the folder fails at its
first. The first CU of `stream_resume` fills a batch by its bytes, the others
by their number. In `stream_names` its rows make lines of the names log that a
kill can tear between, and a row that two CUs share. One worker with five CUs fills its
channel of two, the batch and its own hands, and has one left. For the walk,
two roots, depth 2 and four symbols are the smallest instance in which a walk
that is not breadth-first gives a symbol a wrong depth. Three posts let
the second fail with its connection kept, after a first that was closed. The
paths of `EntryNames` have up to four segments, enough for more `..` than there
are names before it, rooted and not; signatures up to six characters nest and repeat
brackets; base64 texts up to seven characters are longer than the accumulator of
the instance, which has `AccRange` = 2^24 values for the 2^32 of the code: no more than its
lowest 14 bits are ever read, and 2^32 is beyond TLC's integers (the theorem has any multiple of 2^14). The units of `kzip`
are one for each way in which a peek, a decoder, a filter or a transform can
tell units apart, and each meets each as its twin.

**Deadlock** is checked but in `query_callgraph`, `repl_session`, `http_cut` and
`kzip`: there the command, or the session, really ends.

**Fairness.** Threads and processes that can go on do: weak fairness of the main
thread, the folder, each worker and the client. It includes the external tools
(indexers, `write_entries`, `write_tables`, `http_server`): none of their
calls has a timeout in scry3, so a tool that hangs hangs scry3; the hazards
say so. `AllLand` and `EventuallyPublished` also assume an operator who runs
the command again with `--resume`, since scry3 does not restart itself.
`PromptReturns` assumes a session that goes on polling until its deadline and a
server that answers while it runs. No fairness is assumed of kills, failures,
restarts of the server, the binding of a port or the user.

## 4. The proofs

TLAPS checks the theorems for every value of the constants that satisfies the
named assumptions of the modules (`...Assumption`). They ask no more than the
types of the flags, at least one worker, batch limits of at least one (the
code's are constants), an archive of finitely many files (`FilesAssumption`),
and of texts what is said of `EntryNames` above (`CharAssumption`,
`NamesAssumption`), with an accumulator of 14 bits or more (`Base64Assumption`).

* **ListProofs** is what the others build on. The strides of *n* workers partition
  the plan, and adding *n* to a position skips none of the same stride, from
  the uniqueness of quotient and remainder. Induction over the numbers up to *n* is
  stated about sets of numbers (`InductionUp`, `InductionDown`), from the least
  member of a set. The folds of the community modules are recursive functions
  under a CHOOSE: that there is one is shown by that induction (`FoldsFromLeft`,
  `FoldsFromRight`), which leaves a function of places to reason about. What
  stands where in a list that is put together from others follows from where each
  of them begins (`FlattenIs`, `PieceStands`).
* **IndexStreamProofs.** `TypeCorrect`; `SkipsOnlyFolded`:
  `DoneImpliesFolded` is not inductive, for the folder appends to the log after
  `write_entries` and a kill may come between. `DoneInv` adds that while the
  folder appends, its batch is in the store, and what a torn line may
  become when it is read. Then `IndexedOnce`, `PublishedIsComplete`,
  `DiskIsBounded` and `DeletesOnlyFolded`. Their
  invariant says where a CU can be: ahead of its worker's position, in its
  worker's hands, queued, in the batch, or counted. `TakenInv` and `QueueInv`
  keep these places apart by the stride arithmetic; `PlanInv` and `PhaseInv` tie
  the counts to the phases of the main thread, so that at the join nothing is
  left in a place that the table would miss. The bound on the staging directory
  is not inductive, for it does not say whose the files are: `StagedInv` adds
  that, while the folder works, each is in a worker's hands, queued or in the
  batch. When the folder has failed nobody removes the files it leaves, and
  `LeftBehind` says what they can be: those that were waiting at that moment,
  and one of each worker, which takes at most one more CU to its failing send.
  What a run finds is bounded by the runs before it that were killed or failed
  (`StaleInv`): the files of a run may only be left once, and each time a kill
  or a failing call is spent on it (`Reserved`).
  Every step of the
  pipeline is a step of `ResumeContract` under the mapping of `IndexStream`, or
  leaves its variables unchanged; and whatever implements the contract
  publishes only complete tables. `SummaryAddsUp` counts: until the folder fails,
  `folded` is the number of the CUs counted as ok that are not on their way to it
  (`SumInv`), which moves only when the folder closes a batch, a sequence without
  repetition. Every CU of the plan that is not deserted is counted by then, and a
  deserted one by nobody, for its worker is gone (`DesertInv`). `OwnNamesIndexed` follows a CU's rows from its scan to the index
  (`OwnNamesInv`). `NamesAreKept` is about all runs, none of them killed
  and none with an error of the log (`logBad`, which no step takes back):
  what is in memory is in the log or in the buffer, a torn tail belongs to the
  writer that goes on with it (`SinkInv`), and every CU in the GraphStore has its
  rows in memory or, between two runs, in the log (`UnkilledInv`).
* **IndexAndBuildProofs.** `EntriesWhole` needs to know of every temporary file
  who writes it and that a rename follows a successful exit (`WholeInv`), and
  that no other worker has the CU (`PlaceInv`, from the strides). `TableComplete`
  and `NothingForeign` follow from what was fed so far (`FeedInv`) and what the
  work directories, and the tools that have outlived a build, can have
  (`WorkInv`). `EveryCuIsCounted`: a CU that is not
  counted is ahead of its worker or in its hands (`CountedInv`), and a worker
  that returns has nothing ahead of it.
* **CallGraphProofs.** The invariant `WalkInv` of the breadth-first walk: nodes are in
  the order of their depth, none more than a level below the node to expand
  (`InLevels`), and every expanded node's successors are in the list unless the
  list is full (`Expansion`). A shortcut would be an edge from an expanded node
  to a later one, whose ticket would have been seen. The theorems are about
  `WalkSpec`, the walk from any roots, which the session of `QuerySession`
  implements (`SessionWalks`, below).
* **QueryProofs.** About `QuerySession`, in two invariants. `NameInv` follows
  the index: a scanner takes the files of its own stride only (`StrideInv`), the
  rows of a file that was scanned wholly are with its scanner or merged
  (`FoundInv`), every file that was passed over and not scanned wholly cost a
  failure (`MissedInv`), and what is loaded has the rows of the file in the
  order of their names (`LoadedInv`). `SessionIndexes` follows when all scanners
  are past the last file. `SessionFinds` needs more than an invariant: that a
  sort gives a list with the same rows in order (`SortedIsOrder`), that windows
  of two suffice to skip it (`WindowsSuffice`), and that the bisection has one
  boundary, from which the run of a name begins (`PartitionPointIs`, `ExactIs`).
  `SessionWalks` shows every step of a session to be one of `AnyRoots` or the
  walk, or to leave it alone: `resolve` never hands over an empty list. With it
  `SessionForest` restates the theorems of CallGraphProofs for a session.
  `NothingHidden` says of a command that is through what it has printed, and is
  not inductive: `VerbInv` says it of every ticket that was answered. Such a
  ticket is settled (its reply is shown, or the limit reached) and stays so
  whatever is printed after, and every item is of such a ticket. One
  reply is the lemma `LinesAre`; the others say how counts, symbols and headers
  of two lists behave when the second is printed below the first.
* **KzipProofs.** About any archive, filter and rules. `ReadInv` says of every
  entry that a pass has behind it what was read of it: `PassInv` that it was
  accepted, decodes and was read in one encoding only, and `ExactInv` that, where
  the peeks agree with the decoder and the twins with each other, nothing that
  is to be read was left out and no JSON twin of a proto was read.
  `MadeInv` says from which unit a kzip was made. What a sub-kzip decodes to then
  follows from what `Encoded` and `Decoded` keep (`EncodedDecodes`).
  `ArgumentsInjected` is about the fold over the rules from the last to the first:
  after each, the arguments are those of the unit with the injected ones in front,
  in the order of the rules, no rule that matches is missing, and none is there
  twice (`InjectedGrow`, `Winning`). `KzipsAreSelfContained` is about the fold
  over the inputs of a unit, each of whose files is in the list from where it is first
  named (`BlobsGrow`), and about the order of a hash set (`OrderLists`).
* **EntryNameProofs.** `TextsAreFaithful`, in three parts.
  *Tickets.* An escaped text decodes back, place by place (`Unescaped`), and has no
  sign in it. So the component at the end of a ticket can be taken off
  (`Peel`), and two tickets are the same only if their components are
  (`TicketsApart`); the path and the signature are found behind their signs
  (`SectionIs`, `PathRead`, `SignatureRead`). A cleaned path and the place it
  leads to are made by two folds over the same names: both go up as often
  as there is nothing left to leave, and then down the same names (`Leads`), so
  that each determines the other (`LeadsOnce`, `PathsApart`). That makes
  nodes and tickets one to one (`OneToOne`, `TicketsTell`).
  *Descriptors.* The last `(` of a
  signature and the first `)` behind it are the only pair that can be a
  descriptor's, for no character of a type is a bracket (`Stripping`).
  *Base64.* The decoder has
  0, 2, 4 or 6 bits between two characters, and what is above the last two
  sextets does not get into a byte (`SextetIs`); what it has put out after *k*
  sextets are the bytes that are complete (`SextetsAre`).
* **ReplSessionProofs.** `SessionOwnAnswer`, `SessionErrorHasCause` and
  `SessionLeavesNoOrphan`, and the first two for `HttpClient` alone. None is
  inductive. `PostInv` says where the client is in the answer to its own
  request (`Along`): how many of its pieces are read, how many are written, and
  that the wire, the server's buffer and what is owed hold the rest of this one
  answer and nothing else. Then an answer that has been judged, also an error,
  leaves the connection empty (`Quiet`), and the next post begins there. For the
  cause of an error it adds that a connection which is down before its answer is
  whole went down in this attempt, or before a first attempt was sent.
  `SessionInv` adds that no post is under way while the backend is started or
  killed, and that who listens on the port as the child is the child.

`SkipsOnlyFolded`, `PublishedIsComplete`, `PipelineImplementsContract`,
`SummaryAddsUp` and `NamesAreKept` state "while the GraphStore is kept": they assume
`--keep-graphstore` and no user who removes it. Without the first assumption
the store and log are removed at the end of a successful run and there is
nothing left to resume; without the second `stream_stale_done` is a
counterexample. The two theorems about names assume that no scan fails, as the
run that checks the properties does: the code drops that error.

Two habits of the model serve the proofs. `Sorted` and `Filtered` say by counting
where an element goes, for the prover knows neither a recursive sort nor a
recursive filter; TLC evaluates the same definitions. Where a proof
needs a first or a last element it takes the least of a set of numbers
(`LeastNatural`, from the well-foundedness of `<`) instead of an induction.

**Only model-checked:** the liveness properties (the prover has no ENABLED), and
`DeclarationsNamed`, about `Render`, which walks a tree and is a RECURSIVE
operator: the prover has no SMT in a module that reaches one, so `MarkedSource`
stands apart from `EntryNames`.

## 5. Not modelled

* What indexers and Kythe tools write. They are outcomes: all, nothing, or
  a failure.
* `build --mode beam`: one call of `write_tables`, which reads the directory itself.
* A parent that is killed alone, whose indexers go on writing into files that
  the next run truncates: what two writers leave depends on their offsets.
* Flags that change between two runs of `index-stream` with one GraphStore.
* `identifier`, which prints the rows of a lookup; `edges`, `nodes`, `decor` and
  `ls`, which pass on what the `kythe` tool prints; `stat`, which reads sizes;
  the labels and colours of the lists; `by_ticket`, which only labels.
* The wire format of protos and the zip container: a unit is the fields that
  are read from it, and a decoder fails where the model says it does. `None` of
  a MarkedSource that cannot be parsed.
* The command line (`main.rs`): parsing and dispatch, without state; how the
  REPL splits a line into a verb and its options.
* What a `write_tables` that has outlived its command leaves in `--out`, which
  keeps the next build or run from using it; and a `write_entries` that has
  outlived an `index-stream` and writes beside the next one.
* Staging directories with a process's number in their name, which a run that
  fails or is killed leaves behind and no later one uses.
* Names that are lost because a scan fails (`stream.rs:431`): `ScanFails` loses
  them, as the code does, and the runs about names do without it.

**Where code and comment disagree.** Besides the findings of the three violated
runs, these disagreements are in the model as the code has them. No run asks
for what the comment says; the passing properties have what is left of it, under
the hypothesis that is named.

| comment | code | in the model |
|---|---|---|
| a CU's names "are on disk before it can be folded" (`stream.rs:427`) | an error of the log is dropped (`stream.rs:108`, `:261`): a full disk loses names of folded CUs, without a kill | `AddFails`, `CloseSinkFails`, `OpenSinkFails`; `NamesUnlessLost` is about runs with `~logBad` |
| the channel applies backpressure, "so at most a couple of GB of entry files are ever on disk at once" (`src/docs/SCALING.md:45`) | a fixed `--staging` keeps the files of runs that failed (`stream.rs:237`, `:494`) | `stale`; `InFlightBounded` adds the bound once per failure |
| "any worker error surfaces via its Result" (`indexer.rs:455`) | nobody reads it: the command succeeds without that worker's stride (`indexer.rs:325`) | `OpenKzipFails`; `AllCounted` excepts its CUs |
| "the proto wins and the JSON twin is silently dropped" (`kzip.rs:181`) | with a filter, the JSON twin of a proto that was rejected is read on its own path (`kzip.rs:410`, `:420`) | `TwinsAgree` in `ReadIsExact` |
| "confidently located the primary source path" (`kzip.rs:190`), "never silently dropped" (`kzip.rs:382`) | a peek that finds another path than the decoder drops a unit that the filter accepts (`kzip.rs:409`) | `PeeksAgree` in `ReadIsExact` |
| `details` are copied as raw bytes on the proto path (`kzip.rs:65`, `:86`) | not if a transform changes the arguments (`kzip.rs:605`) | `UnitBytes`; `SubKzipFaithful` has all of a unit only if its arguments stayed |
| `has_compile_errors` is skipped (`kzip.rs:678`) | a field that is not length-delimited fails the decoder, and one such unit the command (`kzip.rs:748`) | `Decodes`, `DecodeFails` |
| parameter lists "are truncated at the first `(`" (`marked_source.rs:28`) | a type, a scope or a name may have a `(` before them, and a name a blank (`marked_source.rs:82`) | `Simple` in `DeclarationsNamed` |

## 6. The plan

Done, in this order: the pipeline and its contract, `index` and `build`, the
name index and the call graph, the HTTP client; then the kzip reader and
writers with their proofs, tickets and names, the list commands, the REPL
with its backend; and the proofs about sessions of queries and of the REPL.
To come:

1. `build --mode beam`, if its table is to be compared with the listing: it reads
   the directory while `index` may still write to it.
