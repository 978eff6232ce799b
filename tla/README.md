# l2mapconv: a verification development

TLA+ models of the stateful parts of l2mapconv, checked with TLC on small
instances, with proofs checked by TLAPS for every value of the constants. Paths
below are relative to the repository; `PROJECT.json` maps every definition to
the lines it stands for, and lists the runs, the hazards, the mutants (one
plausible bug for every property, which TLC must find) and the theorems.

    tlc -workers 2 -config GeodataBuild.cfg MCGeodataBuild
    tlapm PreviewProofs.tla
    tlapm PathfindingLabProofs.tla
    tlapm GeodataProofs.tla
    tlapm NavmeshWorldProofs.tla
    tlapm GeodataBuildProofs.tla
    tlapm TerritoryRenderProofs.tla
    tlapm RouteQueryProofs.tla
    tlapm ClientSessionProofs.tla

## 1. The system

l2mapconv previews Lineage II maps, generates geodata (L2J, PTS) and navmeshes,
renders territories to PNG, and compares routes of two navigation backends. One
desktop process draws the preview; expensive work is done either by a thread of
it (map loading, loading of navigation data) or by a worker process that is the
same executable started on a *job directory*.

| Component | State | Operations | Modelled by |
| --- | --- | --- | --- |
| Map streaming: `MapSelectionContext`, `MapResidency`, `MapStreamingSystem`, `MapLoadQueue`, `MapLoadingWorker`, `RendererMapSceneSink` | selection, camera square, residency per (square, layer), generations, queue, results, scene groups | controls of the Maps window, `tick`, `reconcile`, the loop of the loading thread, the destructor | `MapResidency`, `MapLoading`, `MapStreaming` |
| Geodata build job: `GeodataBuildController`, `GeodataBuildWorker`, `GeodataBuildJob`, `TerritoryProcess`, `PathIO` | flags and deadline of the controller; files of the job directory; worker program counter | `start`, `poll`, `cancel`; `run_geodata_job_file` | `JobDirectory`, `GeodataWorker`, `GeodataBuild` |
| Territory render job: `TerritoryRenderController`, `JobRunner`, `PngOutput` | the same, and images and checkpoints | the same; `run_job_file` | `JobDirectory`, `RenderWorker`, `TerritoryRender` |
| Pathfinding job: `PathfindingController`, `PathfindingWorker`, `PathfindingJob`, `OwnedChildProcess` | the same, two limits, results per backend | `start`, `poll`, `cancel`, `fail`; `run_pathfinding_job_file` | `JobDirectory`, `RouteWorker`, `RouteQuery` |
| Pathfinding Lab: `PathfindingLoader`, `PathfindingContext`, `PathfindingWindow` | selected files, saved case, baseline, endpoints, loader generation, revision | inputs of the window, `request`, `invalidate`, `poll` of the loader, load thread | `PathfindingLab` |
| Publication of geodata: `geodata/Exporter` | per export: place in the code, staging directory; the shared output directory | look for older files, reserve, write, link, roll back, clean up | `GeodataExport` |
| Publication of navmeshes: `GeodataBuildWorker`, `RegionMetadata`, `navmesh/Serialization` | versions of the packages read, what was observed of each, mesh and sidecar | observe before and after reading, save, verify, write the sidecar | `NavmeshRegion` |
| Navmesh world: `navmesh/WorldMesh`, `Builder`, `Dataset::load` | files picked, sizes, markers, regions merged so far | identify, preflight, hash, load, match, merge | `NavmeshWorld` |
| Geodata generation and codecs: `NSWE`, `geodata/Builder`, `ExportBuffer`, `Compressor`, `L2JSerializer`, `PtsSerializer`, `Loader` | heightfield, cells, block buffer (pure, pass by pass) | scan, sweep, build, compress, serialise, read back | `NavigationGrid`, `GeodataFormat`, `GeodataRegion` |
| Session and startup: `Application`, `ClientSessionContext`, `RecentClients`, `DesktopStartup` | the session loop, the switch asked for, `settings.ini` of all instances | start, save, switch client, stop | `RecentClients`, `ClientSession` |
| Live rendering: `RenderingSystem`, `Renderer`, `EntityRenderer`, `LiveVisualRenderer`, `rendering/*` | OpenGL context, meshes, textures, shaders, shadow map | upload, unload, the passes of a frame | `RenderContext`, `LiveRendering` |
| Pathfinding data: `Case`, `Dataset`, `Result`, `BackendAdapters`, `Benchmark` | none | parsing, validation | checks of a dataset in `NavmeshWorld`; parsing is one step that succeeds or throws |
| Windows: `UISystem`, `TerritoryRenderWindow`, `CameraSystem` | layout | buttons | inputs of the models above |
| Territory rasteriser and materials; Unreal packages; utilities and geometry | pixels, parsed packages | – | not modelled (section 6) |

How they interact. The systems of a session run in one frame loop in a fixed
order (`Application.cpp:108-125`: camera, map streaming, windows, rendering).
`UISystem::frame_begin` polls the two job controllers once per frame, before
buttons are served; `PathfindingWindow::frame` polls the pathfinding controller
and the loader before it serves its own. The loading thread shares a mutex, a
condition variable, a queue and two result lists with `MapStreamingSystem`. A
controller and its worker share nothing but the job directory (`request.json`,
`started.json`, `status.json`, `report.json`, `cancel.request`,
`timeout.request`, outputs) and the process handle. Anybody can start the worker
on that directory a second time, so all worker models run two of them.

What is hard, and what the properties are about:

* interleaving: the thread between any two critical sections of a tick; the
  worker process between any two looks of one `poll`; two exports into one
  directory; two instances of the program saving one settings file;
* stale results: generations in map streaming, in the lab loader, and the
  revision that tells that an answer has become old;
* files that change while they are read: client packages during a build, region
  files during a load;
* partial failure: uploads, publications, the last status, terminating a
  process, all of which may fail half way;
* timeouts racing answers: cancellation deadline, wall limit and last status;
* crashes: a worker lost between two files or between two hard links, an
  instance ended with half of a settings file written;
* boundaries of the formats: heights rounded and packed, directions taken from
  one order of bits to another, layers and sections at their limits;
* one OpenGL context for two renderers: what a pass leaves bound for the next,
  and an error in the middle of one;
* liveness: condition-variable wake-ups, joining the thread, ending a job whose
  worker hangs.

## 2. Modules

### Map streaming

`MapResidency` is `MapResidency.cpp` and the priorities: pure operators over a
catalog. `MapLoading` is the queue and the thread: each action is one critical
section of the loader's mutex, and the condition variable is a phase (`asleep`,
`deciding`) with separate notifications, because the code notifies after it has
released the lock. `MapStreaming` adds selection, camera and tick. The tick of
`MapStreamingSystem.cpp` takes the mutex three times and so is four actions,
`TakeCompleted`, `TakeStarted`, `ReconcileTick`, `NotifyWorker`, with worker
steps between any two. A generation is a number, a scene group is named by key
and generation, loads end in data, data with an empty box, an error or a
cancellation. `ResidencyPromise` is the abstract specification: for every key
the life cycle absent, pending, resident or failed, all keys of a frame at once.

### Jobs

`JobDirectory` is what a controller and a worker share: the files and the owned
process, with `Dies` (the system finishes what `TerminateJobObject` began),
`Crashes` and `RunAgain`. `GeodataWorker`, `RenderWorker`, `RouteWorker` are the
programs; a step ends where a shared file has been touched. `GeodataBuild`,
`TerritoryRender`, `RouteQuery` are the controllers; one `poll` is split at its
looks at the world (exit code, `status.json`, and the decision), with the order
the code has. Every file is published in one step under its name, as
`PathIO.cpp` does it with exclusive links and replacing renames.

`JobPromise` is the abstract specification of the two render-like jobs: no
process is left once a job is shown as ended, completed means that everything is
there, cancelled means that somebody asked. It is not claimed for pathfinding:
`PathfindingController::fail` gives a job up without waiting for the process.
What the code does promise is checked instead: an answer shown has no process
behind it (`AnswersAgree`), and a given-up process blocks the next start only
until the system has ended it (`GivenUpProcessEnds`, which excludes the case
that telling it to stop failed, because then nothing tries again).

### Pathfinding Lab

`PathfindingLab` is the frame of the window without drawing: the loader poll,
then one input. The files, the saved case, endpoints, settings and baseline are
model values; an endpoint carries a tag with the data it was picked on or the
case it came with, and a query in flight is a record of everything it was asked
with, which is what lets the properties speak of stale data. The controller is
seen from outside: a query is active and ends, with an answer or without.

### Geodata generation and codecs

`NavigationGrid` is `NSWE.cpp` on a grid of columns of spans: each direction is
decided by a simple comparison of heights or by a sphere sweep. The sweep is
floating-point geometry, so its outcome is any; what is kept is *which* steps
are swept, in what order, and that the pass changes the field it reads, column
by column. `GeodataFormat` is the way from cells to bytes and back: the buffer
with its rounding to multiples of eight and its thirteen bits, the three kinds
of blocks, the L2J writer and the reader of `Loader.cpp`, the PTS writer. A
stream is a sequence of numbers, 16-bit numbers keep their width. `GeodataRegion`
runs a region through, one action per pass, and compares what is read back with
the heightfield at the beginning. Heights are counted in halves of a unit, so
that rounding has something to round. Two assumptions bound the settings from
below: `HeadroomAssumption` says that no two surfaces of a column are of one
height, `RoundingAssumption` that none are once heights are kept in steps of
eight. Both follow from the actor's height and the height of a cell; the defaults
(48 and 1, `UIContext.h:57`) leave room to spare, but a job is only asked for
positive values (`GeodataBuildJob.cpp:17`). Of an actor who fits under eight
units nothing is claimed here: two floors may then be written as one.

### Publication

`GeodataExport` is any number of processes that export the same region into one
directory. Each looks for older files, reserves one of its candidates for a
staging directory, writes, and links the L2J first and then the DAT, both
exclusively; a failure of the second link rolls the first back. Any step may
fail, any process may die, and the user may move finished files aside while no
export is running. A file carries the name of the export that made it, which is
what lets properties speak of pairs.

`NavmeshRegion` is the other half of `GeodataBuildWorker.cpp`: packages have
versions, which an update of the client moves on at any time; every package that
is read is observed before and after; after all maps are read the observations
are verified, the mesh is saved, they are verified again and the sidecar is
written. `GiveUp` may happen anywhere, whether by error, cancellation or crash.
A map is the square its name tells, and its neighbors are the up to eight squares
around it, corners included, in the order of `region_neighbors`.
`NavmeshWorld` extends it by the reader: it identifies the files picked, adds up
their sizes before it opens any, hashes and reads each sidecar, matches it,
loads the mesh, hashes again and merges; at the end it compares every two merged
regions that share a side (`ShareSide`), which must both have read every map
around both of them. Two regions that touch at a corner are not compared, as in
`WorldMesh.cpp:121-122`. The user may replace the files while they are read. A
reading starts between two builds: the two share only files that are never
written twice, so their steps commute.

### Session

`RecentClients` is `settings.ini` with its temporary file, written by all
instances of the program with nothing that excludes them: write, flush, rename,
each a step, after which an instance may be ended from outside. `ClientSession`
adds one instance's loop: events, polls, windows with one click at most, the
query whether a switch may happen, and the end of a session, after which the
next client is opened. A client directory may vanish; that throws through to
the end of the program, as in the code. The other instances start,
save, switch and end as they like, but between two sessions of this one, whose
frames touch nothing of theirs. `clash` remembers that two of them wrote the
temporary file at once, in which case the code promises nothing about the list.

### Live rendering

`RenderContext` is the part of an OpenGL context the program depends on:
programs, textures per unit, vertex arrays, framebuffers, what uniforms and depth
state are set for, as operators on one record. Names are given lowest first, as
drivers do, and are used again after deletion, which is what makes a stale
binding cache dangerous.
`LiveRendering` is the two renderers on it: upload and unload of map groups,
with every fault the code can meet half way, and the three passes of a frame,
entities, then the live scene with shadows, then the overlay of geodata. A draw
call records in `astray` whether what it found bound is not what it needs. The
older renderer keeps a copy of what it has bound (`rendering::Context`); that it
stays right when the live renderer has been in between is due to two places only,
the scope object of the live pass and the destructor of a mesh. What a pass has
yet to look at is a set: the older renderer takes from it in any order, which is
that of pointers; in the live one `Turn` goes by group and part, with what is
transparent last, in any order, because that is the order of its distance.
`Whole` is what `territory::validate_scene` demands of a scene before it is
uploaded; `NamesAssumption` says that the names the model gives to programs are
different ones.

## 3. Runs

All runs use two TLC workers and finish within three minutes.

| Run | Shows | Bounds |
| --- | --- | --- |
| `streaming_crossing` | `SceneHasNoLeak`, `TerrainIsFallback`, `PrioritiesAreFresh`, refinement of `ResidencyPromise` | two adjacent squares and the outside; camera and ring; generation 6 |
| `streaming_session` | `RequestsAreLive`, `StatusIsTruthful`, `CancellationIsNoFailure`, `PendingKeysSettle`, `ShutdownCompletes` | one square with both layers and a place outside; all controls of the selection; generation 5; the session may close |
| `geodata_build` | `MismatchIsReal`, `ProgressIsMonotone`, refinement of `JobPromise`, `CancelEndsJob` | two jobs of two shapes (L2J with DAT; two maps of navmesh with metadata), two failing terminations |
| `territory_render` | `StatusIsBacked`, refinement of `JobPromise`, `CancelEndsJob` | two maps, or an inspection of one; two jobs, one failing termination |
| `route_query` | `AnswersAgree`, `CauseIsNamed`, `NoStaleAnswer` | one job with both backends, one replaced file, one failing termination |
| `route_query_ends` | `EveryQueryEnds`, `GivenUpProcessEnds` | two jobs of one backend, one failing termination |
| `pathfinding_lab` | `DataIsCurrent`, `PointsFitData`, `AnswerIsFresh`, `LoadsSettle` | two file selections (one with a case), a map alone, two surfaces; five revisions |
| `geodata_region` | `StepsLeadBack`, `FaithfulToField`, `BothFormatsReadBack`, `OnlyUnrepresentableIsRejected` | two blocks of 2×2 cells: the first is every combination of six kinds of columns, the second one of three scenes, at four elevations; two layers; the actor's own 48, 2 and 16; one collision |
| `geodata_export` | `PairIsOfOneBuild`, `AllOrNothing`, `NothingIsOverwritten` | three exports (interchangeable), two candidate names each |
| `region_world` | `ManifestIsASnapshot`, `WorldIsOfOneClient`, `WorldFitsLimit` | three regions around a corner, two of which share a package, the middle map missing at first; two updates, three builds, one replacement; a limit of two |
| `client_session` | `HistoryIsWhole`, `SwitchEndsNoJob`, `SwitchOpensClient` | two instances, two clients, a list of two; two starts, one vanished client, two sessions |
| `live_rendering` | `DrawsSeeTheirOwn`, `GpuHoldsResidents` | three squares, one of geodata only; two uploads, one fault, three units |

Why the bounds are enough. Streaming: generation 5 lets both layers of a square
be requested, dropped, requested again and failed, so a late result of an older
generation can meet every state of the newer request; the proofs remove the
bound altogether. Two squares are what a crossing needs, and the place outside
is what makes everything unwanted. Jobs: two jobs show what one leaves to the
next; a job with two maps and two files each has a state between any two
publications; the number of failing terminations counts *polls and cancels* in
which terminating fails (a poll may try twice within), and after the last one
termination works, so liveness properties need it to be finite while safety does
not. The lab: a load and two picks are four revisions, a fifth makes the answer
old; a case brings its endpoints and needs two.

Geodata: a step concerns two neighbouring columns and a sweep those around one
corner, so a block of 2×2 with a neighbour holds every case; the elevations put
the same scene at rounding towards zero from below (−45), at the lower and the
upper end of complex heights (−32810, 32720) and past the end of 16 bits
(65450), all in halves; two layers stand for sixty-four, with columns of three
to be rejected. Exports: two compete and the third finds what they left.
Worlds: of three squares around a corner the middle one shares a side with each
of the others, which touch at the corner; without the middle map no two at a side
become a world and the two at the corner do, with it all may. Of two updates one
may fall into a reading and one between two builds; the newer mesh is larger, so
that the limit is met by what was replaced, for which one replacement is enough;
the proofs are for any number. Sessions: two instances are all a lost update
needs, and a second session is what a switch opens; the list has room for both
clients, so that it is cut at its length is left to the proof of
`HistoriesAreWhole`. Live rendering: of two groups, one is unloaded while the
other draws, and the deleted names are given again to a third kind of mesh; a
pass has at most three items to order.

The bounded counters and where they act: `MaxGeneration` stops the *user*, never
the tick; `MaxJobs` stops `start`; `MaxStopFailures`, `MaxReplaced`,
`MaxReplacements`, `MaxUpdates`, `MaxVanished` and `MaxFaults` bound what the
environment does; `MaxRevision` stops inputs that count as a revision, never the
arrival of data; `MaxAttempts` is the number of names the exporter tries (32);
`MaxBuilds`, `MaxStarts`, `MaxSessions` and `MaxUploads` bound how often the
user begins something; `MaxCollisions` bounds the steps that sweeps forbid.

`CHECK_DEADLOCK FALSE` is set where the bounds can be used up with nothing left
to happen: the job runs, `geodata_export`, `region_world` and `client_session`.
In the streaming, lab, geodata and rendering runs deadlock is checked.

### Fairness

* Streaming: weak fairness of the frame loop (`Tick`, `Controls`), of a
  destructor once it runs, and of the loading thread (a load returns: it reads
  files, and nothing in it waits). No fairness of the user, the camera, or
  spurious wake-ups.
* Jobs: weak fairness of `Poll` (each frame calls it), of the clock
  (`DeadlinePasses`, `WallPasses`), and of the operating system ending a process
  that was told to end (`Terminating`). *None* of a worker: it may hang for ever,
  and every liveness property holds nevertheless.
* Lab: weak fairness of `PollLoader` and of the load itself.
* Session: weak fairness of the frame and of the saving of one instance: its
  thread goes on wherever it does not wait for the user. No fairness of the
  user, the workers, or the other instances.

## 4. Proofs

The first part of `PreviewProofs` proves, for every catalog (finite, of any
size), every startup selection and every bound, from `CatalogAssumption`,
`NoRequestAssumption` and `StreamingAssumption`:

| Theorem | States |
| --- | --- |
| `InductiveInvariant` | `Spec => []IInv` |
| `TypeCorrectness` | `[]TypeOK` |
| `RequestsStayLive` | `[]RequestsAreLive` |
| `StatusStaysTruthful` | `[]StatusIsTruthful` |
| `CancellationsAreNoFailures` | `[]CancellationIsNoFailure` |
| `SceneKeepsNoLeak` | `[]SceneHasNoLeak` |
| `TerrainStaysFallback` | `[]TerrainIsFallback` |
| `PrioritiesStayFresh` | `[]PrioritiesAreFresh` |
| `StreamingKeepsPromise` | `Spec => Promise!Spec`: the refinement |

The argument. No property above is inductive: whether a late result is dropped
depends on which generations can be where. `IInv` adds that every generation
that is anywhere has been issued (`GenerationsIssued`); that what the system
waits for is the queue's latest (`OutstandingIsLatest`) and that a current
request in the queue, the worker or a result is one the system waits for
(`CurrentIsOutstanding`); that a (key, generation) is in one place (`OnePlace`)
and an outstanding one in some (`NoneLost`); that a key is not at once held,
failed and outstanding (`HoldingsDisjoint`); and that a load which saw a
cancellation is stale already (`CancelledIsStale`), which is why it can never be
published. Worker steps and short main steps each take one lemma; the long step
`ReconcileTick` is cut into what a tick does to requests, latest generations,
pending entries, results, status, scene, terrain and priorities, one lemma each.
The refinement uses `IInv` and needs one lemma per frame and one for everything
else.

The second part of `PreviewProofs` proves both invariants of the two renderers,
for every set of squares and every whole scene of each, any number of texture
units from three on and any bounds, from `UnitsAssumption`, `LiveAssumption`,
`VisualAssumption` and `LiveRendering`'s `NamesAssumption`:

| Theorem | States |
| --- | --- |
| `LiveInvariant` | `LiveSpec => []LiveInv` |
| `DrawsAreTheirOwn` | `[]DrawsSeeTheirOwn` |
| `NothingIsLeaked` | `[]GpuHoldsResidents` |

`LiveInv` has a part for each thing that can go wrong. `Owned`: every name of a
mesh, a texture or a program has one owner, in the middle of an upload too,
where the group that is made counts as one (`Groups`). `Placed`: which groups
there are, and that a group in the live scene is complete. `Bound`: what is
bound, and what the copy of the bindings says of it, at each point of a frame;
between frames the copy may differ from the bindings only where it names a mesh
of the geodata overlay, which is why the destructor of a mesh has to correct it.
`Passing`: what a pass has yet to look at is still there and its shadow programs
are made. `Remembered`: what the live renderer takes from its last draw is still
bound, textures of the material and the mask with it, so state that is not set
again need not be. Each operation on the context has a lemma that says all it
changes, each kind of owner a lemma for what comes and one for what goes, and
each action one that it keeps `LiveInv`. That no draw is refused for want of
units rests on `Fits`: what an upload lets through leaves room for mask and
shadow map. The counts of names follow from `Owned` by the bijections between
owners and names.

`PathfindingLabProofs` proves the safety properties of the lab for every set of
files, surfaces, settings and cases and every bound, from `LabAssumption`:

| Theorem | States |
| --- | --- |
| `LabInvariant` | `Spec => []LabInv` |
| `LabTypes` | `[]TypeOK` |
| `DataStaysCurrent` | `[]DataIsCurrent` |
| `PointsStayFitting` | `[]PointsFitData` |
| `AnswersStayFresh` | `[]AnswerIsFresh` |

None of the three is inductive. `LabInv` adds that generations never run ahead
of revisions and that what waits makes every load outdated (`InOrder`), that
nothing is on display while something is asked for, which is what the fields
name (`LoadsWhatIsNamed`), that a case without data is asked for or has failed
(`CaseIsServed`), and that a question is fresh already while its query runs
(`QuestionIsFresh`). The lemmas follow what actions have in common: inputs that
drop everything, inputs that ask for data, steps that leave the loader alone,
steps that only move endpoints, and the one step that is different from all,
`PollLoaded`.

The other parts of `GeodataProofs` are about what is exported: every region of
whole blocks, every heightfield that rasterisation may leave, every elevation and
every actor that the settings may name, from the assumptions of `NavigationGrid`,
`GeodataFormat` and `GeodataRegion`. Of the two that bound the settings from below
(section 2), `ReadersFindTheField` alone needs `RoundingAssumption`;
the theorems about `DataInv` need `HeadroomAssumption`.

| Theorem | States |
| --- | --- |
| `PassInvariant` | `Spec => []PassInv` |
| `WaysUpLeadBack` | `[]StepsLeadBack` |
| `DataInvariant` | `Spec => []DataInv` |
| `RejectsTheUnrepresentable` | `[]OnlyUnrepresentableIsRejected` |
| `FormatsReadBack` | `[]BothFormatsReadBack` |
| `ReadersFindTheField` | `[]FaithfulToField` |

`PassInv` is what the passes over a heightfield leave: spans apart from each
other, headroom over what may be stood on, and, column by column in the order of
the pass, directions not yet touched or decided as `Allows` says. Although the
simple pass changes the field it reads, it decides from what it never changes
(`SameAllowed`); that is why a way up leads back. `DataInv` says what each
buffer and stream is at each phase. The rest is about pure functions. For every
buffer that the compressor leaves and the writers do not refuse (`Writable`),
each reader gives back the cells that were kept, block by block, and the
counters of the client's header are those of the blocks that follow: a 16-bit
word is the height and the directions it was made of (`WordReadsBack`), and a
block is read to where its writer ended it (`ReadL2JBlockOf`, `ReadPtsBlockOf`).
Rounding keeps the surfaces of a column apart (`HeightsDiffer`), so cells can be
told by place and height.

The last part of `GeodataProofs` proves what an output directory may hold, for
any number of exports and of candidate names, from `AttemptsAssumption` and
`GeodataExport`'s `NamesAssumption`:

| Theorem | States |
| --- | --- |
| `ExportInvariant` | `ExportSpec => []ExportInv` |
| `PairsAreOfOneBuild` | `[]PairIsOfOneBuild` |
| `ExportsAreAllOrNothing` | `[]AllOrNothing` |
| `NothingGetsOverwritten` | `NothingIsOverwritten`, an action property |

That a DAT stands beside the L2J of its own build depends on what another export
can do between the two links. `ExportInv` adds that a reserved staging directory
belongs to one export (`StagingIsOwn`), that only what was asked for is staged
(`OnlyDatsAsked`), that a staged file was written by the one who reserved the
directory and is whole once the export has passed it (`FilesAreWritten`), and
that a link is made nowhere but in its place of the code (`LinksAreMade`).

`NavmeshWorldProofs` proves what a sidecar and a world say of the client, for
any maps, packages and order of updates and any numbers of builds and
replacements, from `MapsAssumption` and `NoneAssumption`:

| Theorem | States |
| --- | --- |
| `RegionInvariant` | `RegionSpec => []RegionInv` |
| `ManifestsAreSnapshots` | `[]ManifestIsASnapshot`, of the worker alone |
| `ShelfInvariant` | `RegionSpec => []Shelf` |
| `WorldInvariant` | `Spec => [](Shelf /\ WorldInv)` |
| `WorldsAreOfOneClient` | `[]WorldIsOfOneClient` |
| `SizesAreKept` | `Spec => [](Shelf /\ WorldInv /\ SizeInv)` |
| `WorldsFitLimit` | `[]WorldFitsLimit` |

The argument is one of time. Versions only grow (`VersionsGrow`); every use of a
package lies between two observations of it (`UsedIsRecorded`); so where both
agree, the version used is the one recorded, and where all are verified at one
moment the manifest is a state the client has been in (`OneMoment`). From there
`ShelfInv` says of everything ever published that a mesh is made of one version
of each package, and that a sidecar which calls a map loaded has its package
recorded. The reader is a second argument of the same kind. What it merges was
hashed, loaded and hashed again, and a file that was replaced does not come back
during one reading; so `Current` allows the mesh loaded to differ from the one
the sidecar names only if that one is gone, which the second hash will find.
`Merged` keeps that all merged pairs agree, and at the end that they are
complete around their common sides, and around those only. `SizeInv` is about the limit: sizes are
counted once for each region, before anything is opened, and what is merged has
the size that was counted, so the sum over what is merged is part of the sum
that was compared. These two theorems ask of the sizes that they are numbers,
`SizesAreNumbers`, which is a hypothesis of theirs and no `ASSUME`: it speaks of
all versions of all packages, more than TLC can enumerate. They also need
`LimitAssumption`, that the maps are finitely many.

The three job proofs share an argument and not a module, because a step of a
controller and a step of a worker mean something different in each. All are for
any set of requests of the right shape, any crash codes and any bounds, with any
number of workers started again by hand, from `JobsAssumption`,
`CodesAssumption`, `NoneAssumption` and `BoundsAssumption`.

| Theorem | States |
| --- | --- |
| `BuildInvariant` | `GeodataBuild!Spec => []BuildInv` |
| `MismatchesAreReal` | `[]MismatchIsReal` |
| `ProgressMovesForward` | `ProgressIsMonotone`, an action property |
| `BuildKeepsPromise` | `KeepsJobPromise`: the refinement of `JobPromise` |
| `RenderInvariant` | `TerritoryRender!Spec => []RenderInv` |
| `StatusesAreBacked` | `[]StatusIsBacked` |
| `RenderKeepsPromise` | `KeepsJobPromise`: the refinement of `JobPromise` |
| `QueryInvariant` | `RouteQuery!Spec => []QueryInv` |
| `AnswersAreAgreed` | `[]AnswersAgree` |
| `CausesAreNamed` | `[]CauseIsNamed` |
| `NoAnswerIsStale` | `[]NoStaleAnswer` |

The ground of all three is `ClaimInv` (in `RouteQueryProofs` a conjunct of
`Fits`): whoever is past its claim is the one who has claimed the directory, so
every file has one writer, whatever is started again. On it stands what this
writer is about to write: that `status.json` is behind it (`ProgressInv`), that
what it lists is there already (`WriterInv` of the renders), that every backend
asked has a result and none of them is stale (`Fits`). `ProcessInv` ties the
exit code a poll holds to the process; `AskedInv` and `CauseInv` say that nobody
is stopped unless somebody asked, or the job is lost already; `ShownInv` says
that what is shown is what the files say once the poll that found the worker
gone has read them, which is what the order of the looks in `poll` is for. The
proofs go by who acts: one lemma says what a worker's step leaves to the
controller, one what a controller's step leaves to the worker, then come a start
and its failure, the loss of a process, and the start by hand. In the refinement
only three kinds of steps are seen: a start, what a worker publishes last, and a
poll that ends the job; all others stutter.

`RenderJobsAssumption` (a render makes checkpoints, with images or without) and
`RoutesAssumption` (one map per backend) are the shapes in which the controllers
write requests. `LossAssumption` is about the environment, and it was the proof
that asked for it: a territory worker that is lost does not exit with 130.
Otherwise somebody may run the worker again by hand and cancel that one, so that
`status.json` says cancelled, and the loss of the owned one with just that code
would be shown as a cancellation nobody asked for.

`ClientSessionProofs` is about any clients, number of instances and length of
the list, from `RecentAssumption` and `SessionAssumption`:

| Theorem | States |
| --- | --- |
| `SessionInvariant` | `Spec => []SessionInv` |
| `SwitchesEndNoJob` | `[]SwitchEndsNoJob` |
| `HistoriesAreWhole` | `[]HistoryIsWhole` |

`FrameInv` is what makes a switch safe: there is one click a frame, nothing is
asked for before it, and as long as there was none and the block is not set, no
job runs; the windows may then set the block in any order. `AloneInv` is what
makes the list safe: without a clash one instance is between opening and moving
the temporary file, and the file holds what this one has put there, or nothing
where one that gave up has removed it. That promoting an entry gives a list
again, within its length and without duplicates, is proved from the library's
facts on sequences (`ErasedOne`, `PromotedIsAList`).

Every inductive invariant above has also been checked with TLC as an invariant
of the instance of its run; `LiveInv` with two of the three squares, and with its
quantifiers over all names and keys cut down to those of the instance.

Where a proof goes through data (the blocks of a region, the pieces of a stream,
the regions merged so far), it is by induction over numbers or sets. The
library's induction theorems that take a predicate cannot be used, because no
installed prover instantiates it. `WFMin` with `NatLessThanWellFounded` can: they
speak of sets. From these come `NumbersInduction` and `LeastNumber`, and with a
set in place of the predicate what a fold or a recursive function computes can be
proved for every input.

## 5. What is only model-checked, and what is out of reach

Every safety invariant and every action property of the runs is proved. Only
checked with TLC are the liveness properties: `PendingKeysSettle`,
`ShutdownCompletes`, `CancelEndsJob`, `EveryQueryEnds`, `GivenUpProcessEnds`,
`LoadsSettle` and `SwitchOpensClient`. Liveness under fairness and `ENABLED` are
beyond the prover.

No module declares a `RECURSIVE` operator.

## 6. What is left out

Whole parts:

* Territory rasteriser and materials: pixels, shader texts and floating point. A
  render is one phase of `RenderWorker`, a material a model value of
  `LiveRendering`.
* Unreal packages: binary parsing. A load is one step with its outcomes in
  `MapLoading` and `GeodataWorker`, a set of packages read in `NavmeshRegion`.
* Utilities and geometry: logging and floating-point geometry; no state of
  theirs decides what another part does.
* Recast, Detour, nlohmann/json, ImGui and the rest of the vendored code.

Of the parts that are modelled:

* Streaming: bounding boxes and the texts of the window; the numbers of scene
  groups (named by key and generation instead); file contents.
* Jobs: the wording of errors, log files, tile progress; loading, rendering and
  saving are one phase `working`; completed with warnings is completed; the
  formats of `status.json` (an unreadable or foreign one is one outcome, and
  happens at any time where `ReadsMayFail`); failures of `GetExitCodeProcess`;
  a crash of a worker started by hand (it simply takes no further step); a
  `cancel.request` made by hand.
* Pathfinding job: the Java child of a backend is one step with its outcomes; the
  progress of a benchmark and the pinning of a process id; files that are
  replaced and put back.
* Lab: the slice, pan and zoom of the top view, drags, overlays; how two formats
  are matched to one floor.
* Geodata: rasterisation; the geometry of a sphere sweep, whose outcome is open;
  of the PTS header all but its counters. The client's reader of PTS is not in
  the repository: the model has one that knows the format from the writer.
* Publication of geodata: the content of files. `README.md:212` says that a
  failed region export publishes neither file. That holds for every export that
  throws and whose roll back succeeds, which is what `AllOrNothing` states;
  `Exporter.cpp` ignores a failing roll back, and a process that dies between the
  two links cannot roll back: either leaves a lone L2J, which the next export
  refuses to overwrite.
* Navmesh: the bytes of both formats; tiles and borders as geometry; limits on
  the size of sidecars; the path by which a saved case names its files. A file
  that was replaced during a reading is never put back during the same reading:
  hashes before and after cannot see that, nor does the code claim to.
* Session: the command line, among it a map that is not in the catalog; a
  missing `LOCALAPPDATA`; start and stop of `SystemStack`, which no system
  overrides.
* Live rendering: pixels, culling, the sorting of draws by program and mesh;
  what ImGui binds (its backend puts the state back); builds with
  `LOAD_TEXTURES`, which is off by default. An upload makes its meshes before
  its programs: a mesh that is made again, because the transform of an item is
  singular, comes in between in the code. The texture of geodata is always there:
  without `nswe.png` the code draws it with none.
* External parts, modelled as the source uses them: the operating system's
  process termination, the OpenGL context, and the user who replaces files,
  updates the client or starts a worker again.

## 7. Plan

What this development should take up next, in this order.

1. The Java child of a backend in its nested job object, which a worker ended by
   force takes with it.
2. `MaterialResolver`: the recursion over material references with its limits on
   cycles, depth and nodes, and issues shared between surfaces.
3. Lazy loading of Unreal objects: archives and objects cached per loader, an
   object only once it has been read.
