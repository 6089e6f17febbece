# SymuFlow in TLA+

This directory holds a verification development of SymuFlow, the C++ road traffic
simulator of this repository. SymuFlow moves every vehicle of a network step by step
(microscopic model) or event by event (mesoscopic model). It computes the paths of the
vehicles on a graph of the network, and it is driven by a launcher or, as a library, by
other programs that may call it from several threads.

File names without a directory are names under the repository's `src/`. `PROJECT.json` and
the modules' headers write full paths from the directory above this one, where the
repository lies under `src/` (`src/src/ReaderWriterLock.cpp`).

- [Inventory](#inventory): the components, their state, and how they interact
- [Plan](#plan): modules, runs and theorems, in order, and what is left
- [Modules](#modules): how each module corresponds to the code
- [Runs](#runs): what each run shows, under which bounds and which fairness
- [Where the code and its documentation disagree](#where-the-code-and-its-documentation-disagree)
- [Proofs](#proofs): what is proved, from what, and by which argument
- [Not modelled](#not-modelled)

## Inventory

### Components

| Component | Sources | State it keeps | Operations |
|---|---|---|---|
| Shared lock | `ReaderWriterLock.*` | writer flag, number of readers, a mutex, a condition variable | `BeginRead`, `EndRead`, `BeginWrite`, `EndWrite` |
| Path graph manager | `SymuCoreManager.*` | the graph, the cost of each link per vehicle type, the flag `m_bInvalid`, a recursive mutex, a shared lock | `Initialize`, `UpdateCosts`, `Invalidate`, `CheckGraph`, `ComputePaths`, `ComputeCost`, `ForceGraphRefresh` |
| Network registry | `Symubruit.*` (`CSymubruitApp`) | map from id to network, registry mutex, one shared mutex per network | load, step, query, delete, delete all |
| Traffic light controller | `ControleurDeFeux.*`, `PlanDeFeux.*` | plan of the day, plan in force, mode N/O/P/Q, buses being handled | `Update`, `GetSequence`, `GetInstantVertSuivant`, `SendSignalPlan` |
| Mesoscopic simulation | `reseau.cpp` (`SimuTraficMeso`), `MesoNode.*`, `TuyauMeso.*`, `usage/SymuViaTripNode.cpp` | per node: next event, arrivals, next arrivals; per link: supply time, vehicles, passing times | one event per call: supplies, passage, scheduling |
| Dynamic assignment | `Affectation.*` | period, iteration, convergence | `Run` |
| Snapshots and outputs | `SimulationSnapshot.*`, `XMLDocTrafic.*`, `CSVOutputWriter.*` | a list of open snapshots: copies of every object, temporary files | take, commit, roll back |
| Zones, plates, parkings | `ZoneDeTerminaison.*`, `Plaque.*`, `Parking.*`, `usage/SymuViaFleet*` | stock of the streets and parks, the search of each vehicle, exits to come | draws of a destination and of an origin, search, widening, giving up |
| Trips and fleets | `usage/Trip*.cpp`, `usage/AbstractFleet.cpp` | legs and current leg of each trip, the vehicles of each fleet | insert or remove a leg, stop, move to the next leg |
| Logistics | `usage/logistic/` | tours and their loads, the vehicles at each delivery point | run a tour, add or remove a delivery point |
| Simulation driver | `reseau.cpp` (`SimuTrafic`) | the clock, all lists of objects | one time step: signals, demand, car following, outputs |
| Switch micro/meso | `reseau.cpp`, `MesoNode.cpp`, `TuyauMeso.cpp` | the resolution of each link | `SwitchMicroMeso`, `ToMicro`, `ToMeso` |
| Vehicles, links, junctions | `vehicule.*`, `tuyau.*`, `voie*.*`, `carrefour*.*`, … | positions, speeds, lanes, densities | car following, gap acceptance |
| Regulation, sensors, ITS, public transport | `regulation/`, `sensors/`, `ITS/`, `usage/PublicTransport*`, `arret.*` | measures, deployed actions, timetables | scripts and periodic updates |
| Front ends | `Symubruit.h`, the launcher | | `SymRunEx`, `SymRunNextStep`, `SymLoadNetwork`, `SymQuit`, … |

`PROJECT.json` lists all of them with their sources and their status.

### Interactions

- A front end loads a network into the **registry** and calls the **driver** through it,
  once per time step. The public header allows path computations from other threads
  meanwhile.
- The **driver** calls, in each step, the **controllers** (`Update`), the demand, the
  microscopic model, and, when a node event falls inside the step, the **mesoscopic
  simulation**. That one asks the controllers about instants to come.
- Vehicles that need a path, and the threads of the API, call the **graph manager**. It
  protects its graph by a mutex and by the **shared lock**. A change of the allowed
  movements (regulation, API) invalidates the graph; each period of the **assignment**
  refreshes its costs.
- The **assignment** is called twice in a step. It sends the driver back to a **snapshot**
  until the period has converged; a client under SymuMaster does so through the API.
- A vehicle whose trip ends in a **zone** gets its destination there, tells the zone of
  each link it enters, and its parking announces a later departure to the zone.
- A **tour** is a trip shared by the vehicles of a fleet. Each vehicle gets a copy. The API
  changes the tour or the copy while the vehicle drives.

### What is hard here

- **Concurrency.** Threads of the API share the registry, the graph and the network
  with the simulation. Two locks protect the graph and are not always taken in the same
  order. A deletion waits for the users of a network while it holds the registry.
- **Condition variables.** Readers and writers wait on one condition variable and the
  end of a read wakes one of them.
- **Postponed results.** A mesoscopic supply time may depend on a vehicle that has not
  left yet. It is then unknown (`DBL_MAX`), computed by a later event, and the nodes that
  depend on it have to be scheduled again.
- **Long protocols.** The priority of a bus goes through detection, approach, zone, exit
  and return. Several buses are handled at once, and each may leave the network early.
- **Stale copies.** Costs are noted and restored across a rebuild under the addresses of
  objects that the rebuild replaces. A query about a future instant changes the present
  plan.
- **Partial failures.** An insertion, a load or a rebuild may fail half way.
- **Going back in time.** A rollback rebuilds every object of the network and removes what
  the outputs say of the instants after the snapshot; ids are given out again.
- **Two structures to keep in step**: legs and loads of a tour, flags and trip of a vehicle
  that looks for a place, fleets and the vehicles of the network.

`PROJECT.json` lists these hazards one by one, each at its line, with the properties that
would catch it. A hazard without a property has a note that says why.

### What makes each component correct

| Component | Properties |
|---|---|
| Shared lock | a writer excludes everybody; at most `m_nbMaxReaders` readers; no wakeup is lost; every call is served; it implements an abstract lock |
| Graph manager | computations see a complete, unchanging, up-to-date graph; link costs are those of the last assignment; calls return unless a rebuild throws |
| Registry | no use of a destroyed network; no network lost or shared by two owners; deletions end |
| Controller | every bus handled has its signal and is waited for; no plan cuts a green below the minimum; the return meets the normal cycle; priority is given back |
| Mesoscopic simulation | a vehicle is at one place; a node's event refers to a real arrival; nobody who can go on is forgotten; headway and storage; the network empties |
| Assignment and snapshots | a rollback returns what a snapshot holds of the network, and the outputs, to the snapshot; nothing final is lost; each period ends in one committed iteration; the simulation ends |
| Zones and parking | a search ends unless a period is over at each link; a place is never taken without an exit announced, and an end announces one; a full park is entered only by who had passed the check; the flags agree with the trip unless no way leads to the park |
| Tours | each load follows its leg; unless an order takes the current destination of a vehicle, each order is served once, no place of a delivery point is lost and every tour ends |
| Zone caches | a cached link is accessible under the present movements (planned) |
| Switch | no vehicle is lost when a link changes resolution (planned) |

## Plan

The order follows the weight of the component in the program and the chance that a test
misses what is wrong with it.

| | Module | Content | State |
|---|---|---|---|
| 1 | `SharedLock` | abstract reader/writer lock | done |
| 2 | `ReaderWriterLock` | the code of the lock; implements 1 | checked, proved |
| 3 | `SymuCoreManager` | the path graph; composes 1 | checked, proved |
| 4 | `NetworkRegistry` | life of the networks of a process | checked, proved |
| 5 | `TrafficLightController` | priority of buses | checked, proved |
| 6 | `MesoNetwork` | event-driven simulation | checked, proved |
| 7 | `Timeline` | what snapshots promise | done |
| 8 | `SimulationSnapshot`, `Affectation` | the snapshots and the iterations that use them; implements 7 | checked, proved |
| 9 | `ParkingSearch` | the end of trips in a zone | checked, proved |
| 10 | `DeliveryTour` | tours and orders on them | checked, proved |
| 11 | `*_proofs` of 2-6 and 8-10 | the theorems listed under [Proofs](#proofs) | done |
| 12 | `ZonePathCache` | caches of the termination zones against changes of the movements (`ZoneDeTerminaison.cpp` 396-684, 1649-1929) | later |
| 13 | `SwitchMicroMeso` | links that change resolution, on top of 6 (`reseau.cpp` 1509-1622, `MesoNode.cpp` 510-669, `TuyauMeso.cpp` 327-430) | later |
| 14 | extensions of 5 and 6 | several plans of the day, `ReplaceSignalPlan`; lights at mesoscopic nodes | later |

Composition: `SymuCoreManager` instantiates `SharedLock`, which `ReaderWriterLock` is
shown to implement; 3 is therefore checked and proved with the abstract lock and stands
for the program with the real one. `Affectation` extends `SimulationSnapshot`, which is
therefore checked under the driver and under a SymuMaster client. Each state machine has its parameters as `CONSTANTS`
with named assumptions and no recursive operator, so that it can be proved about. The MC
modules add a workload bound, a topology or a signal plan, never a replacement of a
definition. Definitions marked "faulty variant" are plausible mistakes. No specification
uses them: each shows that a property would notice the mistake it is paired with in
`PROJECT.json`.

## Modules

### `SharedLock`, `ReaderWriterLock`, `MCReaderWriterLock`

`SharedLock` is what the lock promises: a set of readers, a set of writers, at most one
writer and no readers beside it, and a bound on the sets of readers (`ReaderGroups`).

`ReaderWriterLock` is `ReaderWriterLock.cpp`. The mutex is held from the entry of a
function to its end or to a wait, so one action is one such stretch.

| Code | Model |
|---|---|
| `m_bHasWriter`, `m_nbReaders`, `m_nbMaxReaders` | variables of the same names, constant |
| where a thread is | `pc`: `idle`, `readTest`, `readWait`, `reading`, `writeTest`, … |
| `wait` in the loop of `BeginRead`, `BeginWrite` | `BeginReadWait`, `BeginWriteWait` |
| the end of the two functions | `BeginRead`, `BeginWrite` |
| `EndRead`, which always calls `notify_one` | `EndRead`: wakes one waiter of either kind, chosen freely |
| `EndWrite` with `notify_all` | `EndWrite` |
| wakeups without notification (C++ allows them) | `SpuriousWakeup` |

The refinement mapping is `readers <- Reading`, `writers <- Writing`, the threads whose
`pc` says so.

### `SymuCoreManager`, `MCSymuCoreManager`

The flow thread runs the simulation, the clients are threads of the API. `FlowOps` and
`ClientOps` say which operations each calls. One action is one stretch of code between
two lock operations. Where a thread is between two locks is its `pc`, which operation it
runs is `op`.

| Code | Model |
|---|---|
| `m_Lock` | `readers`, `writers`, with the actions of `SharedLock` |
| `m_Mutex` (recursive) | `m_Mutex[t]`: how often the thread holds it |
| the network the graph is built from | `network`, a version that `ForbidLinks` and `ExcludeType` increase; `notified`, the version of the last `Invalidate` or `ForceGraphRefresh` |
| `m_pGraph` | `graph`: missing, empty, or built from a version |
| costs of the patterns | `costs`: for each type, whose cost it is and its instant |
| costs of the penalties | `penalties`: for each type, their instant; a rebuild computes them and does not restore them |
| the types that `Affectation::Run` lists | `TypeLists`: all of them, or one |
| `m_mapSubPopulations`, keyed by type, pointing to objects | a placement of types at addresses, chosen again by each rebuild as an allocator may |
| link costs noted before a rebuild (`CheckGraph`) | `saved`, keyed by address |
| `CheckGraph` | `CheckGraphUnneeded`, `CheckGraph`, `RebuildBeginWrite`, `InitializeStart`, `Build`, `InitializeEnd`, `RebuildEndWrite` or `RebuildThrows` |
| `UpdateCosts` | `CallUpdateCosts`, `UpdateBeginWrite`, `Update`, `UpdateEnd`, with an `Initialize` first when there is no graph |
| `ComputePaths`, `ComputeCost` | `CallComputePaths`, `CallComputeCost`, then `CheckGraph`, `BeginRead`, `EndRead` |
| `ForceGraphRefresh` | `ForbidLinks` (the change of the network that calls it), `ForceBeginWrite`, `ForceRun`, `ForceEnd` |
| a change of the allowed movements (`Connection.cpp`) with `Invalidate` | `ExcludeType`, then `Invalidate` |

`assigned` and `moved` are histories: the instant of the last assignment that listed a type, and
the types whose object has changed address at a rebuild since. Costs of the public
transport, which every update refreshes, are left out. A thread whose rebuild throws stops there
(`thrown`): the scopes of its mutex end, the write section of `m_Lock` does not, and the other threads go on.

The search in the graph belongs to the SymuCore library and changes nothing; it is the
time a thread spends in `reading`. The module is about the manager alone: the threads'
other calls do not touch its state.

### `NetworkRegistry`

`CSymubruitApp` and the functions that create and destroy networks. `frontEnd` is how the
process uses the API: `parallel`, in which loaders and path threads call when they like,
or `launcher`, in which one thread calls at a time and the last step of a simulation ends
in `DeleteAllNetworks`.

| Code | Model |
|---|---|
| `m_mapNetworks` | id to instance |
| `m_NetworksAccessMutex` | `registryHolder` |
| the shared mutex of an instance | `sharedHolders`: its holders in shared mode |
| `new Reseau`, `delete` | `created`, `deleted` |
| what a client remembers | `own`, the ids of the networks a loader loaded |
| `CreateNetwork`, with or without the default id | `CallLoad`, `CallLoadDefault`, `Create` (`NewId`) |
| end of a load | `LoadOk`, `LoadFails` then `LoadFailed`, `InitFails` |
| `DeleteNetwork` | `CallDelete`, `DeleteFind` or `DeleteNothing`, `Erase` (waits for the shared holders), `Free` |
| `DeleteAllNetworks` | `CallQuit`, `LastStepEnd`, `FreeNext` |
| a simulation step | `StepBegin`, `StepEnd`: without a lock, as in the code |
| a path computation | `PathFind` (registry), `PathLock` (hand over hand), `PathEnd` |

The comment of `GetNetwork` leaves to the caller that a network is not deleted while it
is used. The obligations assumed of callers are therefore: a loader deletes only its own
networks; only the loaders of `DefaultOwners` (one, in the run) use the default id; a thread
quits when the other loaders are idle; and the variant of `SymRunNextStep` that deletes
everything at its end is used by the launcher only. With two threads that load under the
default id the new network may replace another in the map: deleting the old default network and inserting the
new one are two critical sections.

### `TrafficLightController`, `MCTrafficLightController`

A step moves the buses, advances the clock by one second and runs the whole of `Update`.
The clock is the time since the cycle started (`phase`); other instants are relative to
the present, so that the state space is finite. Durations that the code divides are
fractions with a common denominator (`den`), so that nothing is rounded.

| Code | Model |
|---|---|
| `m_cModeFct`, `m_LstVGPs`, `m_pPDFEx`, `m_dbFinPDFEx`, `m_pSeqRetour1/2` | the fields of `cdf` |
| `m_PDFActif` | `piloted` |
| positions of the buses | `stage`: before the upstream sensor, between the sensors, in the zone, past the downstream one; `gone`: out of the network |
| `IsPasse` during the step, which looks at the first link crossed only | `Passes`, with `Reaches` for the sensors it misses |
| detection of a bus, construction of the priority plan | `Detect`, `PriorityPlan` |
| arrival in the zone, mode P | `Enter` |
| exit of the last bus, construction of the return plan with its third sequence | `Exit`, `ReturnPlan` |
| end of the return | `Finish` |
| `GetSequence(dbInstant)` when it drops `m_pPDFEx` | `LookAhead`, in `Update` and in `MesoQuery` |
| `SendSignalPlan` | `SendSignalPlan` |

Estimates of travel times are chosen from `TravelTimes` and need not be right. Colours are
reduced to the shortest green of each sequence. There is one plan of the day. `unseen` is a history: the
buses between the sensors that the upstream one has missed.

### `MesoNetwork`, `MCMesoNetwork`

A call of `SimuTrafic` handles the earliest node event or advances the clock by a time
step and creates vehicles. `stage` says where in the call the program is.

| Code | Model |
|---|---|
| the loop of `SimuTrafic` over event and time step | `Call`, `Decide`, `Step`, `EndStep` |
| creation and insertion into the list of an origin | `CreateVehicle` |
| section I of `SimuTraficMeso`: supply times postponed earlier | `Supplies` |
| sections I bis and II: the vehicle passes, enters its next link or leaves | `Passage` with `EnterMeso`, `Leave` |
| section III: next event of the nodes of `m_nodeToUpdate` | `UpdateNode`, `ScheduleNode`, `IdleNode`, `NodesUpdated` |
| `GetMinArrivalTime`, list sorted by time, then vehicle number | `MinArrival`, `Before` |
| supply time of a link by its storage and its wave | `NextSupplyTime`, `DownstreamTime`, `PostponedSupply` |
| `IsCongested` and the refused insertion | `IsCongested`, `CanInsert`, `RestoredArrivals` |
| `DBL_MAX`, `-DBL_MAX` | `Never`, `AnyTime` |

| State | Code |
|---|---|
| `event[n]`, `via[n]` | the node's next event and the link its vehicle comes from |
| `arrivals`, `nextArrival` | the lists of arrivals per link (a node's own key for creations) and the first of each |
| `supply[l]` | next supply time of a link or of an exit |
| `entered`, `left`, `on` | vehicles with their passing times, as the link keeps them |
| `waiting[l]` | vehicles created and not yet inserted |
| `route[v]`, `gone` | itinerary of each vehicle created; vehicles that have left |

Links have one lane and one type of vehicle, instants are integers. A link of `MicroLinks`
is microscopic: what room its vehicles leave is not modelled. When its supply time is
computed there is no room yet, some room, or an empty lane (`MicroSupplies`), and a vehicle
that enters it has left the model.

### `Timeline`, `SimulationSnapshot`, `Affectation`

`Timeline` is what snapshots promise: a present (what a snapshot holds of the network, and all that
was written), and marks to return to. Time only adds to what is written. What a snapshot does not hold
(`unmarked`) is not promised: a return leaves it as the time since has made it.

`SimulationSnapshot` has the network, the final files and the list of open snapshots.
`copies` numbers the restorations: an object built by a restoration carries that number, so
that an object kept from before, or looked up in the wrong list, is a different one.

| Code | Model |
|---|---|
| `Reseau`: clock, last id, vehicles, ready and waiting vehicles of the entry, fleets | the fields of `net` |
| `XMLDocTrafic` and its `AddVehicule`, `UpdateInst…`, `RemoveVehicules`, `Add` | a document with its `INST` and `VEH` nodes, and operators of these names |
| rows of `CSVOutputWriter`, `converge` | `rows`, `Converged` |
| creation, insertion and departure of vehicles in a step | `TimeStep` with `Created`, `Inserted`, `Departed` |
| `SimulationSnapshot::Backup`, `SwitchToTempFiles` | `Backup`, `WithTempFiles`, `Taken` |
| `ValidateTempFiles` | `Validated`, `Commit` |
| `SimulationSnapshot::Restore` | `Restored`, `Found`, `SimulationRollback` |
| `FinSimuTrafic` | `FinSimuTrafic` |

`Affectation` is `Affectation::Run('P')` and its two calls in a step. `pc` is where the driver is.

| Code | Model |
|---|---|
| `m_nIteration`, `m_nNbItMax`, `m_bLastInstSimu`, `m_nPeriodeAffectation` | variables and constants of these names |
| the tests on the instant | `DuringPeriod`, `AlreadyRun`, `BeforeEnd` |
| convergence, which depends on travel times | a choice between `Equilibrium` and `NextIteration` |
| `Run` in `InitSimuTrafic`, at the start and at the end of a step | `InitialRun`, `StartOfStep`, `EndOfStep` |
| `Execution` | `Return`, `Finish` |
| `SymTakeSimulationSnapshotEx` and its two siblings, under SymuMaster | `Client` |

The refinement mapping takes the present as the network without the objects' numbers, and
what the files, documents and rows, would hold if every open snapshot were committed (`Whole`). A row that
`converge` will not find is therefore no part of the present from the moment it is written. The unmarked
part is `m_dbLastInstCreation` (`lastOut`), which `Restore` does not bring back and `CanInsertVehicle`
reads.

### `ParkingSearch`, `MCParkingSearch`

A step handles the vehicles one after another (`turn`), as `FinCalculVehicules` does; a turn
works on the record of one vehicle and on the stocks. It is split where the code loops: the fleet is told of
the links that the vehicle has entered one by one (`AddTuyauParcouru`), and the leg is ended last (`EndTurn`). Nothing
else runs between these steps, so that no interleaving is added.

| Code | Model |
|---|---|
| `m_dbStockStationnement`, `m_nStock` | `stock`, of the streets and of the park |
| `SymuViaFleetParameters` and the trip of a vehicle | the fields of `veh[v]` |
| `m_lstSortiesStationnement` | `exits`; `announced` counts all there ever were |
| a vehicle moves over some links and may end its leg (`m_LstUsedLanes`, `m_bEndCurrentLeg`) | `move`, `TakeTurn`, `Moved` |
| `FinCalculTrafic`: the loop over the links entered, then the end of the leg | `AddTuyauParcouru`, `EndTurn` |
| `SymuViaFleet::OnCurrentLegFinished` | `OnCurrentLegFinished`, `ReaffecteVehicule…` |
| `SymuViaFleet::SetLinkUsed`, an else-if chain | `SetLinkUsed`, `SearchedLink`, `FullAhead`, `CastFails` |
| the simplified mode (a distance instead of a street) | `simplified`, `WithGoal`, `UpdateGoalDistance` |
| departures: exits announced before, residents, others, the barrier of the park | `SortieStationnement`, `Resident`, `NonResident`, `BarrierOpens` |
| `IsRearbitrageNeeded`, `IsMaxSurfaciqueDureeReached` | clocks of `veh[v]`, `Aged` |

Draws are choices among what has a chance; a time is a number of steps. A vehicle whose destination is cast
to a park though it is none is followed no further (phase `lost`): what the code does then is undefined.

### `DeliveryTour`, `MCDeliveryTour`

| Code | Model |
|---|---|
| legs and loads of the tour, `m_MapLoads` | `tour`, `tourLoads` |
| trip of a vehicle, `m_CurrentLegIndex`, `m_mapLoadsUnloads` | `trip`, `leg`, `loads` |
| `m_LstStoppedVehicles`, `m_bOutside` | `listed`, `outside` |
| creation of a vehicle by the schedule or the API | `ActivateVehicle` |
| `OnCurrentLegFinished`, `PointDeLivraison::VehiculeEnter`, `TripNode::VehiculeEnter` | `ReachDestination`, `Stop`, `Leave` |
| `TripNode::ManageStop`, `Vehicule::MoveToNextLeg` | `MoveToNextLeg` |
| lane change of a vehicle beside the lane | `InsertVehicle` |
| `SymAddDeliveryPoint` on the tour, on a vehicle | `AddToTour`, `AddToVehicle` |
| `SymRemoveDeliveryPoint` on the tour, on a vehicle | `RemoveFromTour`, `RemoveFromVehicle` |
| `GetPassageNb`, `GetLoadFromMap` | `PassageNb`, `LoadFromMap` |

A load is named by the order it answers; `orders`, `asked` and `served` are histories, and so is `upset`:
the vehicles that an order took their current destination from (see "Orders that break a tour" below).
Every position the code accepts may be ordered at any moment. A vehicle that is left without a current leg is `lost`
(`OnLeg`): the code reads its trip out of bounds, and the model follows it no further.

## Runs

Each run is one question. A state count is the number of distinct states.

| Run | Instance | Question and answer |
|---|---|---|
| `rwlock` | 4 threads, 2 calls each, 2 reader slots; 28 000 | Do exclusion and exact bookkeeping hold, is no wakeup lost, is every call served, and is it the abstract lock? Yes. (The reader bound is part of the abstract lock.) |
| `manager_flow` | simulation thread alone, all operations, 2 types, 3 addresses, 2 changes of the network, instants 0-2; 59 000 | Do paths see an up-to-date graph, and link costs that are the type's own, of its last assignment? Yes, the latter as long as the type's object keeps its address. |
| `manager_par` | simulation thread with 3 calls and 2 clients with 2 calls each, 2 reader slots, 2 addresses; 568 000 | Does a computation ever see a missing, half-built or changing graph, and does every call return? No, and yes unless a rebuild throws. |
| `registry` | 2 loaders, 2 path threads, 3 networks, both front ends; 202 000 | Is a network used after its destruction, lost or shared, and do deletions end? No, and yes. |
| `lights` | 2 buses, sequences of 3, 4 and 2 s, estimates 2 or 6 s, look-ahead 0 or 5 s; 114 000 | Is each bus seen upstream served and waited for, is green kept, does the return meet the cycle, is priority given back? Yes, whichever sensors miss a bus; but green may be cut by a copy that starts over with its delay, and priority is given back only once a bus was seen to enter the zone. |
| `meso` | 2 entries and 2 merges in a row before a slow exit, up to 10 vehicles; 1 112 000 | Are vehicles and events consistent, is nobody forgotten, do headway and storage hold, does the network empty? Yes. |
| `assignment` | 4 steps, every period, 2 vehicles, 2 iterations; or a SymuMaster client with 2 open snapshots; 468 000 | Is a snapshot a mark on one timeline, do the fleets own the restored vehicles, do the final files only grow and hold everything at the end, does the simulation end? Yes. |
| `parking` | 2 vehicles, 5 streets with 2 places, a park of 1, up to 3 links a step; 2 308 000 | Is each place taken with an exit, each end announced once, a full park entered past the check only, do flags and trip agree, does every search end? Yes, except that a vehicle destroyed on a link of a jump may end again, that a park without a way to it leaves flag and trip apart, and that a period which is over at each link keeps a search from ending. |
| `tours` | 2 vehicles, 2 points with 1 place each, 1 added order; 932 000 | Under any orders, do loads follow legs, is every order served once, is no place lost, does every tour end? Yes, but for the vehicles an order took the current destination from. |
| `manager_force_deadlock`, `lights_look_ahead`, `meso_unblocked` | small instances that contain the two or three actors of the case | They violate one property each: see below. |

### Bounds

- **rwlock.** With two slots and four threads, readers can be full while a reader and a
  writer wait, a notification can reach either, and a third can overtake the one woken.
  Two calls each let a thread come back while its former neighbours still wait. The
  theorems cover every number.
- **manager.** Two changes of the network give a graph that is two versions old and a
  change during a rebuild; two instants tell the costs of the last assignment from older
  and newer ones. Three addresses for two types allow a rebuild to reuse all, some or none
  of them. With these calls a client may be before, inside and after a rebuild of the others.
  Two addresses for one type in `manager_par` are enough for a rebuild that throws while others wait.
- **registry.** Three networks and two loaders give a network that is deleted while
  another is loaded and a third is in use, and a deletion that waits for two path threads
  inside the network while others ask for the registry.
- **lights.** Sequences of unequal lengths make the return stretch for some exits, shrink
  for others and need its third sequence for the latest. An estimate shorter and one longer
  than a sequence make the priority start at once or later, in the present sequence or the
  next. Two buses overlap in every order, and each sensor may miss each of them. One of the sequences has a delay.
- **meso.** The bounds are chosen so that all of these occur: a supply time postponed,
  computed later, and found useful by a node that was idle; a link at its storage plus two;
  an insertion refused on a congested entry; a node updated twice in one call. On the chain E1-J1-J2-X, which E2
  joins at J2, link 2 is inside the network and does not lead to an exit: with six vehicles on the long route and four on
  the short one it takes more than its storage plus one while those of the other entry pass first, it still holds more
  than that when its first vehicle has left, and it is blocked later. The order of creation matters between instants only, so
  `ChainDemands` has one route before the other, at one instant or at two. Two entries
  and unequal links create both orders at the merge. The properties were also tried on a
  diverge and on one merge; what fails on other networks is listed under
  [observations](#where-the-code-and-its-documentation-disagree).

- **assignment.** Four steps hold one to four periods, some of which do not divide the
  simulation. Two vehicles are enough for one that waits behind the barrier (`ExitGap` = 2)
  while a snapshot is taken, and for an id that is given out again after a rollback. Two open
  snapshots let a client return to the first or the second. `MaxRollbacks` is greater than
  the rollbacks after which an object kept from before could still be met.
- **parking.** The ring lets a search go on for ever if nothing ends it. Each of the delays
  is reached before and after the others. A vehicle stays on its link or enters up to three in a step: it may pass the
  check of the park or not, end its search on two links of one step, and reach every link when the rerouting period is
  over. One street leaves the park and does not lead to it, and another one has no way back. Two vehicles fill each place
  before the other gets there. Init leaves each place free or taken.
- **tours.** Two points in the plan and one added order give two passages by one
  point, an insertion and a removal before, at and after the current leg, just behind it and at a stop, a point behind
  the exit, and a vehicle that waits for the only place another holds. With a plan of one
  point and two added orders (2 639 000 states, 5 minutes) the properties hold too.

### Fairness

- **rwlock.** `WF(Run(t))`: a thread on its way through one of the four functions gets the
  mutex in the end. `WF(Leave(t))`: a section that was opened is closed. Nothing is assumed
  of who is woken. A stream of new readers may starve a writer (no code prevents it), hence
  the bound on the number of calls in the liveness run.
- **manager.** `WF(MCContinue(t))`: a thread that can go on, which includes a lock that is
  free from some time on, goes on. Calls are bounded for the same reason.
- **registry.** `WF(Continue(t))`: a load, a step and a path computation end, and the
  registry mutex is given to a thread once it stays free.
- **lights.** A bus that has the priority moves on in the end: its light stays green until
  it is out. A line has an end beyond the junction (`LineIsOver`), where its bus leaves the network. Nothing is
  assumed of a bus without priority, nor of the order of buses.
- **meso.** `WF(Next)`: the launcher calls `SimuTrafic` until the end of the simulation.
- **assignment.** `WF(Next)`: the driver calls `SimuTrafic` until it reports the end.
- **parking.** None: `SearchEnds` says of every run of the program that what keeps a vehicle driving for ever is
  a period that is over whenever it enters a link.
- **tours.** `WF(Drive(v))`: each vehicle of the network is computed in each step, its stop
  has an end and the lane has a gap in the end. A vehicle that waits for a place asks again
  in each step; nothing is assumed of who gets it.

Deadlock is checked in `lights` and `parking`. In the other runs the system may stop: threads need not
call (`rwlock`, `manager_*`, `registry`, with bounds on calls, changes and networks), and the
simulation ends (`meso*`, `assignment`), as do tours (`tours`). Deadlock of the manager is a property of its own
(`NoDeadlock` in `manager_force_deadlock`), and the liveness properties would show a stuck
thread in the others.

## Where the code and its documentation disagree

Each of these is a run that TLC ends with a violation; `PROJECT.json` quotes the comments.

- **`manager_force_deadlock` (`NoDeadlock`).** `ForceGraphRefresh` takes the write lock and
  then, in `Initialize`, the mutex. `ComputeCost` takes the mutex and then waits for the
  read lock. Called at the same time they wait for each other. The objects are declared to
  "forbid incompatible parallel operations". `manager_par` leaves `ForbidLinks` out for
  this reason, and shows that the other operations, which all take the mutex first or
  alone, return.
- **`lights_look_ahead` (`ReturnPlanKept`).** `GetSequence(dbInstant)` drops the return plan
  when the instant asked about, not the present one, is after its end. Questions about
  instants to come, from the mesoscopic events or from `Update` itself, end the return early
  while the mode stays `Q`. `ReturnsInPhase` is therefore stated for returns whose plan was
  still there at the end.
- **`meso_unblocked` (`NoNodeForgotten`).** When all nodes are idle `SimuTrafic` calls
  `SimuTraficMeso` with the event time `DBL_MAX`, to release vehicles that a full link blocks.
  Section III raises every new event time to that of the current event, so that the node
  keeps `DBL_MAX` and its vehicle, whose arrival gets that time too, never leaves. A
  developers' comment at `reseau.cpp` 12662 reports a blocking of that kind.

Observed while modelling, and not stated as a run:

- **Invalidation lost** (`SymuCoreManager.cpp:235`). `Initialize` clears `m_bInvalid` at its end:
  a rebuild reads the network, an `Invalidate` follows a change, the rebuild ends. Later paths
  are computed on the old graph. For this reason `FreshGraph` is checked for the flow thread
  alone.
- **A rebuild may throw** (`SymuCoreManager.cpp:381`, action `RebuildThrows`). Costs noted before a
  rebuild are looked up by `std::map::at` under the addresses of the objects it creates, and
  nothing catches the exception when an address is new. The mutex is released with its scope; the write
  section of `m_Lock` stays open, and every later call waits for ever. `EveryCallReturns` therefore says
  that a call returns or that a rebuild has thrown; without the second case TLC violates it in the run
  `manager_par`.
- **Costs that change owner** (`SymuCoreManager.cpp:381`). The comment at line 356 says that a rebuild keeps the
  current costs of the links. When the allocator gives the address of one type's object to another's,
  the second type gets the link costs of the first. `CostsDateFromAssignment` says what holds: the costs of a
  type are its own until its object has moved. The penalties of the movements are not restored
  (comment at line 372), so a path adds link costs of the last assignment to penalties of the last rebuild.
- **Order on a mesoscopic link** (`reseau.cpp:12755`). The vehicles behind the one that passes
  are delayed to one common instant and then sorted by number: a vehicle created earlier leaves
  before one that entered the link before it.
- **Residents** (`ZoneDeTerminaison.cpp:1296`). With plates a resident that leaves takes a vehicle
  off the stock of its street and another departure does not; without plates
  (`ZoneDeTerminaison.cpp:1419`) it is the opposite, as the schema says. Both are in the model
  (`FreesPlace`).
- **CSV files** (`CSVOutputWriter.cpp:304`). `converge` reads the temporary file without the number
  that the files of other snapshots carry: with two snapshots open, the rows of the second are lost
  (`Converged`; `OutputComplete` is about the driver's own assignment). `ImplementsTimeline` counts a row as
  written only if `converge` will find it: a rollback then loses no row that was not lost already.
- **The last insertion** (`SimulationSnapshot.cpp:617`). `Restore` keeps `m_dbLastInstCreation` of the run that is
  rolled back, which lies after the instant it goes back to: behind a barrier (`Parking.h:65`) `CanInsertVehicle`
  refuses every vehicle of the repeated iteration until that later instant plus the gap has come, and the iterations
  compare different insertions. `Timeline` says that this is so (`unmarked`).
- **Periods that do not divide the simulation** (`Affectation.cpp:338`). The last, shorter period is
  never committed: its output stays in temporary files. `EvenPeriods` excludes that case, and also the single period
  as long as the simulation.
- **Orders that break a tour.** A point appended: the position after the last point is converted
  to the one after the destination of the tour (`DeliveryFleet.cpp:430`); the added point becomes the
  final destination, and when the tour already passes there the vehicle disappears at its first
  passage, else at the exit before. A removal just behind: removing the leg just before the current one
  (`AbstractFleet.cpp:600`) gives it the current destination and erases the current leg, so that the
  current destination is skipped, or, when it was the last, the trip has no current leg any more. An order at a
  stop: an order on the leg of a vehicle that is stopped, or a removal just behind it, changes its destination, and
  the point keeps the vehicle in its list for ever. The run `tours` makes all three; without the exceptions for `upset` and for
  trips that do not end at `Exit`, TLC violates `OrdersServed` (all three) and `NoPlaceLost` (the last two).
- **Places of a delivery point** (`vehicule.cpp:656`). A place is given back when the stop ends,
  before the vehicle beside the lane has found a gap: more vehicles than places may stand there.
- **Entries with two outgoing links** (`usage/SymuViaTripNode.cpp:717`). An insertion sets the next
  event of the entry to the present, while the list of arrivals may keep a later time for a vehicle
  of the other link that was delayed. With a headway longer than the time step TLC finds an event
  without its arrival (`EventHasArrival`), against the assertion of `SimuTraficMeso`. Hence the
  hypothesis `OneLinkEntries` of the theorems about `MesoNetwork`.
- **Links for one vehicle** (`reseau.cpp:12600`). When a supply time was postponed and nobody is left on
  the link, the section that computes it later takes the link for one that was microscopic and sets
  `-DBL_MAX`, so that the headway behind the vehicle that just left is lost. On an inner link whose storage is one
  vehicle TLC violates `HeadwayKept`; hence the hypothesis `RoomForTwo`.
- **Storage inside the network** (`reseau.cpp:12940`). While no vehicle has left a link its supply time does not
  look downstream. An inner link whose first vehicle waits at a merge fills without a bound, one vehicle every headway: the run
  `meso` reaches five vehicles on a link for two. `StorageKept` says what holds on every network: a link that leaves an
  entry is bounded by `IsCongested`; an inner link holds at most one vehicle above its storage, or no more than it had taken when its
  first vehicle left. It does not say that such a link keeps its storage, which is false in the code.
- **Links for one vehicle before an exit.** The same section looks at a link again only while vehicles wait at
  its end. A vehicle that leaves a link of storage one for an exit frees it, and when the next vehicle for this link
  was refused before, nobody computes its supply time again: TLC violates `NoNodeForgotten` on a diverge.
  Hence the hypothesis `RoomAtExits`.
- **Seconds and steps** (`Affectation.cpp:172`, `Affectation.cpp:341`). The number of the time step, `GetInstSim`, is
  compared with the duration in seconds. With steps longer than a second, which the schema allows, the end of
  the simulation is never recognised: the last commit opens one more snapshot, and the output of the final step goes to its
  temporary files. Setting `DureeSimu = 5` in `Affectation.cfg` violates `OutputComplete`.
- **A bus announced early and the minimal green** (`ControleurDeFeux.cpp:469`). The priority plan starts with a copy of a
  sequence, in place of the sequence before the one of the arrival, and lasts as long as that one does. A bus announced
  nearly a lap ahead, during the sequence in which it will arrive, passes the test of the "minimum time" thanks to its
  long travel time, though the copy may start seconds before the arrival. TLC violates `MinimalGreen` with sequences
  of 4, 2 and 5 instants (greens 3, 2 and 3, the last delayed by 2) and a travel time of 8: the copy of the third, whose
  minimum is 4, lasts 1. Hence the hypothesis `EarlyPlansFit`.
- **Missed sensors** (`vehicule.cpp:3949`). When a vehicle crosses several links in a step, `IsPasse` returns at the first
  one between its two ends: a sensor on a later one is missed. A bus missed upstream gets no priority (`unseen`), and one missed
  downstream keeps it until it leaves the network. When the entry into the zone is missed, the mode stays `O`, in which
  nothing releases a bus: the plan lasts until a later bus is seen to enter. `BusesServed` and
  `PriorityGivenBack` say what holds in spite of that.
- **A copy that starts over** (`ControleurDeFeux.cpp:467`). A priority in the present sequence applies its copy of this
  sequence at once, without taking off the time already shown, as the two other cases do: it starts again,
  with the delay of its lights red. Sequence of 5, green 4 after a delay of 1, minimum 2, clearance 1, bus seen at 2 and
  expected 2 later: green is shown for 1 s, then red for 1 s and the clearance. `MinimalGreen` excepts these plans (`CutsGreen`):
  the time before the copy and the copy do not make one green, and in the run `lights` the copy alone gets shorter than
  the minimum.
- **Links of one step** (`vehicule.cpp:4300`). `SetLinkUsed` is called for each link that a vehicle has jumped
  over, also after one of them has destroyed the vehicle (a comment at `SymuViaFleet.cpp:327` says so and clears the end
  of the leg only). On a step over three links a search can end twice: two places are taken and two exits announced for one
  vehicle, and the zone has one vehicle too many later. `OneExitPerEnd` excepts these links (`EndsAgain`), without which
  TLC violates it in the run `parking`.
- **A park behind the exit street** (`ZoneDeTerminaison.cpp:921`). The draw counts a park as soon as a street that leaves it
  is accessible. From there no path may lead to it: the flag of the street search is already cleared, an error is logged
  (`ZoneDeTerminaison.cpp:2346`; the assertion is not compiled in), the trip keeps its destination, and `SymuViaFleet.cpp:354`
  casts this destination to a park on the next link. TLC reaches this state in the run `parking`; `FlagsMatchTrip`
  excepts it.
- **A search without an end** (`SymuViaFleet.cpp:312`). The longest duration is the last test of an else-if chain. When
  the rerouting period is over at each link (a period shorter than the time a link takes), or in simplified mode that of the goal,
  it is never looked at. `SearchEnds` says that nothing else keeps a vehicle driving; without that exception TLC violates
  it in the run `parking`.
- A simulation step takes no lock while path threads read the network; the id 0, which means
  failure, is handed out next to the default network; a bus whose line ends before the zone keeps
  the priority plan until the next bus comes (`ControleurDeFeux.cpp:595`); a SymuMaster load whose
  `InitSimuTrafic` fails leaves its network in the map (`Symubruit.cpp:2967`); where
  `hardware_concurrency()` is 0 every `BeginRead` waits for ever (`ReaderWriterLock.cpp:13`); the third
  sequence of a return seems to be scaled by the inverse of the intended ratio, which is why
  `ReturnsInPhase` is stated for returns of two sequences.

## Proofs

TLAPS checks the theorems below for every value of the constants that the named
assumptions allow. Each module named is in a file of its own beside the component's.

| Theorem | States | For |
|---|---|---|
| `ReaderWriterLock_proofs` | | any finite `Threads`, any natural `m_nbMaxReaders` |
| `TypeCorrect` | `[]TypeOK` | |
| `CounterAndFlagExact` | `[]Bookkeeping` | |
| `WritersExclude` | `[]WriterExclusion` | |
| `ReadersBounded` | `[]ReaderBound` | |
| `WakeupsNeverLost` | `[]NoLostWakeup` | a positive reader bound |
| `Refinement` | `ImplementsSharedLock` | |
| `SymuCoreManager_proofs` | | any clients, types, addresses, reader bound and mix of operations |
| `TypeCorrect` | `[]TypeOK`: among others, the mutex is held three deep at most | |
| `ComputationsSeeAGraph` | `[]ReadsBuiltGraph` | |
| `CostsDated` | `[]CostsDateFromAssignment`, which excepts the types whose object has moved | |
| `StableDuringSearch` | `StableWhileRead`, an action property | |
| `ComputationsSeeChanges` | `[]FreshGraph` | `Announced` |
| `NetworkRegistry_proofs` | | any loaders and path threads, any number of networks, both front ends |
| `TypeCorrect` | `[]TypeOK` | |
| `NetworksOutliveTheirUse` | `[]NoUseAfterFree` | |
| `NoNetworkLeaks` | `[]NoLeak` | |
| `IdsStayExclusive` | `[]IdsExclusive` | |
| `TrafficLightController_proofs` | | any plan of two or more sequences, any buses, lines, look-ahead |
| `TypeCorrect` | `[]TypeOK` | |
| `EveryBusServed` | `[]BusesServed`, about the buses that the upstream sensor has not missed | |
| `ReturnMeetsNormalPlan` | `ReturnsInPhase`, an action property | |
| `ReturnKeepsGreen` | no return cuts a green below the minimum | |
| `MinimalGreenKept` | `[]MinimalGreen`, which excepts the copies that start over with a delay | `EarlyPlansFit` |
| `MesoNetwork_proofs` | | any network, demand and duration, with `NoLoops` and `OneLinkEntries` |
| `TypeCorrect` | `[]TypeOK` | |
| `VehiclesAtOnePlace` | `[]OnePlace` | |
| `EventsHaveArrivals` | `[]EventHasArrival` | |
| `EntriesNotOverfilled` | `[]EntriesKept`, the part of `StorageKept` about the links that leave an entry | |
| `StorageBounded` | `[]StorageKept` | also `Horizon` |
| `HeadwaysKept` | `[]HeadwayKept` | also `Horizon`, `RoomForTwo` |
| `SuppliesRespected` | `[](SupplyKept /\ BlockedFull /\ SupplyRespected)` | also `Horizon`, `RoomForTwo` |
| `NodesNotForgotten` | `[]NoNodeForgotten` | `Acyclic`, `ToExits`, `RoomAtExits`, `FarHorizon`, no microscopic link |
| `NobodyStuck` | `[]EmptyWhenIdle`: without events there are no vehicles left | the same |
| `Affectation_proofs` | | any periods, vehicles, steps, iterations, snapshots and rollbacks |
| `TypeCorrect` | `[]TypeOK` | |
| `FleetsMatch` | `[]FleetsMatchNetwork` | |
| `OneSnapshotOpen` | `[]OneSnapshot` | |
| `SnapshotsAreMarks` | `ImplementsTimeline`, the refinement of `Timeline` | |
| `FinalFilesOnlyGrow` | `FilesOnlyGrow`, an action property | |
| `OutputIsComplete` | `[]OutputComplete` | `DureeSimu <= LastStep` |
| `ParkingSearch_proofs` | | any zone, paths, places, delays, number of vehicles and of links in a step |
| `TypeCorrect` | `[]TypeOK` | |
| `ExitsCounted` | `OneExitPerEnd`, an action property, which excepts links told of after the end | |
| `FlagsAgree` | `[]FlagsMatchTrip`, which excepts vehicles without a way to the park | `Connected` |
| `FullParkPastCheck` | `FullOnlyPastCheck`, an action property | |
| `OnePlaceTaken` | `OnePlacePerExit`, an action property | |
| `DeliveryTour_proofs` | | any vehicles, points, places, plan and number of orders |
| `TypeCorrect` | `[]TypeOK` | |
| `LoadsInStep` | `[]LoadsFollowLegs` | |
| `PlacesGivenBack` | `[]NoPlaceLost` | |
| `OrdersServedOnce` | `[]OrdersServed` | |

In each module the theorem rests on an inductive invariant `IInv`, which starts with the types.
`Invariance`, or a lemma before the theorems, is the proof that it holds; under it is one lemma per action or per conjunct.

**The lock.** `WriterExclusion` is not inductive: the loops of the code test a counter and a
flag, not the sections that are open. `IInv` adds `TypeOK`, `Bookkeeping` (the counter and
the flag are exactly the open sections), `ReaderBound` and `NoLostWakeup`. Each conjunct is
preserved action by action (`TypeCorrectStep`, `SectionsStep`, `SectionsInvariantStep`,
`NoLostWakeupStep`). `FiniteSections` gives what the steps need of cardinalities: the
sections are finite, and entering or leaving one changes its size by one. `NoLostWakeup`
rests on `Bookkeeping`: when the last section closes, either nobody waits or somebody was
woken, and a woken thread is on its way to the test. It assumes a positive reader bound,
because with none every reader waits for ever. `Refinement` shows that every step is a step
of `SharedLock` or leaves `Reading` and `Writing` alone.

**The graph manager.** `ReadsBuiltGraph` is not inductive: `BeginRead` does not test the
graph, and `CheckGraph` has released the mutex by then. `IInv` says why the graph is there:

- `LockInv`: the holders of the abstract lock are the threads at certain places, and writers
  exclude everybody;
- `OpInv`: the operation of a thread agrees with its place;
- `MutexInv`: how deep each thread holds the recursive mutex, as a function of both
  (`Depth`);
- `GraphInv`: behind the test there is a graph, and one that is empty is being built;
- `CostInv`: the link costs of a type that has not moved are its own, of its last assignment, except
  while a rebuild has yet to restore those it noted, and those noted under its address are; penalties
  are not older.

Each part has its lemma (`LockStep`, `OpStep`, `MutexStep`, `GraphStep`, `TypeStep`,
`CostStep`) with one step per action. `NotedOwn` and `NotedByWriter` say what a rebuild notes: what is under the
address of a type is its own, because no two types are at one address.
`StableDuringSearch` then follows from `LockInv` (`NoReaders`): only a thread with the write
lock changes the graph or the costs.

`FreshGraph` needs `FreshInv`: what was notified and what the graph holds never run ahead of
the network, and a graph that lacks a notified change is marked invalid while the only thread
that computes paths has yet to test the mark. Its hypothesis `Announced` is where the code stops:
either the simulation thread is alone (the run `manager_flow`), or the network changes only
through functions that rebuild under the write lock. With clients and `Invalidate` the flag may
be cleared over a change (see `SymuCoreManager.cpp:235` above).

**The registry.** That the network of a step or of a path computation is alive follows from the
map, which holds it; that the map holds it follows from the locks for a path computation, and
for a step from who owns the id. `IInv` says so: `LockInv` and `SharedInv` (who holds the two kinds
of mutex), `HandInv` (the id a loader is loading or deleting belongs to nobody), `EraseInv` (an
erased instance is no longer in the map), `PointerInv` (an instance pointer is the one of an id in
the map), `QuitInv` and `LauncherInv` (a loader that deletes all networks is the only one at work).
`NewIdFresh` shows that the id chosen for a load is not in the map: it is one more than the greatest,
which exists because every id lies between the default one and the number of networks created.
`RegistryAssumption` lets one loader at most use the default id: the functions without an id are
the interface of a program with one network, and two of its users would delete each other's.

**The lights.** `ReturnsInPhase` says that at the end of a return the normal plan is at the start of
the sequence after the two replaced, whenever the last bus left. The durations are sums of the
lengths of sequences. The model takes them with a fold over a set of indices, in an order of `CHOOSE`;
`SummingExists` builds the recursive function that the fold denotes, from the least counterexample instead
of an induction theorem, and the lemmas after it (`SummingAnyOrder`, `OffsetsGrow`, `Laps`, `TimeToEnd`) give its value in any order, over an
interval, and over a lap of the cycle. From these, the time to the end of a sequence
is right at every instant of the cycle, the lengths of the return add up to the time that is left, and
`Countdown` is kept: a return in two sequences ends when the normal plan reaches the next one.
A plan sent by the user voids this (`piloted`). `EveryBusServed` rests on `Sane` (the priority plan
serves the buses it handles) and `Handled`: a bus between the detection and the exit of the zone is
in the list or was missed upstream; who is missed later stays in it (`HandledNext`). `PlanAssumption` asks of a plan what the input schema and its check ask: sequences of
positive length, green within its sequence and no shorter than the minimum.

`MinimalGreenKept` goes through the plans as they are built. A return in two sequences is kept only when none of the greens is short
or when it stretches them. Otherwise short greens are raised to the minimum, a third sequence is added and all three are scaled. A green is
short when its share of the time elapsed is more than it can lose (`ShortShare`), so that the scaling lengthens all three
(`ScaledGreen`): `ReturnKeepsGreen` holds for every plan. A priority plan copies one sequence. When it applies at
once, its minimal duration was tested, with the time already shown, or is built in. When it applies later, the copy has the length of the sequence it
replaces, at times less the clearance: `EarlyPlansFit` says that, for travel times longer than that sequence, this covers the minimal duration. The plan of the run `lights` meets it.

**The mesoscopic simulation.** The invariant says where vehicles are and what the events
know of it:

- `Places`: an arrival at the end of a link belongs to a vehicle whose itinerary has that link,
  the lists of different links and entries share nobody, every vehicle created and not gone is in
  one, a link holds those in its list, and the queue of an entry's link is in step with the list of the entry;
- `Single`: no list holds a vehicle twice;
- `Scheduled`: the event of a node is the time of an arrival in the list it points to, except for the
  nodes that the present event will schedule again (`Pending`);
- `Current`: the passage under way is that event;
- `Counted`: a link holds as many vehicles as entered it less those that left.

The hard step is the passage: it changes lists of the node passed, of the
two links and of the vehicles behind, and the nodes whose events this invalidates are exactly those
that `NodesAround` puts on the list to update. `NoLoops` leaves out a link that starts where it ends;
`OneLinkEntries` leaves out the entry of two links, where the code loses the agreement of `Scheduled`.

`HeadwayKept` needs `Timed`: events and passing times stay within the horizon of the simulation
(`Clock`, `Dated`); the supply time of an inner link is a headway after its last entrance
(`SupplyKept`); it is postponed only while the link is full (`BlockedFull`), hence, with room for two, when
somebody is there to compute it from later; no event is earlier than the supply ahead
(`SupplyRespected`). `Horizon` says that the simulation ends before the instant that stands for
`DBL_MAX`. `Timed` was first checked with TLC, on one merge and on a series of two merges.

`EntriesKept` bounds what `StorageKept` bounds, for the links that leave an entry: only an
insertion from the queue puts vehicles on them, and it asks `IsCongested` first (`CanInsert`).
For the links inside, `StorageBounded` rests on `InnerKept`: a link whose supply time is known may take one more vehicle
and stay `Within` the bound. Once a vehicle has left, a supply time
is given only when the vehicle `Storage` ranks earlier has gone, and stays unknown otherwise (`DownstreamFree`). A vehicle
enters only by an event that is no earlier than the supply (`EntersInTime`), hence only into that room.
At the first departure all the vehicles of the link have entered in the past: `Passed` says that no event still to come is earlier
than an entrance, because the event handled is the earliest (`Earliest`) and vehicles are created at instants later than the
events of the step before.

`NodesNotForgotten` is the hardest: a node without an event whose first vehicle could go on would be left alone for ever.
`Watch` says of every instant of a time step what is needed:

- `Remembered`: a node that is not on the list to update has an event, or each of its lists is empty or starts with
  a vehicle whose next link has no supply time;
- `UnknownFull`: a link without a supply time is full, or, between events, it or one it leads to holds somebody;
- `Quiet`: when no node has an event any more, no vehicle waits behind a link without a supply time. `Acyclic` is
  used here (`NobodyLeft`): when every node is idle, the first vehicle of a link stands before one without a supply
  time (`Remembered`), which holds somebody or leads to a link that does (`UnknownFull`), so that from any link with
  vehicles there is another farther along, for ever;
- `OnTime`: no instant that the program computes reaches the value that stands for `DBL_MAX` (`FarHorizon`).

`Watch` was checked with TLC before it was proved, on one merge, on two merges in series and on a
diverge. `ToExits` holds of every itinerary between an entry and an exit; vehicles that end elsewhere are not those of this
module. The other hypotheses are limits of the code: microscopic links forget nodes (the run `meso_unblocked`), so does a link for
one vehicle before an exit (see above), and with a cycle of two links that two streams cross in opposite
orders, a simulation of TLC violates both properties.
`NobodyStuck` draws the conclusion: on these networks there is no gridlock, an idle network is an empty one.
That it becomes idle is liveness and stays with TLC (`NetworkEmpties`).

**The assignment.** `IInv` says that ids are given out in order and each is one object
(`Numbered`), that the same holds of each saved network with its fleets (`SavedInv`), and that under SymuMaster
the driver only makes steps (`Driven`). It gives `FleetsMatchNetwork` after every rollback.
For the refinement the documents must fit the network, at present and at each mark: `Life` (a vehicle present
has not left in the document, one that waits has not entered) and `Compatible` (two documents to be joined
do not both date the same event). `TimelineStep` then shows that a time step only adds to the
whole output, that opening a snapshot adds a mark that is the present, and that a commit leaves the whole as
it was. A rollback needs
that cutting the open document and forgetting its vehicles gives the whole of the mark, and that the rows of the
snapshots before the mark are those it had (`RowsAgree`). Everything but a time step leaves
`m_dbLastInstCreation` alone. The
fold over open snapshots and the one over vehicles that never left are unfolded as recursive functions (`Commits`, `Leaving`).

`OutputIsComplete` follows the driver through its periods. `DriverInv` says that until the driver ends the final files and those
of the open snapshot make up the steps so far, once each and in order (`Complete`), and `Turn` that the number of the
step, the period and the iteration are in step: at a multiple of the period it commits, begins or runs again. The last commit must not open a
new snapshot, hence `DureeSimu <= LastStep` (time steps of a second or less, see above). Periods that do not
divide the simulation are excluded in `OutputComplete` itself (`EvenPeriods`).

**Parking.** The steps of a turn are compositions of operators on one vehicle's record and the stocks. The
lemmas follow it: what an operator does to the types, to the flags (`Sound`), to the stocks (one
place at most is taken) and to the exits. `IInv` joins them for all vehicles and adds what holds in the middle of a turn
(`Turning`): the leg is ended by a redirection or where it ends, who has no way to the park has not been told of
a link, and a full park told of in its approach has redirected the vehicle. The last part needs that the stock of the park does
not change before the turn is over; since it is stated for all the links told of so far, no bound on their number is needed.
`Sound` says of one vehicle how street, searching and residential exclude each other, that who drives to the park has a way
that ends there, and that who is not bound for a street and does not drive to the park has no way to it.
`PathAssumption` states the geometry only: a way to the park ends in an access, and comes to it from an approach; it may
be missing anywhere. `Connected` (some street of the first perimeter can be reached from each street of the zone) is
needed for the flags only: without it the code keeps the flag of a street search for a
vehicle that it sends to the park.

**Tours.** `LoadsFollowLegs` compares positions in two lists: the n-th passage of a trip by a point belongs
to the n-th load of this point. `PassageNb` counts, so the lemmas say how the count changes
along a trip, when a leg is inserted and when one is removed. `NoPlaceLost` is
not inductive: at the end of a stop there must be a leg to move to. There is one since the exit is never
behind a vehicle (`OnTrip`). `OrdersServed` needs in addition that a trip
holds an order once (`Distinct`), leads to the exit once (`ExitOnce`) and that the orders of a vehicle are
those served and those pending, with nothing in both (`ServedInv`). The theorems have no hypothesis on the orders: the
invariant keeps the types, the loads and the distinct orders for every vehicle, and the rest for the vehicles outside `upset`.

**Only model-checked.**

- Liveness: `EveryCallServed`, `EveryCallReturns`, `DeletionEnds`, `PriorityGivenBack`, `NetworkEmpties`,
  `SimulationEnds`, `SearchEnds`, `ToursEnd`; and `NoDeadlock`. The prover handles neither liveness under fairness
  nor `ENABLED`.
- `MinimalGreen`, `OutputComplete` and `NoNodeForgotten` outside the hypotheses named in the table, where the
  code breaks them.

`TypeOK` of `ReaderWriterLock` and `SymuCoreManager`, and `ReaderBound`, are proved and so not
repeated in the runs; nor are the `TypeOK` of the five later modules.

## Not modelled

- **Continuous motion**: car following, lane changes, gap acceptance, densities, trajectories.
  Positions and speeds are real numbers, out of a finite model's reach. Where a decision
  depends on them (a bus passes a sensor, a microscopic link has room) every outcome is
  allowed.
- **The SymuCore and SymuCom libraries**: the path search and the message exchange are not
  in this repository.
- **Regulation scripts** are Python supplied with the data.
- **Input, output, geometry, dates, logging**: no state that the properties speak about.
- **Sensors, timetables, public transport**: sequential bookkeeping driven by data; sensors
  observe only. Dwell times and loads at bus stops follow from the timetable.
- **Of a snapshot**: what is copied field by field (lights, sensors, tanks, trip legs). Fields that
  the code leaves out of a snapshot, and that a run does not look at: the list of vehicles assigned to
  a line in the snapshot of `PublicTransportLine`, `m_VehiclesToCreate`, the
  vehicles that wait at a mesoscopic entry, `m_dbInstantLastArbitrage` in
  `SymuViaFleetParameters::Clone`, and the usage and schedule parameters in
  `DeliveryFleetParameters::Clone` and `PublicTransportFleetParameters::Clone` (a vehicle loses its
  load in a rollback).
- **Of a zone**: the weights of the draws, several plates and parks, the caches of links and paths
  (planned), zones without parking management.
- **Of a tour**: quantities, stop times, orders whose path the client computes.
- **Planned** (see above): the zone caches, several plans of the day with `ReplaceSignalPlan`, shared
  priority, lights at mesoscopic nodes, and the switch between resolutions. Of that one, read but not
  modelled: `CTuyauMeso::ToMicro` calls `CMesoNode::ToMicro(NULL)` for an entry, which erases the
  arrivals of all its links and not only those of the link that changes.
