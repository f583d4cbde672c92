----------------------------- MODULE MCRegistry -----------------------------
(* Registry for TLC.  The models do not affect each other, so a client of  *)
(* each run uses a few of them; the run covers every client.               *)
EXTENDS Registry, Naturals

VARIABLE client  \* the events it sends

Sent(names, ids, args) ==
  {[event |-> n, id |-> i, arg |-> a] : n \in names, i \in ids, a \in args}

Mutexes ==
  [events |-> Sent(Mutex!Events, MutexIds, {0}), init_events |-> {}]

Rwlocks ==
  [events |-> Sent(Rwlock!Events, RwlockIds, {"Read", "Write"}), init_events |-> {}]

Barriers ==
  [events |-> Sent(Barrier!Events, BarrierIds, {0}),
   init_events |-> Sent({"NewBarrier"}, BarrierIds, {2, 3})]

Waits ==
  [events |-> Sent(Join!Events \cup Unknown!Events, {"none"}, {0})
                \cup Sent(Watch!Events, WatchIds, {0}),
   init_events |-> {}]

Groups ==
  [events |-> Sent(TaskWait!Events, TaskGroups, Slots),
   init_events |-> Sent({"NewTaskGroup"}, TaskGroups, {0})]

MCInit == RegistryInit /\ client \in {Mutexes, Rwlocks, Barriers, Waits, Groups}

MCNext == RegistryNext(client.events, client.init_events) /\ UNCHANGED client

MCSpec == MCInit /\ [][MCNext]_<<registryVars, client>>
=============================================================================
