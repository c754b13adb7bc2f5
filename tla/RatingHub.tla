------------------------------ MODULE RatingHub ------------------------------
(***************************************************************************)
(* Live rating predictions of one contest (contests.go): every submission  *)
(* that changes the standings starts a goroutine that computes predictions *)
(* and broadcasts them through the hub to the streams that are subscribed. *)
(* The hub is a map guarded by an RWMutex; each stream has a channel of a  *)
(* fixed capacity.  Other contests share only the mutex.                   *)
(*                                                                         *)
(* Predictions are represented by the version of the standings they are    *)
(* computed from.                                                          *)
(***************************************************************************)
EXTENDS Naturals, Sequences

CONSTANTS
    Streams,       \* requests to ContestRatingStream, and their channels
    Broadcasts,    \* goroutines that ContestSubmit may have started at a time
    Capacity,      \* of a channel: 16 in the code
    MaxVersion     \* bound on the changes of the standings

ASSUME HubAssumption == Capacity \in Nat \ {0} /\ MaxVersion \in Nat

VARIABLES
    version,   \* of the standings, counting submissions; 0 when nobody has joined yet
    clients,   \* hub.clients: the channels in the map
    queue,     \* what is in each channel
    closed,    \* the channels that are closed
    stream,    \* where each stream handler is
    gone,      \* streams whose client has disconnected
    task,      \* the broadcast goroutines
    seen,      \* history: the versions that were written to each client
    dropped    \* history: streams that missed a message: their channel was full, or the
               \* database gave no standings

hubVars == <<version, clients, queue, closed, stream, gone, task, seen, dropped>>

Done == [pc |-> "done", data |-> 0, rest |-> {}]

HubInit ==
    /\ version = 0
    /\ clients = {} /\ closed = {} /\ gone = {} /\ dropped = {}
    /\ queue = [s \in Streams |-> <<>>]
    /\ stream = [s \in Streams |-> "new"]
    /\ task = [t \in Broadcasts |-> Done]
    /\ seen = [s \in Streams |-> {}]

-----------------------------------------------------------------------------
\* The RWMutex: readers hold it together, a writer alone; a writer that waits
\* keeps new readers out.
Readers == {t \in Broadcasts : task[t].pc = "sending"}
WriterWaits == \E s \in Streams : stream[s] \in {"locking", "unlocking"}
MayWrite_M == TRUE
MayWrite == Readers = {}
MayRead == ~WriterWaits

-----------------------------------------------------------------------------
\* ContestSubmit has recomputed the standings and starts a goroutine.
Change(t) ==
    /\ task[t] = Done /\ version < MaxVersion
    /\ version' = version + 1
    /\ task' = [task EXCEPT ![t].pc = "predict"]
    /\ UNCHANGED <<clients, queue, closed, stream, gone, seen, dropped>>

\* predictRatings reads the standings as they are now.
Predict(t) ==
    /\ task[t].pc = "predict"
    /\ task' = [task EXCEPT ![t].pc = "broadcast", ![t].data = version]
    /\ UNCHANGED <<version, clients, queue, closed, stream, gone, seen, dropped>>

\* An error of the database: there are no predictions and nothing is broadcast.
PredictFails(t) ==
    /\ task[t].pc = "predict"
    /\ task' = [task EXCEPT ![t] = Done]
    /\ dropped' = dropped \cup {s \in Streams : stream[s] = "loop"}
    /\ UNCHANGED <<version, clients, queue, closed, stream, gone, seen>>

\* broadcast takes the read lock and ranges over the map.
Broadcast(t) ==
    /\ task[t].pc = "broadcast" /\ MayRead
    /\ task' = [task EXCEPT ![t].pc = "sending", ![t].rest = clients]
    /\ UNCHANGED <<version, clients, queue, closed, stream, gone, seen, dropped>>

Room_M(s) == Len(queue[s]) <= Capacity
Room(s) == Len(queue[s]) < Capacity

\* The select with a default never waits for a slow client.
Waits_M(s) == ~Room(s)
Waits(s) == FALSE

Send(t) ==
    /\ task[t].pc = "sending"
    /\ \E s \in task[t].rest :
          /\ ~Waits(s)
          /\ task' = [task EXCEPT ![t].rest = @ \ {s}]
          /\ queue' = IF Room(s) THEN [queue EXCEPT ![s] = Append(@, task[t].data)] ELSE queue
          /\ dropped' = IF Room(s) THEN dropped ELSE dropped \cup {s}
    /\ UNCHANGED <<version, clients, closed, stream, gone, seen>>

Finish(t) ==
    /\ task[t].pc = "sending" /\ task[t].rest = {}
    /\ task' = [task EXCEPT ![t] = Done]
    /\ UNCHANGED <<version, clients, queue, closed, stream, gone, seen, dropped>>

Goroutine(t) == Predict(t) \/ PredictFails(t) \/ Broadcast(t) \/ Send(t) \/ Finish(t)

-----------------------------------------------------------------------------
To(s, pc) == stream' = [stream EXCEPT ![s] = pc]

\* ContestRatingStream is called; the handler then calls subscribe.
Open(s) ==
    /\ stream[s] = "new" /\ To(s, "locking")
    /\ UNCHANGED <<version, clients, queue, closed, gone, task, seen, dropped>>

Subscribe(s) ==
    /\ stream[s] = "locking" /\ MayWrite
    /\ clients' = clients \cup {s}
    /\ To(s, "initial")
    /\ UNCHANGED <<version, queue, closed, gone, task, seen, dropped>>

\* The first predictions are read after the stream has subscribed.
Snapshot_M == 0
Snapshot == version

ShowInitial(s) ==
    /\ stream[s] = "initial"
    /\ seen' = IF Snapshot = 0 THEN seen ELSE [seen EXCEPT ![s] = @ \cup {Snapshot}]
    /\ To(s, "loop")
    /\ UNCHANGED <<version, clients, queue, closed, gone, task, dropped>>

ShowInitialFails(s) ==
    /\ stream[s] = "initial"
    /\ dropped' = dropped \cup {s}
    /\ To(s, "loop")
    /\ UNCHANGED <<version, clients, queue, closed, gone, task, seen>>

\* A message is taken from the channel and written to the client.
Receive(s) ==
    /\ stream[s] = "loop" /\ queue[s] # <<>>
    /\ seen' = [seen EXCEPT ![s] = @ \cup {Head(queue[s])}]
    /\ queue' = [queue EXCEPT ![s] = Tail(@)]
    /\ UNCHANGED <<version, clients, closed, stream, gone, task, dropped>>

\* The client closes the connection.
Disconnect(s) ==
    /\ stream[s] \in {"locking", "initial", "loop"}
    /\ gone' = gone \cup {s}
    /\ UNCHANGED <<version, clients, queue, closed, stream, task, seen, dropped>>

\* The loop sees clientGone and returns; unsubscribe is deferred.
Leave(s) ==
    /\ stream[s] = "loop" /\ s \in gone
    /\ To(s, "unlocking")
    /\ UNCHANGED <<version, clients, queue, closed, gone, task, seen, dropped>>

Unsubscribe(s) ==
    /\ stream[s] = "unlocking" /\ MayWrite
    /\ clients' = clients \ {s}
    /\ closed' = closed \cup {s}
    /\ To(s, "returned")
    /\ UNCHANGED <<version, queue, gone, task, seen, dropped>>

Handler(s) ==
    \/ Open(s) \/ Subscribe(s) \/ ShowInitial(s) \/ ShowInitialFails(s)
    \/ Receive(s) \/ Leave(s) \/ Unsubscribe(s)

HubNext ==
    \/ \E t \in Broadcasts : Change(t) \/ Goroutine(t)
    \/ \E s \in Streams : Handler(s) \/ Disconnect(s)

HubSpec == HubInit /\ [][HubNext]_hubVars

\* Goroutines run; writing to a client may block for as long as it is connected.
HubFairSpec ==
    /\ HubSpec
    /\ \A t \in Broadcasts : WF_hubVars(Goroutine(t))
    /\ \A s \in Streams :
          /\ WF_hubVars(Subscribe(s))
          /\ WF_hubVars(s \in gone /\ (ShowInitial(s) \/ ShowInitialFails(s)))
          /\ WF_hubVars(Leave(s))
          /\ WF_hubVars(Unsubscribe(s))

-----------------------------------------------------------------------------
Steps == {"new", "locking", "initial", "loop", "unlocking", "returned"}

HubTypeOK ==
    /\ version \in Nat
    /\ clients \subseteq Streams /\ closed \subseteq Streams
    /\ gone \subseteq Streams /\ dropped \subseteq Streams
    /\ queue \in [Streams -> Seq(Nat)]
    /\ \A s \in Streams : Len(queue[s]) <= Capacity
    /\ stream \in [Streams -> Steps]
    /\ task \in [Broadcasts -> [pc : {"done", "predict", "broadcast", "sending"},
                                data : Nat, rest : SUBSET Streams]]
    /\ seen \in [Streams -> SUBSET Nat]

\* A broadcast never sends on a closed channel, which would stop the whole server:
\* no channel it has still to visit is closed before it is done, whichever streams
\* come and go meanwhile.
NoSendOnClosed == \A t \in Readers : task[t].rest \cap closed = {}

\* No change is missed in between: when all broadcasts have ended, a stream that has
\* read its channel empty and never missed a message has shown the newest predictions,
\* also when it subscribed while the standings changed.
NewestIsSeen ==
    (\A t \in Broadcasts : task[t] = Done) =>
        \A s \in Streams \ dropped :
            stream[s] = "loop" /\ queue[s] = <<>> /\ version > 0 => version \in seen[s]

\* A stream whose client is gone is unsubscribed: no slow client and no broadcast holds
\* the mutex for ever.
GoneMeansReturned == \A s \in Streams : s \in gone ~> stream[s] = "returned"
=============================================================================
