-------------------------------- MODULE Rdma --------------------------------
(***************************************************************************)
(* The two programs of rdma/soft-rdma: a server and a client that exchange   *)
(* the addresses of their queue pairs over TCP and then one message over a   *)
(* reliable connection.  Each is a straight program: every call may fail     *)
(* and then jumps to the cleanup.                                            *)
(***************************************************************************)
EXTENDS Naturals, Sequences, FiniteSets

CONSTANTS
  Faults,   \* the steps that may fail
  MayKill   \* whether the user may kill a program

\* The steps whose failure the programs look at.  send, recv, the polling and the
\* releases are not among them, and connect fails when there is no listener.
ASSUME RdmaAssumption ==
  Faults \subseteq {"list", "ctx", "pd", "cq", "qp", "init", "buf", "mr", "lsock", "csock",
                   "listen", "asock", "rtr", "rts", "post"}

Process == {"server", "client"}

Peer(p) == IF p = "server" THEN "client" ELSE "server"

VARIABLES
  at,      \* per program: its step, "cleanup", "end" or "killed"
  held,    \* per program: the resources it has not released
  qp,      \* per program: its queue pair, "none", "reset", "init", "rtr", "rts"
  remote,  \* per program: remote_info, "unset", "info" or "garbage" (stack)
  conn,    \* the TCP connection: "none", "queued", "open", "reset"
  sent,    \* the programs whose local_info is on its way or read
  wire,    \* the message: "none", "sent", "delivered"
  recvs,   \* a receive request is posted
  wc,      \* per program: the work completion, "none", "ok", "error"
  failed   \* history: the steps that failed

vars == <<at, held, qp, remote, conn, sent, wire, recvs, wc, failed>>

-----------------------------------------------------------------------------
(* The programs *)

ServerStepsHasty ==
  <<"list", "ctx", "pd", "cq", "qp", "init", "buf", "mr", "lsock", "listen", "asock",
    "tell", "hear", "rtr", "rts", "post", "poll", "cleanup">>

ServerStepsCrossed ==
  <<"list", "ctx", "pd", "cq", "qp", "init", "buf", "mr", "lsock", "listen", "asock",
    "hear", "tell", "rtr", "rts", "post", "poll", "sleep", "cleanup">>

ServerSteps ==
  <<"list", "ctx", "pd", "cq", "qp", "init", "buf", "mr", "lsock", "listen", "asock",
    "tell", "hear", "rtr", "rts", "post", "poll", "sleep", "cleanup">>

ClientSteps ==
  <<"list", "ctx", "pd", "cq", "qp", "init", "buf", "mr", "csock", "connect",
    "hear", "tell", "rtr", "rts", "post", "poll", "sleep", "cleanup">>

Steps(p) == IF p = "server" THEN ServerSteps ELSE ClientSteps

Following(p) ==
  Steps(p)[(CHOOSE i \in 1 .. Len(Steps(p)) : Steps(p)[i] = at[p]) + 1]

\* The order of the cleanup.
ServerReleaseEarly == <<"asock", "lsock", "mr", "buf", "cq", "qp", "pd", "ctx", "list">>

ServerRelease == <<"asock", "lsock", "qp", "mr", "buf", "cq", "pd", "ctx", "list">>

ClientReleaseShort == <<"csock", "qp", "mr", "buf", "cq", "ctx", "list">>

ClientRelease == <<"csock", "qp", "mr", "buf", "cq", "pd", "ctx", "list">>

Release(p) == IF p = "server" THEN ServerRelease ELSE ClientRelease

Resources == {"list", "ctx", "pd", "cq", "qp", "buf", "mr", "lsock", "asock", "csock"}

Init ==
  /\ at = [p \in Process |-> "list"] /\ held = [p \in Process |-> {}]
  /\ qp = [p \in Process |-> "none"] /\ remote = [p \in Process |-> "unset"]
  /\ conn = "none" /\ sent = {} /\ wire = "none" /\ recvs = FALSE
  /\ wc = [p \in Process |-> "none"] /\ failed = {}

Advance(p) == at' = [at EXCEPT ![p] = Following(p)]

Gone(p) == at[p] \in {"end", "killed"}

-----------------------------------------------------------------------------
(* Setting up *)

\* The calls whose result is kept until the cleanup.  accept waits for a client.
Acquire(p) ==
  /\ at[p] \in Resources
  /\ at[p] = "asock" => conn \in {"queued", "reset"}
  /\ held' = [held EXCEPT ![p] = @ \cup {at[p]}]
  /\ qp' = IF at[p] = "qp" THEN [qp EXCEPT ![p] = "reset"] ELSE qp
  /\ conn' = IF at[p] = "asock" /\ conn = "queued" THEN "open" ELSE conn
  /\ Advance(p)
  /\ UNCHANGED <<remote, sent, wire, recvs, wc, failed>>

\* No list, an empty list, which is not freed, or no device of that name.
NoDevice(p) ==
  /\ at[p] = "list" /\ "list" \in Faults
  /\ at' = [at EXCEPT ![p] = "end"] /\ failed' = failed \cup {<<p, "list">>}
  /\ UNCHANGED <<held, qp, remote, conn, sent, wire, recvs, wc>>

EmptyList(p) ==
  /\ at[p] = "list" /\ "list" \in Faults
  /\ at' = [at EXCEPT ![p] = "end"] /\ failed' = failed \cup {<<p, "empty">>}
  /\ held' = [held EXCEPT ![p] = {"list"}]
  /\ UNCHANGED <<qp, remote, conn, sent, wire, recvs, wc>>

\* goto cleanup.
Fail(p) ==
  /\ at[p] \in Faults \ {"list"}
  /\ at' = [at EXCEPT ![p] = "cleanup"] /\ failed' = failed \cup {<<p, at[p]>>}
  /\ UNCHANGED <<held, qp, remote, conn, sent, wire, recvs, wc>>

ModifyQp(p, step, state) ==
  /\ at[p] = step /\ qp' = [qp EXCEPT ![p] = state]
  /\ Advance(p)
  /\ UNCHANGED <<held, remote, conn, sent, wire, recvs, wc, failed>>

QpToInit(p) == ModifyQp(p, "init", "init")

\* An address read from the stack may or may not be refused: see Fail.
QpToRtr(p) == ModifyQp(p, "rtr", "rtr")

QpToRts(p) == ModifyQp(p, "rts", "rts")

Listen ==
  /\ at["server"] = "listen" /\ Advance("server")
  /\ UNCHANGED <<held, qp, remote, conn, sent, wire, recvs, wc, failed>>

Listening == "lsock" \in held["server"] /\ at["server"] \notin {"listen", "lsock"}

\* The connection may wait in the backlog; without a listener it is refused.
Connect ==
  /\ at["client"] = "connect"
  /\ IF Listening
     THEN Advance("client") /\ conn' = "queued" /\ UNCHANGED failed
     ELSE /\ at' = [at EXCEPT !["client"] = "cleanup"]
          /\ failed' = failed \cup {<<"client", "connect">>} /\ UNCHANGED conn
  /\ UNCHANGED <<held, qp, remote, sent, wire, recvs, wc>>

\* send: once the peer has reset the connection, SIGPIPE ends the program.
Tell(p) ==
  /\ at[p] = "tell"
  /\ IF conn = "reset" /\ p = "client"
     THEN /\ at' = [at EXCEPT ![p] = "killed"] /\ held' = [held EXCEPT ![p] = {}]
          /\ qp' = [qp EXCEPT ![p] = "none"]
          /\ failed' = failed \cup {<<p, "tell">>} /\ UNCHANGED sent
     ELSE Advance(p) /\ sent' = sent \cup {p} /\ UNCHANGED <<held, qp, failed>>
  /\ UNCHANGED <<remote, conn, wire, recvs, wc>>

\* recv: its result is not checked; without data remote_info stays as it was.
Hear(p) ==
  /\ at[p] = "hear"
  /\ \/ Peer(p) \in sent /\ remote' = [remote EXCEPT ![p] = "info"]
     \/ /\ Peer(p) \notin sent /\ (conn = "reset" \/ Gone(Peer(p)))
        /\ remote' = [remote EXCEPT ![p] = "garbage"]
  /\ Advance(p)
  /\ UNCHANGED <<held, qp, conn, sent, wire, recvs, wc, failed>>

-----------------------------------------------------------------------------
(* The message.  Posting and polling are the programs', the rest is the adapter's. *)

PostRecv ==
  /\ at["server"] = "post" /\ recvs' = TRUE /\ Advance("server")
  /\ UNCHANGED <<held, qp, remote, conn, sent, wire, wc, failed>>

PostSend ==
  /\ at["client"] = "post" /\ wire' = "sent" /\ Advance("client")
  /\ UNCHANGED <<held, qp, remote, conn, sent, recvs, wc, failed>>

Poll(p) ==
  /\ at[p] = "poll" /\ wc[p] # "none" /\ Advance(p)
  /\ UNCHANGED <<held, qp, remote, conn, sent, wire, recvs, wc, failed>>

\* sleep(1), twice the time of the client's retries: what becomes of the client's
\* send is settled in it.
Sleep(p) ==
  /\ at[p] = "sleep"
  /\ wire # "none" /\ qp["client"] = "rts" => wc["client"] # "none"
  /\ Advance(p)
  /\ UNCHANGED <<held, qp, remote, conn, sent, wire, recvs, wc, failed>>

\* The programs know each other's queue pair.
Paired == remote["server"] = "info" /\ remote["client"] = "info"

\* rnr_retry of qp_to_rts: 7 waits for a receive request as long as it takes.
RnrRetryOnce == 1

RnrRetry == 7

Deliver ==
  /\ wire = "sent" /\ qp["client"] = "rts" /\ qp["server"] \in {"rtr", "rts"}
  /\ recvs /\ Paired /\ wc["client"] = "none"
  /\ wire' = "delivered" /\ wc' = [wc EXCEPT !["server"] = "ok"]
  /\ UNCHANGED <<at, held, qp, remote, conn, sent, recvs, failed>>

\* The acknowledgement; it is repeated as long as the server keeps its queue pair.
Acknowledge ==
  /\ wire = "delivered" /\ qp["client"] = "rts" /\ wc["client"] = "none"
  /\ wc' = [wc EXCEPT !["client"] = "ok"]
  /\ UNCHANGED <<at, held, qp, remote, conn, sent, wire, recvs, failed>>

\* retry_cnt and timeout of qp_to_rts: half a second without an answer, because
\* the server's queue pair is not there, not ready yet or somebody else's.
TimedOut ==
  /\ wire # "none" /\ qp["client"] = "rts" /\ wc["client"] = "none"
  /\ \/ wire = "sent" /\ ~(qp["server"] \in {"rtr", "rts"} /\ Paired)
     \/ wire = "sent" /\ qp["server"] \in {"rtr", "rts"} /\ ~recvs /\ RnrRetry # 7
     \/ wire = "delivered" /\ qp["server"] = "none"
  /\ wc' = [wc EXCEPT !["client"] = "error"]
  /\ failed' = IF qp["server"] = "init" THEN failed \cup {<<"server", "late">>} ELSE failed
  /\ UNCHANGED <<at, held, qp, remote, conn, sent, wire, recvs>>

-----------------------------------------------------------------------------
(* Ending *)

\* r is what the cleanup releases next.
FirstHeld(p, r) ==
  \E i \in DOMAIN Release(p) :
    /\ r = Release(p)[i] /\ r \in held[p]
    /\ \A j \in 1 .. i - 1 : Release(p)[j] \notin held[p]

CleanupEnds(p) ==
  /\ at[p] = "cleanup" /\ \A i \in DOMAIN Release(p) : Release(p)[i] \notin held[p]
  /\ at' = [at EXCEPT ![p] = "end"]
  /\ UNCHANGED <<held, qp, remote, conn, sent, wire, recvs, wc, failed>>

\* One release of the cleanup; closing the server's sockets resets a connection
\* that was not accepted.
Cleanup(p) ==
  /\ at[p] = "cleanup"
  /\ \E r \in held[p] :
       /\ FirstHeld(p, r) /\ held' = [held EXCEPT ![p] = @ \ {r}]
       /\ qp' = IF r = "qp" THEN [qp EXCEPT ![p] = "none"] ELSE qp
       /\ conn' = IF r = "lsock" /\ conn = "queued" THEN "reset" ELSE conn
  /\ UNCHANGED <<at, remote, sent, wire, recvs, wc, failed>>

\* The system releases what a killed program held.
Kill(p) ==
  /\ MayKill /\ ~Gone(p)
  /\ at' = [at EXCEPT ![p] = "killed"] /\ held' = [held EXCEPT ![p] = {}]
  /\ qp' = [qp EXCEPT ![p] = "none"]
  /\ conn' = IF p = "server" /\ conn = "queued" THEN "reset" ELSE conn
  /\ failed' = failed \cup {<<p, "killed">>}
  /\ UNCHANGED <<remote, sent, wire, recvs, wc>>

Run(p) ==
  \/ Acquire(p) \/ QpToInit(p) \/ QpToRtr(p) \/ QpToRts(p)
  \/ Tell(p) \/ Hear(p) \/ Poll(p) \/ Sleep(p) \/ Cleanup(p)
  \/ CleanupEnds(p)
  \/ p = "server" /\ (Listen \/ PostRecv)
  \/ p = "client" /\ (Connect \/ PostSend)

Trouble(p) == NoDevice(p) \/ EmptyList(p) \/ Fail(p) \/ Kill(p)

Adapter == Deliver \/ Acknowledge

Next == (\E p \in Process : Run(p) \/ Trouble(p)) \/ Adapter \/ TimedOut

Spec == Init /\ [][Next]_vars

\* A program that can go on does, and the adapters do their work.
FairSpec ==
  /\ Spec /\ WF_vars(Adapter) /\ WF_vars(TimedOut)
  /\ \A p \in Process : WF_vars(Run(p))

-----------------------------------------------------------------------------
\* What each resource was made from.
Parents ==
  [list |-> {}, ctx |-> {}, pd |-> {"ctx"}, cq |-> {"ctx"}, qp |-> {"pd", "cq"}, buf |-> {},
   mr |-> {"pd", "buf"}, lsock |-> {}, asock |-> {}, csock |-> {}]

\* Wherever a program fails, its cleanup releases a resource only after those made
\* from it, for the verbs calls refuse to release one that is in use; and once the
\* program has ended nothing is left but an empty device list.
ReleasedInOrder ==
  \A p \in Process :
    /\ \A r \in held[p] : Parents[r] \subseteq held[p]
    /\ Gone(p) /\ <<p, "empty">> \notin failed => held[p] = {}

\* The server's receive request comes after its queue pair is ready: a message in
\* between waits for it, and the client's send fails only if something else did.
EarlySendWaits == wc["client"] = "error" => failed # {}

\* The two programs report the same end of the message: a client that says it was
\* sent has a server that got it, and one that says it was not has a server that did
\* not, unless the server is killed between the message and its acknowledgement.
ReportsAgree ==
  /\ wc["client"] = "ok" => wc["server"] = "ok"
  /\ wc["client"] = "error" /\ <<"server", "killed">> \notin failed => wc["server"] # "ok"

\* Unless a call fails, a program is killed or the server is late, both programs
\* come to an end with the message across: the two handshakes fit each other.
BothEnd ==
  <>(failed # {} \/ ((\A p \in Process : at[p] = "end") /\ wc["server"] = "ok"))
=============================================================================
