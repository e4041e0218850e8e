----------------------------- MODULE Rdma_proofs -----------------------------
(***************************************************************************)
(* Proofs about the two programs of rdma/soft-rdma, whatever calls fail and     *)
(* whenever one is killed.                                                      *)
(*                                                                              *)
(* HeldInv: a program on its way holds what the steps before made (Had), and    *)
(* one in its cleanup a part of that closed under what it was made from.        *)
(* MessageInv: where the message is, by where the programs are.  SmoothInv:     *)
(* what the handshake guarantees as long as nothing has failed.                 *)
(***************************************************************************)
EXTENDS Rdma, TLAPS

Places ==
  {"list", "ctx", "pd", "cq", "qp", "init", "buf", "mr", "lsock", "listen", "asock", "csock",
   "connect", "tell", "hear", "rtr", "rts", "post", "poll", "sleep", "cleanup", "end", "killed"}

TypeOK ==
  /\ at \in [Process -> Places] /\ held \in [Process -> SUBSET Resources]
  /\ qp \in [Process -> {"none", "reset", "init", "rtr", "rts"}]
  /\ remote \in [Process -> {"unset", "info", "garbage"}]
  /\ conn \in {"none", "queued", "open", "reset"} /\ sent \subseteq Process
  /\ wire \in {"none", "sent", "delivered"} /\ recvs \in BOOLEAN
  /\ wc \in [Process -> {"none", "ok", "error"}]
  /\ at["server"] \notin {"csock", "connect"}
  /\ at["client"] \notin {"lsock", "listen", "asock"}

-----------------------------------------------------------------------------
(* What is held *)

Had(p, i) == {Steps(p)[j] : j \in 1 .. i - 1} \cap Resources

Closed(S) == \A r \in S : Parents[r] \subseteq S

Releases(p) == {Release(p)[i] : i \in DOMAIN Release(p)}

OnWay(p) ==
  at[p] \notin {"cleanup", "end", "killed"} =>
    \E i \in DOMAIN Steps(p) : at[p] = Steps(p)[i] /\ held[p] = Had(p, i)

Tidy(p) == at[p] = "cleanup" => held[p] \subseteq Releases(p) /\ Closed(held[p])

Empty(p) ==
  Gone(p) => held[p] = {} \/ (held[p] = {"list"} /\ <<p, "empty">> \in failed)

HeldBy(p) == OnWay(p) /\ Tidy(p) /\ Empty(p)

HeldInv == \A p \in Process : HeldBy(p)

-----------------------------------------------------------------------------
(* Where the message is *)

\* Until its cleanup the state of a queue pair is that of the program.
QpOnWay(p) ==
  /\ at[p] \in {"list", "ctx", "pd", "cq", "qp"} => qp[p] = "none"
  /\ at[p] = "init" => qp[p] = "reset"
  /\ at[p] \in {"buf", "mr", "lsock", "listen", "asock", "csock", "connect", "tell", "hear", "rtr"}
       => qp[p] = "init"
  /\ at[p] = "rts" => qp[p] = "rtr"
  /\ at[p] \in {"post", "poll", "sleep"} => qp[p] = "rts"

MessageInv ==
  /\ QpOnWay("server") /\ QpOnWay("client")
  /\ wire # "none" => at["client"] \in {"poll", "sleep", "cleanup", "end", "killed"}
  /\ wc["server"] = IF wire = "delivered" THEN "ok" ELSE "none"
  /\ wire = "delivered" => recvs
  /\ recvs => at["server"] \in {"poll", "sleep", "cleanup", "end", "killed"}
  /\ recvs /\ at["server"] \in {"sleep", "cleanup", "end"} => wire = "delivered"
  /\ wire = "delivered" /\ at["server"] \in {"cleanup", "end"}
       => qp["client"] # "rts" \/ wc["client"] # "none"
  /\ at["server"] = "killed" => <<"server", "killed">> \in failed
  /\ ReportsAgree

-----------------------------------------------------------------------------
(* As long as nothing has failed *)

Smooth ==
  /\ at["server"] # "killed" /\ at["client"] # "killed"
  \* A connected client has a listening server.
  /\ at["client"] \notin {"list", "ctx", "pd", "cq", "qp", "init", "buf", "mr", "csock", "connect"}
       => at["server"] \notin {"list", "ctx", "pd", "cq", "qp", "init", "buf", "mr", "lsock",
                               "listen"}
  /\ at["client"] \in {"list", "ctx", "pd", "cq", "qp", "init", "buf", "mr", "csock", "connect"}
       => conn = "none"
  /\ conn # "reset"
  /\ at["server"] \in {"tell", "hear", "rtr", "rts", "post", "poll", "sleep", "cleanup", "end"}
       => conn = "open"
  \* Each has told the other before it goes on.
  /\ at["server"] \in {"hear", "rtr", "rts", "post", "poll", "sleep", "cleanup", "end"}
       => "server" \in sent
  /\ at["client"] \in {"rtr", "rts", "post", "poll", "sleep", "cleanup", "end"}
       => "client" \in sent
  /\ at["server"] \in {"rtr", "rts", "post", "poll", "sleep", "cleanup", "end"}
       => remote["server"] = "info"
  /\ at["client"] \in {"tell", "rtr", "rts", "post", "poll", "sleep", "cleanup", "end"}
       => remote["client"] = "info"
  /\ at["server"] \in {"poll", "sleep", "cleanup", "end"} => recvs
  /\ at["client"] \in {"sleep", "cleanup", "end"} => wc["client"] # "none"
  /\ wc["client"] # "error"

SmoothInv == failed = {} => Smooth

-----------------------------------------------------------------------------
(* The programs as sequences *)

\* Both end with the cleanup.
LEMMA StepsEnd ==
  ASSUME NEW p \in Process
  PROVE  /\ Len(Steps(p)) \in Nat /\ DOMAIN Steps(p) = 1 .. Len(Steps(p))
         /\ Steps(p)[Len(Steps(p))] = "cleanup"
<1>1. CASE p = "server"
  <2>1. Steps(p) = ServerSteps
    BY <1>1 DEF Steps
  <2> QED  BY <2>1 DEF ServerSteps
<1>2. CASE p = "client"
  <2>1. Steps(p) = ClientSteps
    BY <1>2 DEF Steps
  <2> QED  BY <2>1 DEF ClientSteps
<1> QED  BY <1>1, <1>2 DEF Process

\* No step comes twice.
LEMMA StepsDiffer ==
  ASSUME NEW p \in Process
  PROVE  \A i, j \in DOMAIN Steps(p) : Steps(p)[i] = Steps(p)[j] => i = j
<1> SUFFICES ASSUME NEW i \in DOMAIN Steps(p), NEW j \in DOMAIN Steps(p),
                    Steps(p)[i] = Steps(p)[j]
             PROVE  i = j
  OBVIOUS
<1>1. CASE p = "server"
  <2>1. ServerSteps[i] = ServerSteps[j] /\ i \in 1 .. 19 /\ j \in 1 .. 19
    BY <1>1 DEF Steps, ServerSteps
  <2> QED  BY <2>1 DEF ServerSteps
<1>2. CASE p = "client"
  <2>1. ClientSteps[i] = ClientSteps[j] /\ i \in 1 .. 18 /\ j \in 1 .. 18
    BY <1>2 DEF Steps, ClientSteps
  <2> QED  BY <2>1 DEF ClientSteps
<1> QED  BY <1>1, <1>2 DEF Process

\* A step is followed by the next, and the last is the cleanup.
LEMMA StepFollows ==
  ASSUME NEW p \in Process, NEW i \in DOMAIN Steps(p), at[p] = Steps(p)[i], at[p] # "cleanup"
  PROVE  i + 1 \in DOMAIN Steps(p) /\ Following(p) = Steps(p)[i + 1]
<1> DEFINE k == CHOOSE j \in 1 .. Len(Steps(p)) : Steps(p)[j] = at[p]
<1>1. /\ Len(Steps(p)) \in Nat /\ DOMAIN Steps(p) = 1 .. Len(Steps(p))
      /\ Steps(p)[Len(Steps(p))] = "cleanup"
  BY StepsEnd
<1>2. k \in DOMAIN Steps(p) /\ Steps(p)[k] = at[p]
  BY <1>1
<1>3. k = i
  <2> HIDE DEF k
  <2>1. Steps(p)[k] = Steps(p)[i] /\ k \in DOMAIN Steps(p)
    BY <1>2
  <2> QED  BY <2>1, StepsDiffer
<1>4. i # Len(Steps(p))
  BY <1>1
<1>5. Following(p) = Steps(p)[k + 1]
  BY DEF Following
<1> HIDE DEF k
<1> QED  BY <1>1, <1>3, <1>4, <1>5

\* What has been made so far was made from what was made before.
LEMMA HadClosed ==
  ASSUME NEW p \in Process, NEW i \in DOMAIN Steps(p)
  PROVE  Closed(Had(p, i)) /\ Had(p, i) \subseteq Releases(p)
<1> SUFFICES ASSUME NEW j \in 1 .. i - 1, Steps(p)[j] \in Resources
             PROVE  /\ Steps(p)[j] \in Releases(p)
                    /\ \A q \in Parents[Steps(p)[j]] :
                         q \in Resources /\ \E k \in 1 .. i - 1 : q = Steps(p)[k]
  BY DEF Had, Closed
<1>1. CASE p = "server"
  <2>1. Steps(p) = ServerSteps /\ Releases(p) = {ServerRelease[n] : n \in 1 .. 9}
    BY <1>1 DEF Steps, Releases, Release, ServerRelease
  <2>2. i \in 1 .. 19 /\ j \in 1 .. 18
    BY <2>1 DEF ServerSteps
  <2>3. ServerSteps[j] \in Releases(p)
    BY <2>1, <2>2 DEF ServerSteps, ServerRelease, Resources
  <2>4. ASSUME NEW q \in Parents[ServerSteps[j]]
        PROVE  q \in Resources /\ \E k \in 1 .. i - 1 : q = ServerSteps[k]
    BY <2>1, <2>2, <2>4 DEF ServerSteps, Parents, Resources
  <2> QED  BY <2>1, <2>3, <2>4
<1>2. CASE p = "client"
  <2>1. Steps(p) = ClientSteps /\ Releases(p) = {ClientRelease[n] : n \in 1 .. 8}
    BY <1>2 DEF Steps, Releases, Release, ClientRelease
  <2>2. i \in 1 .. 18 /\ j \in 1 .. 17
    BY <2>1 DEF ClientSteps
  <2>3. ClientSteps[j] \in Releases(p)
    BY <2>1, <2>2 DEF ClientSteps, ClientRelease, Resources
  <2>4. ASSUME NEW q \in Parents[ClientSteps[j]]
        PROVE  q \in Resources /\ \E k \in 1 .. i - 1 : q = ClientSteps[k]
    BY <2>1, <2>2, <2>4 DEF ClientSteps, Parents, Resources
  <2> QED  BY <2>1, <2>3, <2>4
<1> QED  BY <1>1, <1>2 DEF Process

\* Whatever was made from a resource is released before it.
LEMMA ReleaseOrder ==
  ASSUME NEW p \in Process, NEW i \in DOMAIN Release(p), NEW k \in DOMAIN Release(p),
         Release(p)[i] \in Parents[Release(p)[k]]
  PROVE  i \in Nat /\ k \in 1 .. i - 1
<1>1. CASE p = "server"
  <2>1. Release(p) = ServerRelease
    BY <1>1 DEF Release
  <2>2. i \in 1 .. 9 /\ k \in 1 .. 9
    BY <2>1 DEF ServerRelease
  <2> QED  BY <2>1, <2>2 DEF ServerRelease, Parents
<1>2. CASE p = "client"
  <2>1. Release(p) = ClientRelease
    BY <1>2 DEF Release
  <2>2. i \in 1 .. 8 /\ k \in 1 .. 8
    BY <2>1 DEF ClientRelease
  <2> QED  BY <2>1, <2>2 DEF ClientRelease, Parents
<1> QED  BY <1>1, <1>2 DEF Process

\* So what is left after a release is closed.
LEMMA ReleaseTidy ==
  ASSUME NEW p \in Process, NEW r \in held[p], FirstHeld(p, r),
         held[p] \subseteq Releases(p), Closed(held[p])
  PROVE  Closed(held[p] \ {r})
<1> SUFFICES ASSUME NEW s \in held[p] \ {r}
             PROVE  r \notin Parents[s]
  BY DEF Closed
<1>1. PICK i \in DOMAIN Release(p) :
        r = Release(p)[i] /\ \A j \in 1 .. i - 1 : Release(p)[j] \notin held[p]
  BY DEF FirstHeld
<1>2. PICK k \in DOMAIN Release(p) : s = Release(p)[k]
  BY DEF Releases
<1>3. k \notin 1 .. i - 1
  BY <1>1, <1>2
<1> QED  BY <1>1, <1>2, <1>3, ReleaseOrder

-----------------------------------------------------------------------------
(* The values of the variables *)
\* Where the server goes, step by step.
LEMMA ServerGoes ==
  ASSUME TypeOK, Advance("server")
  PROVE  /\ at'["client"] = at["client"]
         /\ at["server"] = "list" => at'["server"] = "ctx"
         /\ at["server"] = "ctx" => at'["server"] = "pd"
         /\ at["server"] = "pd" => at'["server"] = "cq"
         /\ at["server"] = "cq" => at'["server"] = "qp"
         /\ at["server"] = "qp" => at'["server"] = "init"
         /\ at["server"] = "init" => at'["server"] = "buf"
         /\ at["server"] = "buf" => at'["server"] = "mr"
         /\ at["server"] = "mr" => at'["server"] = "lsock"
         /\ at["server"] = "lsock" => at'["server"] = "listen"
         /\ at["server"] = "listen" => at'["server"] = "asock"
         /\ at["server"] = "asock" => at'["server"] = "tell"
         /\ at["server"] = "tell" => at'["server"] = "hear"
         /\ at["server"] = "hear" => at'["server"] = "rtr"
         /\ at["server"] = "rtr" => at'["server"] = "rts"
         /\ at["server"] = "rts" => at'["server"] = "post"
         /\ at["server"] = "post" => at'["server"] = "poll"
         /\ at["server"] = "poll" => at'["server"] = "sleep"
         /\ at["server"] = "sleep" => at'["server"] = "cleanup"
<1>1. at'["server"] = Following("server") /\ at'["client"] = at["client"]
  BY DEF TypeOK, Process, Advance
<1>2. ASSUME NEW i \in 1 .. 18, at["server"] = ServerSteps[i]
      PROVE  at'["server"] = ServerSteps[i + 1]
  <2>1. Steps("server") = ServerSteps /\ i \in DOMAIN ServerSteps /\ ServerSteps[i] # "cleanup"
    BY <1>2 DEF Steps, ServerSteps
  <2> QED  BY <1>1, <1>2, <2>1, StepFollows DEF Process
<1>3. /\ at["server"] = ServerSteps[1] => at'["server"] = ServerSteps[2]
      /\ at["server"] = ServerSteps[2] => at'["server"] = ServerSteps[3]
      /\ at["server"] = ServerSteps[3] => at'["server"] = ServerSteps[4]
      /\ at["server"] = ServerSteps[4] => at'["server"] = ServerSteps[5]
      /\ at["server"] = ServerSteps[5] => at'["server"] = ServerSteps[6]
      /\ at["server"] = ServerSteps[6] => at'["server"] = ServerSteps[7]
      /\ at["server"] = ServerSteps[7] => at'["server"] = ServerSteps[8]
      /\ at["server"] = ServerSteps[8] => at'["server"] = ServerSteps[9]
      /\ at["server"] = ServerSteps[9] => at'["server"] = ServerSteps[10]
      /\ at["server"] = ServerSteps[10] => at'["server"] = ServerSteps[11]
      /\ at["server"] = ServerSteps[11] => at'["server"] = ServerSteps[12]
      /\ at["server"] = ServerSteps[12] => at'["server"] = ServerSteps[13]
      /\ at["server"] = ServerSteps[13] => at'["server"] = ServerSteps[14]
      /\ at["server"] = ServerSteps[14] => at'["server"] = ServerSteps[15]
      /\ at["server"] = ServerSteps[15] => at'["server"] = ServerSteps[16]
      /\ at["server"] = ServerSteps[16] => at'["server"] = ServerSteps[17]
      /\ at["server"] = ServerSteps[17] => at'["server"] = ServerSteps[18]
      /\ at["server"] = ServerSteps[18] => at'["server"] = ServerSteps[19]
  BY <1>2
<1> QED  BY <1>1, <1>3 DEF ServerSteps

\* Where the client goes, step by step.
LEMMA ClientGoes ==
  ASSUME TypeOK, Advance("client")
  PROVE  /\ at'["server"] = at["server"]
         /\ at["client"] = "list" => at'["client"] = "ctx"
         /\ at["client"] = "ctx" => at'["client"] = "pd"
         /\ at["client"] = "pd" => at'["client"] = "cq"
         /\ at["client"] = "cq" => at'["client"] = "qp"
         /\ at["client"] = "qp" => at'["client"] = "init"
         /\ at["client"] = "init" => at'["client"] = "buf"
         /\ at["client"] = "buf" => at'["client"] = "mr"
         /\ at["client"] = "mr" => at'["client"] = "csock"
         /\ at["client"] = "csock" => at'["client"] = "connect"
         /\ at["client"] = "connect" => at'["client"] = "hear"
         /\ at["client"] = "hear" => at'["client"] = "tell"
         /\ at["client"] = "tell" => at'["client"] = "rtr"
         /\ at["client"] = "rtr" => at'["client"] = "rts"
         /\ at["client"] = "rts" => at'["client"] = "post"
         /\ at["client"] = "post" => at'["client"] = "poll"
         /\ at["client"] = "poll" => at'["client"] = "sleep"
         /\ at["client"] = "sleep" => at'["client"] = "cleanup"
<1>1. at'["client"] = Following("client") /\ at'["server"] = at["server"]
  BY DEF TypeOK, Process, Advance
<1>2. ASSUME NEW i \in 1 .. 17, at["client"] = ClientSteps[i]
      PROVE  at'["client"] = ClientSteps[i + 1]
  <2>1. Steps("client") = ClientSteps /\ i \in DOMAIN ClientSteps /\ ClientSteps[i] # "cleanup"
    BY <1>2 DEF Steps, ClientSteps
  <2> QED  BY <1>1, <1>2, <2>1, StepFollows DEF Process
<1>3. /\ at["client"] = ClientSteps[1] => at'["client"] = ClientSteps[2]
      /\ at["client"] = ClientSteps[2] => at'["client"] = ClientSteps[3]
      /\ at["client"] = ClientSteps[3] => at'["client"] = ClientSteps[4]
      /\ at["client"] = ClientSteps[4] => at'["client"] = ClientSteps[5]
      /\ at["client"] = ClientSteps[5] => at'["client"] = ClientSteps[6]
      /\ at["client"] = ClientSteps[6] => at'["client"] = ClientSteps[7]
      /\ at["client"] = ClientSteps[7] => at'["client"] = ClientSteps[8]
      /\ at["client"] = ClientSteps[8] => at'["client"] = ClientSteps[9]
      /\ at["client"] = ClientSteps[9] => at'["client"] = ClientSteps[10]
      /\ at["client"] = ClientSteps[10] => at'["client"] = ClientSteps[11]
      /\ at["client"] = ClientSteps[11] => at'["client"] = ClientSteps[12]
      /\ at["client"] = ClientSteps[12] => at'["client"] = ClientSteps[13]
      /\ at["client"] = ClientSteps[13] => at'["client"] = ClientSteps[14]
      /\ at["client"] = ClientSteps[14] => at'["client"] = ClientSteps[15]
      /\ at["client"] = ClientSteps[15] => at'["client"] = ClientSteps[16]
      /\ at["client"] = ClientSteps[16] => at'["client"] = ClientSteps[17]
      /\ at["client"] = ClientSteps[17] => at'["client"] = ClientSteps[18]
  BY <1>2
<1> QED  BY <1>1, <1>3 DEF ClientSteps

\* A program that goes on from a step of its own is at another of its own.
LEMMA GoesTyped ==
  ASSUME TypeOK, NEW p \in Process, Advance(p), at[p] \notin {"cleanup", "end", "killed"}
  PROVE  /\ at' \in [Process -> Places] /\ at'["server"] \notin {"csock", "connect"}
         /\ at'["client"] \notin {"lsock", "listen", "asock"}
<1>1. at \in [Process -> Places] /\ at' = [at EXCEPT ![p] = Following(p)]
  BY DEF TypeOK, Advance
<1>2. \A q \in Process : at[q] \in Places
  BY <1>1
<1>3. CASE p = "server"
  <2>1. at'["server"] \in Places \ {"csock", "connect"} /\ at'["client"] = at["client"]
    BY <1>2, <1>3, ServerGoes DEF Places, TypeOK, Process
  <2> QED  BY <1>1, <1>3, <2>1 DEF TypeOK, Process
<1>4. CASE p = "client"
  <2>1. at'["client"] \in Places \ {"lsock", "listen", "asock"} /\ at'["server"] = at["server"]
    BY <1>2, <1>4, ClientGoes DEF Places, TypeOK, Process
  <2> QED  BY <1>1, <1>4, <2>1 DEF TypeOK, Process
<1> QED  BY <1>3, <1>4 DEF Process

\* A program that leaves its way is in its cleanup, ended or killed.
LEMMA LeavesTyped ==
  ASSUME TypeOK, NEW p \in Process, NEW s \in {"cleanup", "end", "killed"},
         at' = [at EXCEPT ![p] = s]
  PROVE  /\ at' \in [Process -> Places] /\ at'["server"] \notin {"csock", "connect"}
         /\ at'["client"] \notin {"lsock", "listen", "asock"}
  BY DEF TypeOK, Places, Process

\* Every variable keeps its type, and no program comes to a step of the other.
THEOREM RdmaTypes == Spec => []TypeOK
<1>1. Init => TypeOK
  BY DEF Init, TypeOK, Places, Process
<1>2. TypeOK /\ [Next]_vars => TypeOK'
  <2> SUFFICES ASSUME TypeOK, [Next]_vars
               PROVE  TypeOK'
    OBVIOUS
  <2> DEFINE AtOK == /\ at' \in [Process -> Places] /\ at'["server"] \notin {"csock", "connect"}
                     /\ at'["client"] \notin {"lsock", "listen", "asock"}
  <2>1. ASSUME NEW p \in Process, Acquire(p)
        PROVE  TypeOK'
    <3>1. AtOK
      BY <2>1, GoesTyped DEF Acquire, Resources
    <3> QED  BY <2>1, <3>1 DEF Acquire, TypeOK
  <2>2. ASSUME NEW p \in Process, QpToInit(p) \/ QpToRtr(p) \/ QpToRts(p)
        PROVE  TypeOK'
    <3>1. PICK s \in {"init", "rtr", "rts"} : ModifyQp(p, s, s)
      BY <2>2 DEF QpToInit, QpToRtr, QpToRts
    <3>2. AtOK
      BY <3>1, GoesTyped DEF ModifyQp
    <3> QED  BY <3>1, <3>2 DEF ModifyQp, TypeOK
  <2>3. CASE Listen
    <3>1. AtOK
      BY <2>3, GoesTyped DEF Listen, Process
    <3> QED  BY <2>3, <3>1 DEF Listen, TypeOK
  <2>4. CASE Connect
    <3>1. AtOK
      BY <2>4, GoesTyped, LeavesTyped DEF Connect, Process
    <3> QED  BY <2>4, <3>1 DEF Connect, TypeOK
  <2>5. ASSUME NEW p \in Process, Tell(p)
        PROVE  TypeOK'
    <3>1. AtOK
      BY <2>5, GoesTyped, LeavesTyped DEF Tell
    <3> QED  BY <2>5, <3>1 DEF Tell, TypeOK
  <2>6. ASSUME NEW p \in Process, Hear(p)
        PROVE  TypeOK'
    <3>1. AtOK
      BY <2>6, GoesTyped DEF Hear
    <3> QED  BY <2>6, <3>1 DEF Hear, TypeOK
  <2>7. CASE PostRecv
    <3>1. AtOK
      BY <2>7, GoesTyped DEF PostRecv, Process
    <3> QED  BY <2>7, <3>1 DEF PostRecv, TypeOK
  <2>8. CASE PostSend
    <3>1. AtOK
      BY <2>8, GoesTyped DEF PostSend, Process
    <3> QED  BY <2>8, <3>1 DEF PostSend, TypeOK
  <2>9. ASSUME NEW p \in Process, Poll(p) \/ Sleep(p)
        PROVE  TypeOK'
    <3>1. AtOK
      BY <2>9, GoesTyped DEF Poll, Sleep
    <3> QED  BY <2>9, <3>1 DEF Poll, Sleep, TypeOK
  <2>10. ASSUME NEW p \in Process, Cleanup(p)
         PROVE  TypeOK'
    <3>1. PICK r \in held[p] :
            /\ held' = [held EXCEPT ![p] = @ \ {r}]
            /\ qp' = IF r = "qp" THEN [qp EXCEPT ![p] = "none"] ELSE qp
            /\ conn' = IF r = "lsock" /\ conn = "queued" THEN "reset" ELSE conn
      BY <2>10 DEF Cleanup
    <3>2. held' \in [Process -> SUBSET Resources]
      BY <3>1 DEF TypeOK
    <3> QED  BY <2>10, <3>1, <3>2 DEF Cleanup, TypeOK
  <2>11. ASSUME NEW p \in Process, CleanupEnds(p)
         PROVE  TypeOK'
    <3>1. AtOK
      BY <2>11, LeavesTyped DEF CleanupEnds
    <3> QED  BY <2>11, <3>1 DEF CleanupEnds, TypeOK
  <2>12. ASSUME NEW p \in Process, Trouble(p)
         PROVE  TypeOK'
    <3>1. AtOK
      BY <2>12, LeavesTyped DEF Trouble, NoDevice, EmptyList, Fail, Kill
    <3>2. {"list"} \subseteq Resources
      BY DEF Resources
    <3> QED  BY <2>12, <3>1, <3>2 DEF Trouble, NoDevice, EmptyList, Fail, Kill, TypeOK
  <2>13. CASE Adapter \/ TimedOut
    BY <2>13 DEF Adapter, Deliver, Acknowledge, TimedOut, TypeOK
  <2>14. CASE UNCHANGED vars
    BY <2>14 DEF vars, TypeOK
  <2> QED
    BY <2>1, <2>2, <2>3, <2>4, <2>5, <2>6, <2>7, <2>8, <2>9, <2>10, <2>11, <2>12, <2>13, <2>14
       DEF Next, Run
<1> QED  BY <1>1, <1>2, PTL DEF Spec

-----------------------------------------------------------------------------
(* What is held, step by step *)

\* Nothing changes for a program that does not move.
LEMMA HeldStays ==
  ASSUME NEW p \in Process, HeldBy(p), at'[p] = at[p], held'[p] = held[p], failed \subseteq failed'
  PROVE  HeldBy(p)'
  BY DEF HeldBy, OnWay, Tidy, Empty, Gone

\* A program that goes on has what the step made, if it made something.
LEMMA HeldGrows ==
  ASSUME TypeOK, NEW p \in Process, HeldBy(p), Advance(p),
         at[p] \notin {"cleanup", "end", "killed"},
         held'[p] = held[p] \cup ({at[p]} \cap Resources)
  PROVE  HeldBy(p)'
<1>1. PICK i \in DOMAIN Steps(p) : at[p] = Steps(p)[i] /\ held[p] = Had(p, i)
  BY DEF HeldBy, OnWay
<1>2. i + 1 \in DOMAIN Steps(p) /\ Following(p) = Steps(p)[i + 1]
  BY <1>1, StepFollows
<1>3. at'[p] = Steps(p)[i + 1]
  BY <1>2 DEF Advance, TypeOK
<1>4. i \in Nat \ {0}
  BY <1>1, StepsEnd
<1>5. held'[p] = Had(p, i + 1)
  <2>1. 1 .. (i + 1) - 1 = (1 .. i - 1) \cup {i}
    BY <1>4
  <2> QED  BY <1>1, <2>1 DEF Had
<1>6. at'[p] \notin {"end", "killed"}
  BY <1>2, <1>3 DEF Process, Steps, ServerSteps, ClientSteps
<1>7. held'[p] \subseteq Releases(p) /\ Closed(held'[p])
  BY <1>2, <1>5, HadClosed
<1> QED  BY <1>2, <1>3, <1>5, <1>6, <1>7 DEF HeldBy, OnWay, Tidy, Empty, Gone

\* A program that jumps to its cleanup has what the steps before made.
LEMMA HeldWhenFailing ==
  ASSUME TypeOK, NEW p \in Process, HeldBy(p), at[p] \notin {"cleanup", "end", "killed"},
         at'[p] = "cleanup", held'[p] = held[p]
  PROVE  HeldBy(p)'
<1>1. held[p] \subseteq Releases(p) /\ Closed(held[p])
  BY HadClosed DEF HeldBy, OnWay
<1> QED  BY <1>1 DEF HeldBy, OnWay, Tidy, Empty, Gone

\* A release leaves the rest closed.
LEMMA HeldShrinks ==
  ASSUME TypeOK, NEW p \in Process, HeldBy(p), Cleanup(p)
  PROVE  HeldBy(p)'
<1>1. PICK r \in held[p] : FirstHeld(p, r) /\ held' = [held EXCEPT ![p] = @ \ {r}]
  BY DEF Cleanup
<1>2. at'[p] = "cleanup" /\ held'[p] = held[p] \ {r}
  BY <1>1 DEF Cleanup, TypeOK
<1>3. held[p] \subseteq Releases(p) /\ Closed(held[p])
  BY DEF HeldBy, Tidy, Cleanup
<1>4. Closed(held[p] \ {r})
  BY <1>1, <1>3, ReleaseTidy
<1> QED  BY <1>2, <1>3, <1>4 DEF HeldBy, OnWay, Tidy, Empty, Gone

\* Nothing is left when the cleanup ends.
LEMMA HeldAtEnd ==
  ASSUME TypeOK, NEW p \in Process, HeldBy(p), CleanupEnds(p)
  PROVE  HeldBy(p)'
<1>1. held[p] = {}
  BY DEF HeldBy, Tidy, CleanupEnds, Releases
<1>2. at'[p] = "end" /\ held'[p] = held[p]
  BY DEF CleanupEnds, TypeOK
<1> QED  BY <1>1, <1>2 DEF HeldBy, OnWay, Tidy, Empty, Gone

\* A killed program holds nothing.
LEMMA HeldWhenKilled ==
  ASSUME NEW p \in Process, at'[p] = "killed", held'[p] = {}
  PROVE  HeldBy(p)'
  BY DEF HeldBy, OnWay, Tidy, Empty, Gone

\* Without a device the program ends at once; an empty list is not freed.
LEMMA HeldWithoutDevice ==
  ASSUME TypeOK, NEW p \in Process, HeldBy(p), NoDevice(p) \/ EmptyList(p)
  PROVE  HeldBy(p)'
<1>1. PICK i \in DOMAIN Steps(p) : at[p] = Steps(p)[i] /\ held[p] = Had(p, i)
  BY DEF HeldBy, OnWay, NoDevice, EmptyList
<1>2. 1 \in DOMAIN Steps(p) /\ Steps(p)[1] = "list"
  BY DEF Process, Steps, ServerSteps, ClientSteps
<1>3. i = 1
  BY <1>1, <1>2, StepsDiffer DEF NoDevice, EmptyList
<1>4. held[p] = {}
  BY <1>1, <1>3 DEF Had
<1>5. at'[p] = "end"
  BY DEF NoDevice, EmptyList, TypeOK
<1>6. CASE NoDevice(p)
  <2>1. held'[p] = {}
    BY <1>4, <1>6 DEF NoDevice
  <2> QED  BY <1>5, <2>1 DEF HeldBy, OnWay, Tidy, Empty, Gone
<1>7. CASE EmptyList(p)
  <2>1. held'[p] = {"list"} /\ <<p, "empty">> \in failed'
    BY <1>7 DEF EmptyList, TypeOK
  <2> QED  BY <1>5, <2>1 DEF HeldBy, OnWay, Tidy, Empty, Gone
<1> QED  BY <1>6, <1>7

\* A program starts with nothing.
LEMMA HeldInit ==
  ASSUME Init
  PROVE  HeldInv
<1> SUFFICES ASSUME NEW p \in Process
             PROVE  HeldBy(p)
  BY DEF HeldInv
<1>1. at[p] = "list" /\ held[p] = {}
  BY DEF Init
<1>2. 1 \in DOMAIN Steps(p) /\ Steps(p)[1] = "list"
  BY DEF Process, Steps, ServerSteps, ClientSteps
<1>3. Had(p, 1) = {}
  BY DEF Had
<1> QED  BY <1>1, <1>2, <1>3 DEF HeldBy, OnWay, Tidy, Empty, Gone

\* HeldInv is kept by every step.
LEMMA HeldStep ==
  ASSUME TypeOK, HeldInv, [Next]_vars
  PROVE  HeldInv'
<1> SUFFICES ASSUME NEW q \in Process
             PROVE  HeldBy(q)'
  BY DEF HeldInv
<1>1. HeldBy(q)
  BY DEF HeldInv
<1>2. ASSUME at'[q] = at[q], held'[q] = held[q], failed \subseteq failed'
      PROVE  HeldBy(q)'
  BY <1>1, <1>2, HeldStays
<1>3. ASSUME NEW p \in Process, Acquire(p)
      PROVE  HeldBy(q)'
  <2>1. CASE p = q
    <3>1. Advance(p) /\ at[p] \notin {"cleanup", "end", "killed"}
      BY <1>3 DEF Acquire, Resources
    <3>2. held'[p] = held[p] \cup {at[p]} /\ at[p] \in Resources
      BY <1>3 DEF Acquire, TypeOK
    <3>3. held'[p] = held[p] \cup ({at[p]} \cap Resources)
      BY <3>2
    <3> QED  BY <1>1, <2>1, <3>1, <3>3, HeldGrows
  <2>2. CASE p # q
    BY <1>2, <1>3, <2>2 DEF Acquire, Advance, TypeOK
  <2> QED  BY <2>1, <2>2
<1>4. ASSUME NEW p \in Process, Advance(p), UNCHANGED held, failed \subseteq failed',
             at[p] \notin Resources \cup {"cleanup", "end", "killed"}
      PROVE  HeldBy(q)'
  <2>1. CASE p = q
    <3>1. held'[q] = held[q] \cup ({at[q]} \cap Resources)
      BY <1>4, <2>1
    <3> QED  BY <1>1, <1>4, <2>1, <3>1, HeldGrows
  <2>2. CASE p # q
    BY <1>2, <1>4, <2>2 DEF Advance, TypeOK
  <2> QED  BY <2>1, <2>2
<1>5. ASSUME NEW p \in Process, at' = [at EXCEPT ![p] = "cleanup"], UNCHANGED held,
             failed \subseteq failed', at[p] \notin {"cleanup", "end", "killed"}
      PROVE  HeldBy(q)'
  <2>1. CASE p = q
    <3>1. at'[q] = "cleanup" /\ held'[q] = held[q]
      BY <1>5, <2>1 DEF TypeOK
    <3> QED  BY <1>1, <1>5, <2>1, <3>1, HeldWhenFailing
  <2>2. CASE p # q
    BY <1>2, <1>5, <2>2 DEF TypeOK
  <2> QED  BY <2>1, <2>2
<1>6. ASSUME NEW p \in Process, at' = [at EXCEPT ![p] = "killed"],
             held' = [held EXCEPT ![p] = {}], failed \subseteq failed'
      PROVE  HeldBy(q)'
  <2>1. CASE p = q
    BY <1>6, <2>1, HeldWhenKilled DEF TypeOK
  <2>2. CASE p # q
    BY <1>2, <1>6, <2>2 DEF TypeOK
  <2> QED  BY <2>1, <2>2
<1>7. ASSUME NEW p \in Process, QpToInit(p) \/ QpToRtr(p) \/ QpToRts(p) \/ Hear(p) \/ Poll(p)
             \/ Sleep(p)
      PROVE  HeldBy(q)'
  BY <1>4, <1>7 DEF QpToInit, QpToRtr, QpToRts, ModifyQp, Hear, Poll, Sleep, Resources
<1>8. CASE Listen \/ PostRecv
  BY <1>4, <1>8 DEF Listen, PostRecv, Resources, Process
<1>9. CASE PostSend
  BY <1>4, <1>9 DEF PostSend, Resources, Process
<1>10. CASE Connect
  BY <1>4, <1>5, <1>10 DEF Connect, Resources, Process
<1>11. ASSUME NEW p \in Process, Tell(p)
       PROVE  HeldBy(q)'
  BY <1>4, <1>6, <1>11 DEF Tell, Resources
<1>12. ASSUME NEW p \in Process, Cleanup(p)
       PROVE  HeldBy(q)'
  <2>1. CASE p = q
    BY <1>1, <1>12, <2>1, HeldShrinks
  <2>2. CASE p # q
    BY <1>2, <1>12, <2>2 DEF Cleanup, TypeOK
  <2> QED  BY <2>1, <2>2
<1>13. ASSUME NEW p \in Process, CleanupEnds(p)
       PROVE  HeldBy(q)'
  <2>1. CASE p = q
    BY <1>1, <1>13, <2>1, HeldAtEnd
  <2>2. CASE p # q
    BY <1>2, <1>13, <2>2 DEF CleanupEnds, TypeOK
  <2> QED  BY <2>1, <2>2
<1>14. ASSUME NEW p \in Process, NoDevice(p) \/ EmptyList(p)
       PROVE  HeldBy(q)'
  <2>1. CASE p = q
    BY <1>1, <1>14, <2>1, HeldWithoutDevice
  <2>2. CASE p # q
    BY <1>2, <1>14, <2>2 DEF NoDevice, EmptyList, TypeOK
  <2> QED  BY <2>1, <2>2
<1>15. ASSUME NEW p \in Process, Fail(p)
       PROVE  HeldBy(q)'
  <2>1. at[p] \notin {"cleanup", "end", "killed"}
    BY <1>15, RdmaAssumption DEF Fail
  <2> QED  BY <1>5, <1>15, <2>1 DEF Fail
<1>16. ASSUME NEW p \in Process, Kill(p)
       PROVE  HeldBy(q)'
  BY <1>6, <1>16 DEF Kill
<1>17. CASE Adapter \/ TimedOut
  BY <1>2, <1>17 DEF Adapter, Deliver, Acknowledge, TimedOut
<1>18. CASE UNCHANGED vars
  BY <1>2, <1>18 DEF vars
<1> QED
  BY <1>3, <1>7, <1>8, <1>9, <1>10, <1>11, <1>12, <1>13, <1>14, <1>15, <1>16, <1>17, <1>18
     DEF Next, Run, Trouble

\* What a program holds is closed, wherever it is.
LEMMA HeldIsTidy ==
  ASSUME TypeOK, HeldInv
  PROVE  ReleasedInOrder
<1> SUFFICES ASSUME NEW p \in Process
             PROVE  /\ \A r \in held[p] : Parents[r] \subseteq held[p]
                    /\ Gone(p) /\ <<p, "empty">> \notin failed => held[p] = {}
  BY DEF ReleasedInOrder
<1>1. OnWay(p) /\ Tidy(p) /\ Empty(p)
  BY DEF HeldInv, HeldBy
<1>2. Closed(held[p])
  <2>1. CASE at[p] \notin {"cleanup", "end", "killed"}
    BY <1>1, <2>1, HadClosed DEF OnWay
  <2>2. CASE at[p] = "cleanup"
    BY <1>1, <2>2 DEF Tidy
  <2>3. CASE Gone(p)
    <3>1. held[p] = {} \/ held[p] = {"list"}
      BY <1>1, <2>3 DEF Empty
    <3>2. Parents["list"] = {}
      BY DEF Parents
    <3> QED  BY <3>1, <3>2 DEF Closed
  <2> QED  BY <2>1, <2>2, <2>3 DEF Gone
<1> QED  BY <1>1, <1>2 DEF Closed, Empty

\* Wherever a program fails, its cleanup releases a resource only after those made
\* from it, and leaves nothing (rdma_server.c:281-294, rdma_client.c:271-283).
THEOREM CleanupInOrder == Spec => []ReleasedInOrder
<1>1. Init => HeldInv
  BY HeldInit
<1>2. TypeOK /\ HeldInv /\ [Next]_vars => HeldInv'
  BY HeldStep
<1>3. TypeOK /\ HeldInv => ReleasedInOrder
  BY HeldIsTidy
<1> QED  BY <1>1, <1>2, <1>3, RdmaTypes, PTL DEF Spec

-----------------------------------------------------------------------------
(* The two ends of the message *)

\* Nothing is sent at first.
LEMMA MessageInit ==
  ASSUME Init
  PROVE  MessageInv
  BY DEF Init, MessageInv, QpOnWay, ReportsAgree, Process

\* MessageInv is kept while the server goes from step to step.
LEMMA ServerWalks ==
  ASSUME TypeOK, MessageInv, Advance("server"),
         at["server"] \notin {"poll", "sleep", "cleanup", "end", "killed"},
         UNCHANGED <<wire, wc>>, recvs' <=> at["server"] = "post" \/ recvs,
         failed \subseteq failed',
         qp'["client"] = qp["client"], QpOnWay("server")'
  PROVE  MessageInv'
<1>1. at'["client"] = at["client"] /\ at'["server"] \notin {"sleep", "cleanup", "end", "killed"}
      /\ (at'["server"] = "poll" <=> at["server"] = "post")
  BY ServerGoes DEF TypeOK, Places, Process
<1>2. ~recvs
  BY DEF MessageInv
<1> QED  BY <1>1, <1>2 DEF MessageInv, QpOnWay, ReportsAgree

\* And while the client does.
LEMMA ClientWalks ==
  ASSUME TypeOK, MessageInv, Advance("client"), at["client"] \notin {"cleanup", "end", "killed"},
         UNCHANGED <<recvs, wc>>, failed \subseteq failed',
         wire' = wire \/ (wire' = "sent" /\ wire = "none" /\ at["client"] = "post"),
         qp'["server"] = qp["server"], QpOnWay("client")',
         wire # "none" => qp'["client"] = qp["client"]
  PROVE  MessageInv'
<1>1. /\ at'["server"] = at["server"]
      /\ at["client"] \in {"post", "poll", "sleep"}
           => at'["client"] \in {"poll", "sleep", "cleanup"}
  BY ClientGoes
<1> QED  BY <1>1 DEF MessageInv, QpOnWay, ReportsAgree

\* A program that leaves its way for the cleanup or the end, not from its sleep.
LEMMA LeavesQuietly ==
  ASSUME TypeOK, MessageInv, NEW p \in Process, NEW s \in {"cleanup", "end"},
         at' = [at EXCEPT ![p] = s], at[p] \notin {"poll", "sleep", "end", "killed"},
         UNCHANGED <<wire, recvs, wc, qp>>, failed \subseteq failed'
  PROVE  MessageInv'
<1>1. CASE p = "server"
  <2>1. at'["server"] = s /\ at'["client"] = at["client"]
    BY <1>1 DEF TypeOK, Process
  <2> QED  BY <1>1, <2>1 DEF MessageInv, QpOnWay, ReportsAgree
<1>2. CASE p = "client"
  <2>1. at'["client"] = s /\ at'["server"] = at["server"]
    BY <1>2 DEF TypeOK, Process
  <2> QED  BY <1>2, <2>1 DEF MessageInv, QpOnWay, ReportsAgree
<1> QED  BY <1>1, <1>2 DEF Process

\* MessageInv is kept by every step.
LEMMA MessageStep ==
  ASSUME TypeOK, MessageInv, [Next]_vars
  PROVE  MessageInv'
<1>1. ASSUME NEW p \in Process, Acquire(p)
      PROVE  MessageInv'
  <2>1. at[p] \notin {"poll", "sleep", "cleanup", "end", "killed", "post", "rtr", "rts", "init"}
    BY <1>1 DEF Acquire, Resources
  <2>2. CASE p = "server"
    <3>1. QpOnWay("server")' /\ qp'["client"] = qp["client"]
      BY <1>1, <2>1, <2>2, ServerGoes DEF Acquire, Resources, TypeOK, MessageInv, QpOnWay, Process
    <3> QED  BY <1>1, <2>1, <2>2, <3>1, ServerWalks DEF Acquire
  <2>3. CASE p = "client"
    <3>1. QpOnWay("client")' /\ qp'["server"] = qp["server"]
      BY <1>1, <2>1, <2>3, ClientGoes DEF Acquire, Resources, TypeOK, MessageInv, QpOnWay, Process
    <3>2. wire = "none"
      BY <2>1, <2>3 DEF MessageInv
    <3> QED  BY <1>1, <2>1, <2>3, <3>1, <3>2, ClientWalks DEF Acquire
  <2> QED  BY <2>2, <2>3 DEF Process
<1>2. ASSUME NEW p \in Process, QpToInit(p) \/ QpToRtr(p) \/ QpToRts(p)
      PROVE  MessageInv'
  <2>1. CASE p = "server"
    <3>1. QpOnWay("server")' /\ qp'["client"] = qp["client"]
      BY <1>2, <2>1, ServerGoes
         DEF QpToInit, QpToRtr, QpToRts, ModifyQp, TypeOK, QpOnWay, Process
    <3> QED  BY <1>2, <2>1, <3>1, ServerWalks DEF QpToInit, QpToRtr, QpToRts, ModifyQp
  <2>2. CASE p = "client"
    <3>1. QpOnWay("client")' /\ qp'["server"] = qp["server"]
      BY <1>2, <2>2, ClientGoes
         DEF QpToInit, QpToRtr, QpToRts, ModifyQp, TypeOK, QpOnWay, Process
    <3>2. wire = "none"
      BY <1>2, <2>2 DEF QpToInit, QpToRtr, QpToRts, ModifyQp, MessageInv
    <3> QED  BY <1>2, <2>2, <3>1, <3>2, ClientWalks DEF QpToInit, QpToRtr, QpToRts, ModifyQp
  <2> QED  BY <2>1, <2>2 DEF Process
<1>3. CASE Listen \/ PostRecv
  <2>1. QpOnWay("server")'
    BY <1>3, ServerGoes DEF Listen, PostRecv, MessageInv, QpOnWay
  <2> QED  BY <1>3, <2>1, ServerWalks DEF Listen, PostRecv
<1>4. CASE Connect
  <2>1. CASE Advance("client")
    <3>1. QpOnWay("client")'
      BY <1>4, <2>1, ClientGoes DEF Connect, MessageInv, QpOnWay
    <3> QED  BY <1>4, <2>1, <3>1, ClientWalks DEF Connect
  <2>2. CASE at' = [at EXCEPT !["client"] = "cleanup"]
    BY <1>4, <2>2, LeavesQuietly DEF Connect, Process
  <2> QED  BY <1>4, <2>1, <2>2 DEF Connect
<1>5. CASE PostSend
  <2>1. QpOnWay("client")'
    BY <1>5, ClientGoes DEF PostSend, MessageInv, QpOnWay
  <2>2. wire = "none"
    BY <1>5 DEF PostSend, MessageInv
  <2> QED  BY <1>5, <2>1, <2>2, ClientWalks DEF PostSend
<1>6. ASSUME NEW p \in Process, Hear(p) \/ (Tell(p) /\ Advance(p) /\ UNCHANGED <<qp, failed>>)
      PROVE  MessageInv'
  <2>1. CASE p = "server"
    <3>1. QpOnWay("server")'
      BY <1>6, <2>1, ServerGoes DEF Hear, Tell, MessageInv, QpOnWay
    <3> QED  BY <1>6, <2>1, <3>1, ServerWalks DEF Hear, Tell
  <2>2. CASE p = "client"
    <3>1. QpOnWay("client")'
      BY <1>6, <2>2, ClientGoes DEF Hear, Tell, MessageInv, QpOnWay
    <3> QED  BY <1>6, <2>2, <3>1, ClientWalks DEF Hear, Tell
  <2> QED  BY <2>1, <2>2 DEF Process
<1>7. ASSUME NEW p \in Process, at' = [at EXCEPT ![p] = "killed"], qp' = [qp EXCEPT ![p] = "none"],
             UNCHANGED <<wire, recvs, wc>>, failed \subseteq failed',
             p = "server" => <<"server", "killed">> \in failed'
      PROVE  MessageInv'
  <2>1. CASE p = "server"
    <3>1. /\ at'["server"] = "killed" /\ at'["client"] = at["client"]
          /\ qp'["client"] = qp["client"]
      BY <1>7, <2>1 DEF TypeOK, Process
    <3> QED  BY <1>7, <2>1, <3>1 DEF MessageInv, QpOnWay, ReportsAgree
  <2>2. CASE p = "client"
    <3>1. /\ at'["client"] = "killed" /\ at'["server"] = at["server"]
          /\ qp'["client"] = "none" /\ qp'["server"] = qp["server"]
      BY <1>7, <2>2 DEF TypeOK, Process
    <3> QED  BY <1>7, <2>2, <3>1 DEF MessageInv, QpOnWay, ReportsAgree
  <2> QED  BY <2>1, <2>2 DEF Process
<1>8. ASSUME NEW p \in Process, Tell(p) \/ Kill(p)
      PROVE  MessageInv'
  BY <1>6, <1>7, <1>8 DEF Tell, Kill
<1>9. ASSUME NEW p \in Process, Poll(p) \/ Sleep(p)
      PROVE  MessageInv'
  <2>1. CASE p = "server"
    <3>1. /\ at'["client"] = at["client"]
          /\ (at["server"] = "poll" /\ at'["server"] = "sleep")
               \/ (at["server"] = "sleep" /\ at'["server"] = "cleanup")
      BY <1>9, <2>1, ServerGoes DEF Poll, Sleep
    <3> QED  BY <1>9, <2>1, <3>1 DEF Poll, Sleep, MessageInv, QpOnWay, ReportsAgree
  <2>2. CASE p = "client"
    <3>1. QpOnWay("client")'
      BY <1>9, <2>2, ClientGoes DEF Poll, Sleep, MessageInv, QpOnWay
    <3> QED  BY <1>9, <2>2, <3>1, ClientWalks DEF Poll, Sleep
  <2> QED  BY <2>1, <2>2 DEF Process
<1>10. ASSUME NEW p \in Process, Cleanup(p)
       PROVE  MessageInv'
  <2>1. qp' = qp \/ qp' = [qp EXCEPT ![p] = "none"]
    BY <1>10 DEF Cleanup
  <2>2. at[p] = "cleanup" /\ UNCHANGED <<at, wire, recvs, wc, failed>>
    BY <1>10 DEF Cleanup
  <2>3. /\ qp'["client"] \in {qp["client"], "none"}
        /\ at["server"] # "cleanup" => qp'["server"] = qp["server"]
        /\ at["client"] # "cleanup" => qp'["client"] = qp["client"]
    BY <2>1, <2>2 DEF TypeOK, Process
  <2> QED  BY <2>2, <2>3 DEF MessageInv, QpOnWay, ReportsAgree
<1>11. ASSUME NEW p \in Process, CleanupEnds(p) \/ NoDevice(p) \/ EmptyList(p) \/ Fail(p)
       PROVE  MessageInv'
  <2>1. PICK s \in {"cleanup", "end"} : at' = [at EXCEPT ![p] = s]
    BY <1>11 DEF CleanupEnds, NoDevice, EmptyList, Fail
  <2>2. at[p] \notin {"poll", "sleep", "end", "killed"}
    BY <1>11, RdmaAssumption DEF CleanupEnds, NoDevice, EmptyList, Fail
  <2>3. UNCHANGED <<wire, recvs, wc, qp>> /\ failed \subseteq failed'
    BY <1>11 DEF CleanupEnds, NoDevice, EmptyList, Fail
  <2> QED  BY <2>1, <2>2, <2>3, LeavesQuietly
<1>12. CASE Deliver
  BY <1>12 DEF Deliver, MessageInv, QpOnWay, ReportsAgree, TypeOK, Process
<1>13. CASE Acknowledge
  BY <1>13 DEF Acknowledge, MessageInv, QpOnWay, ReportsAgree, TypeOK, Process
<1>14. CASE TimedOut
  <2>1. /\ wire # "none" /\ qp["client"] = "rts" /\ wc["client"] = "none"
        /\ wire = "sent" \/ (wire = "delivered" /\ qp["server"] = "none")
    BY <1>14 DEF TimedOut
  <2>2. wire = "delivered" => at["server"] = "killed"
    BY <2>1 DEF MessageInv, QpOnWay
  <2>3. /\ wc'["client"] = "error" /\ wc'["server"] = wc["server"] /\ failed \subseteq failed'
        /\ UNCHANGED <<at, qp, wire, recvs>>
    BY <1>14 DEF TimedOut, TypeOK, Process
  <2> QED  BY <2>1, <2>2, <2>3 DEF MessageInv, QpOnWay, ReportsAgree
<1>15. CASE UNCHANGED vars
  BY <1>15 DEF vars, MessageInv, QpOnWay, ReportsAgree
<1> QED
  BY <1>1, <1>2, <1>3, <1>4, <1>5, <1>6, <1>8, <1>9, <1>10, <1>11, <1>12, <1>13, <1>14, <1>15
     DEF Next, Run, Trouble, Adapter

\* What the two programs print of the message agrees, unless the server is killed
\* between the message and its acknowledgement (the sleep before the cleanup).
THEOREM ReportsOfTheMessageAgree == Spec => []ReportsAgree
<1>1. Init => MessageInv
  BY MessageInit
<1>2. TypeOK /\ MessageInv /\ [Next]_vars => MessageInv'
  BY MessageStep
<1>3. MessageInv => ReportsAgree
  BY DEF MessageInv
<1> QED  BY <1>1, <1>2, <1>3, RdmaTypes, PTL DEF Spec

-----------------------------------------------------------------------------
(* As long as nothing has failed *)

\* A listening server has made its socket and called listen.
LEMMA ListeningPlace ==
  ASSUME TypeOK, HeldInv, Listening
  PROVE  at["server"] \notin {"list", "ctx", "pd", "cq", "qp", "init", "buf", "mr", "lsock",
                              "listen", "end", "killed"}
<1>1. "lsock" \in held["server"] /\ at["server"] \notin {"lsock", "listen"}
  BY DEF Listening
<1>2. OnWay("server") /\ Empty("server")
  BY DEF HeldInv, HeldBy, Process
<1>3. ~Gone("server")
  BY <1>1, <1>2 DEF Empty
<1>4. ASSUME NEW i \in 1 .. 8, at["server"] = ServerSteps[i]
      PROVE  FALSE
  <2>1. Steps("server") = ServerSteps /\ DOMAIN ServerSteps = 1 .. 19
    BY DEF Steps, ServerSteps
  <2>2. at["server"] \notin {"cleanup", "end", "killed"}
    BY <1>4 DEF ServerSteps
  <2>3. PICK k \in DOMAIN Steps("server") :
          at["server"] = Steps("server")[k] /\ held["server"] = Had("server", k)
    BY <1>2, <2>2 DEF OnWay
  <2>4. k = i
    <3>1. i \in DOMAIN Steps("server")
      <4>1. i \in 1 .. 19
        OBVIOUS
      <4> QED  BY <2>1, <4>1
    <3>2. Steps("server")[k] = Steps("server")[i]
      <4>1. ServerSteps[i] = Steps("server")[i]
        BY <2>1, Zenon
      <4> QED  BY <1>4, <2>3, <4>1
    <3>3. "server" \in Process
      BY DEF Process
    <3> QED  BY <3>1, <3>2, <3>3, StepsDiffer
  <2>5. PICK j \in 1 .. i - 1 : ServerSteps[j] = "lsock"
    BY <1>1, <2>1, <2>3, <2>4 DEF Had
  <2> QED  BY <2>5 DEF ServerSteps
<1>5. \A i \in 1 .. 8 : at["server"] # ServerSteps[i]
  BY <1>4
<1>6. /\ at["server"] # ServerSteps[1] /\ at["server"] # ServerSteps[2]
      /\ at["server"] # ServerSteps[3] /\ at["server"] # ServerSteps[4]
      /\ at["server"] # ServerSteps[5] /\ at["server"] # ServerSteps[6]
      /\ at["server"] # ServerSteps[7] /\ at["server"] # ServerSteps[8]
  BY <1>5
<1> QED  BY <1>1, <1>3, <1>6 DEF ServerSteps, Gone

\* As long as nothing has failed the client's send cannot fail either: its server
\* is there, is ready or is late, and knows it.
LEMMA NoEarlyTimeout ==
  ASSUME TypeOK, MessageInv, Smooth, TimedOut
  PROVE  failed' # {}
<1>1. /\ wire # "none" /\ qp["client"] = "rts" /\ wc["client"] = "none"
      /\ \/ wire = "sent" /\ ~(qp["server"] \in {"rtr", "rts"} /\ Paired)
         \/ wire = "delivered" /\ qp["server"] = "none"
  BY DEF TimedOut, RnrRetry
<1>2. at["client"] \in {"poll", "sleep", "cleanup", "end"}
  BY <1>1 DEF MessageInv, Smooth
<1>3. at["server"] \in {"asock", "tell", "hear", "rtr", "rts", "post", "poll", "sleep", "cleanup",
                        "end"}
  BY <1>2 DEF Smooth, TypeOK, Places, Process
<1>4. wire = "sent"
  BY <1>1, <1>3 DEF MessageInv, QpOnWay
<1>5. at["server"] \in {"asock", "tell", "hear", "rtr", "rts", "post", "poll"}
  BY <1>3, <1>4 DEF MessageInv, Smooth
<1>6. at["server"] \in {"rts", "post", "poll"} => Paired
  BY <1>2 DEF Smooth, Paired
<1>7. qp["server"] = "init"
  BY <1>1, <1>4, <1>5, <1>6 DEF MessageInv, QpOnWay
<1> QED  BY <1>7 DEF TimedOut

\* Smooth is kept by every step after which nothing has failed.
LEMMA SmoothStep ==
  ASSUME TypeOK, HeldInv, MessageInv, SmoothInv, [Next]_vars
  PROVE  SmoothInv'
<1> SUFFICES ASSUME failed' = {}
             PROVE  Smooth'
  BY DEF SmoothInv
<1>1. failed \subseteq failed'
  BY DEF Next, vars, Run, Trouble, Adapter, Acquire, QpToInit, QpToRtr, QpToRts, ModifyQp, Tell,
         Hear, Poll, Sleep, Cleanup, CleanupEnds, Listen, PostRecv, Connect, PostSend, NoDevice,
         EmptyList, Fail, Kill, Deliver, Acknowledge, TimedOut
<1>2. failed = {} /\ Smooth
  BY <1>1 DEF SmoothInv
<1>3. at["server"] \in Places /\ at["client"] \in Places
  BY DEF TypeOK, Process
<1>4. ASSUME NEW p \in Process, Acquire(p)
      PROVE  Smooth'
  <2>1. CASE p = "server"
    BY <1>2, <1>4, <2>1, ServerGoes DEF Acquire, Resources, Smooth, TypeOK
  <2>2. CASE p = "client"
    BY <1>2, <1>4, <2>2, ClientGoes DEF Acquire, Resources, Smooth, TypeOK
  <2> QED  BY <2>1, <2>2 DEF Process
<1>5. ASSUME NEW p \in Process, QpToInit(p) \/ QpToRtr(p) \/ QpToRts(p)
      PROVE  Smooth'
  <2>1. at[p] \in {"init", "rtr", "rts"} /\ Advance(p)
        /\ UNCHANGED <<conn, sent, remote, recvs, wc>>
    BY <1>5 DEF QpToInit, QpToRtr, QpToRts, ModifyQp
  <2>2. CASE p = "server"
    BY <1>2, <2>1, <2>2, ServerGoes DEF Smooth
  <2>3. CASE p = "client"
    BY <1>2, <2>1, <2>3, ClientGoes DEF Smooth
  <2> QED  BY <2>2, <2>3 DEF Process
<1>6. CASE Listen \/ PostRecv
  BY <1>2, <1>6, ServerGoes DEF Listen, PostRecv, Smooth
<1>7. CASE Connect
  <2>1. Listening /\ at["client"] = "connect" /\ Advance("client") /\ conn' = "queued"
        /\ UNCHANGED <<remote, sent, recvs, wc>>
    BY <1>7 DEF Connect
  <2>2. at["server"] \notin {"list", "ctx", "pd", "cq", "qp", "init", "buf", "mr", "lsock",
                             "listen", "end", "killed"}
    BY <2>1, ListeningPlace
  <2> QED  BY <1>2, <2>1, <2>2, ClientGoes DEF Smooth
<1>8. CASE PostSend
  BY <1>2, <1>8, ClientGoes DEF PostSend, Smooth
<1>9. ASSUME NEW p \in Process, Tell(p)
      PROVE  Smooth'
  <2>1. /\ at[p] = "tell" /\ Advance(p) /\ sent' = sent \cup {p}
        /\ UNCHANGED <<conn, remote, recvs, wc>>
    BY <1>9 DEF Tell
  <2>2. CASE p = "server"
    BY <1>2, <2>1, <2>2, ServerGoes DEF Smooth
  <2>3. CASE p = "client"
    BY <1>2, <2>1, <2>3, ClientGoes DEF Smooth
  <2> QED  BY <2>2, <2>3 DEF Process
<1>10. ASSUME NEW p \in Process, Hear(p)
       PROVE  Smooth'
  <2>1. at[p] = "hear" /\ Advance(p) /\ UNCHANGED <<conn, sent, recvs, wc>>
    BY <1>10 DEF Hear
  <2>2. conn # "reset" /\ (Gone(Peer(p)) => Peer(p) \in sent)
    BY <1>2 DEF Smooth, Gone, Peer, Process
  <2>3. remote' = [remote EXCEPT ![p] = "info"]
    BY <1>10, <2>2 DEF Hear
  <2>4. CASE p = "server"
    <3>1. remote'["server"] = "info" /\ remote'["client"] = remote["client"]
      BY <2>3, <2>4 DEF TypeOK, Process
    <3> QED  BY <1>2, <2>1, <2>4, <3>1, ServerGoes DEF Smooth
  <2>5. CASE p = "client"
    <3>1. remote'["client"] = "info" /\ remote'["server"] = remote["server"]
      BY <2>3, <2>5 DEF TypeOK, Process
    <3> QED  BY <1>2, <2>1, <2>5, <3>1, ClientGoes DEF Smooth
  <2> QED  BY <2>4, <2>5 DEF Process
<1>11. ASSUME NEW p \in Process, Poll(p) \/ Sleep(p)
       PROVE  Smooth'
  <2>1. at[p] \in {"poll", "sleep"} /\ Advance(p) /\ UNCHANGED <<conn, sent, remote, recvs, wc>>
        /\ (at[p] = "poll" => wc[p] # "none")
    BY <1>11 DEF Poll, Sleep
  <2>2. CASE p = "server"
    BY <1>2, <2>1, <2>2, ServerGoes DEF Smooth
  <2>3. CASE p = "client"
    BY <1>2, <2>1, <2>3, ClientGoes DEF Smooth
  <2> QED  BY <2>2, <2>3 DEF Process
<1>12. ASSUME NEW p \in Process, Cleanup(p)
       PROVE  Smooth'
  <2>1. at[p] = "cleanup" /\ UNCHANGED <<at, sent, remote, recvs, wc>>
    BY <1>12 DEF Cleanup
  <2>2. PICK r \in held[p] :
          FirstHeld(p, r) /\ conn' = IF r = "lsock" /\ conn = "queued" THEN "reset" ELSE conn
    BY <1>12 DEF Cleanup
  <2>3. conn' = conn
    <3>1. CASE p = "server"
      BY <1>2, <2>1, <2>2, <3>1 DEF Smooth
    <3>2. CASE p = "client"
      BY <2>2, <3>2 DEF FirstHeld, Release, ClientRelease
    <3> QED  BY <3>1, <3>2 DEF Process
  <2> QED  BY <1>2, <2>1, <2>3 DEF Smooth
<1>13. ASSUME NEW p \in Process, CleanupEnds(p)
       PROVE  Smooth'
  <2>1. /\ at[p] = "cleanup" /\ at'[p] = "end" /\ UNCHANGED <<conn, sent, remote, recvs, wc>>
        /\ \A q \in Process \ {p} : at'[q] = at[q]
    BY <1>13 DEF CleanupEnds, TypeOK
  <2>2. CASE p = "server"
    BY <1>2, <2>1, <2>2 DEF Smooth, Process
  <2>3. CASE p = "client"
    BY <1>2, <2>1, <2>3 DEF Smooth, Process
  <2> QED  BY <2>2, <2>3 DEF Process
<1>14. ASSUME NEW p \in Process
       PROVE  ~Trouble(p)
  BY DEF Trouble, NoDevice, EmptyList, Fail, Kill
<1>15. CASE Adapter
  BY <1>2, <1>15 DEF Adapter, Deliver, Acknowledge, Smooth, TypeOK, Process
<1>16. ~TimedOut
  BY <1>2, NoEarlyTimeout
<1>17. CASE UNCHANGED vars
  BY <1>2, <1>17 DEF vars, Smooth
<1> QED
  BY <1>4, <1>5, <1>6, <1>7, <1>8, <1>9, <1>10, <1>11, <1>12, <1>13, <1>14, <1>15, <1>16, <1>17
     DEF Next, Run

\* The client's send waits for the server's receive request: it fails only if a call
\* failed, a program was killed or the server was late (rnr_retry, qp_to_rts).
THEOREM EarlySendsWait == Spec => []EarlySendWaits
<1>1. Init => HeldInv /\ MessageInv /\ SmoothInv
  <2>1. Init => Smooth
    BY DEF Init, Smooth, Process
  <2> QED  BY <2>1, HeldInit, MessageInit DEF SmoothInv
<1>2. TypeOK /\ (HeldInv /\ MessageInv /\ SmoothInv) /\ [Next]_vars
        => (HeldInv /\ MessageInv /\ SmoothInv)'
  BY HeldStep, MessageStep, SmoothStep
<1>3. HeldInv /\ MessageInv /\ SmoothInv => EarlySendWaits
  BY DEF SmoothInv, Smooth, EarlySendWaits
<1> QED  BY <1>1, <1>2, <1>3, RdmaTypes, PTL DEF Spec
=============================================================================
