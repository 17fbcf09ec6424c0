---------------------------- MODULE OverlayProofs ----------------------------
(***************************************************************************)
(* Proofs about Overlay, for every set of servers, every overlay to start  *)
(* with and every choice of who joins where and who leaves.                *)
(***************************************************************************)
EXTENDS Overlay, SequenceTheorems, FiniteSetTheorems, TLAPS

\* Ends and Owner for a given list of links.
In(L) == {e \in End : e[1] <= Len(L)}
At(L, e) == L[e[1]][IF e[2] = "out" THEN 1 ELSE 2]

LEMMA EndFacts ==
    ASSUME NEW e \in End
    PROVE  /\ Other(e) \in End /\ Other(Other(e)) = e /\ Other(e) # e
           /\ Other(e)[1] = e[1]
BY DEF End, Other

LEMMA LinkFacts ==
    ASSUME NEW L \in Seq(Node \X Node), NEW e \in In(L)
    PROVE  /\ e \in End /\ Other(e) \in In(L)
           /\ At(L, e) \in Node
<1>1. e \in End /\ e[1] \in 1..MaxLinks /\ e[1] <= Len(L) /\ Len(L) \in Nat
  BY OverlayAssumption DEF In, End
<1>2. e[1] \in 1..Len(L)
  BY <1>1, OverlayAssumption
<1>3. L[e[1]] \in Node \X Node
  BY <1>2
<1>. QED  BY <1>1, <1>3, EndFacts DEF In, At

\* more is L and a link from n to m, whose end at n is out.
Longer(L, more, n, m, out) ==
    /\ more \in Seq(Node \X Node) /\ Len(more) = Len(L) + 1 /\ Len(more) <= MaxLinks
    /\ out \in End /\ Other(out) \in End /\ Other(out) # out
    /\ out \notin In(L) /\ Other(out) \notin In(L)
    /\ In(more) = In(L) \cup {out, Other(out)}
    /\ At(more, out) = n /\ At(more, Other(out)) = m
    /\ \A e \in In(L) : At(more, e) = At(L, e)

LEMMA OneMoreLink ==
    ASSUME NEW L \in Seq(Node \X Node), Len(L) < MaxLinks, NEW n \in Node, NEW m \in Node
    PROVE  Longer(L, Append(L, <<n, m>>), n, m, <<Len(L) + 1, "out">>)
<1>. DEFINE more == Append(L, <<n, m>>)
            out == <<Len(L) + 1, "out">>
<1>1. /\ more \in Seq(Node \X Node) /\ Len(more) = Len(L) + 1 /\ Len(L) \in Nat
      /\ Len(more) <= MaxLinks
      /\ more[Len(L) + 1] = <<n, m>> /\ \A i \in 1..Len(L) : more[i] = L[i]
  BY OverlayAssumption
<1>. HIDE DEF more
<1>2. out \in End /\ Other(out) = <<Len(L) + 1, "in">> /\ Other(out) \in End
  BY <1>1, OverlayAssumption DEF End, Other
<1>3. out \notin In(L) /\ Other(out) \notin In(L) /\ Other(out) # out
  BY <1>1, <1>2 DEF In
<1>4. In(more) = In(L) \cup {out, Other(out)}
  <2>1. ASSUME NEW e \in End PROVE e \in In(more) <=> e \in In(L) \cup {out, Other(out)}
    <3>1. e[1] \in Nat /\ e[2] \in {"out", "in"} /\ e = <<e[1], e[2]>>
      BY OverlayAssumption DEF End
    <3>2. e[1] <= Len(L) + 1 <=> e[1] <= Len(L) \/ e[1] = Len(L) + 1
      BY <3>1, <1>1
    <3>3. e[1] = Len(L) + 1 <=> e \in {out, Other(out)}
      BY <1>2, <3>1
    <3>. QED  BY <1>1, <3>2, <3>3 DEF In
  <2>. QED  BY <2>1, <1>2 DEF In
<1>5. At(more, out) = n /\ At(more, Other(out)) = m
  BY <1>1, <1>2 DEF At
<1>6. ASSUME NEW e \in In(L) PROVE At(more, e) = At(L, e)
  <2>1. e[1] \in 1..Len(L)
    BY OverlayAssumption DEF In, End
  <2>. QED  BY <2>1, <1>1 DEF At
<1>7. Longer(L, more, n, m, out)
  BY <1>1, <1>2, <1>3, <1>4, <1>5, <1>6 DEF Longer
<1>. QED  BY <1>7 DEF more

----------------------------------------------------------------------------
(* The types, with what keeps them: only what was made has a listener, and the *)
(* end that is about to be pushed has none.                                *)

Types ==
    /\ state \in [Node -> {"down", "up", "leaving", "closing", "gone"}]
    /\ links \in Seq(Node \X Node) /\ Len(links) <= MaxLinks
    /\ peers \in [Node -> SUBSET End]
    /\ name \in [End -> Node \cup {NoName}]
    /\ connected \in [End -> BOOLEAN]
    /\ thread \in [End -> {"none", "backlog", "reads", "adds", "connects", "pushes", "ended"}]
    /\ todo \in [End -> SUBSET (Node \cup {NoName})]
    /\ now \in [End -> Node \cup {NoName} \cup End]
    /\ chan \in [End -> Seq(Message)]
    /\ joining \in [Node -> End \cup {NoEnd}]
    /\ leavers \subseteq Node
    /\ events \subseteq {"reset", "untold", "unread", "refused", "exit", "nameless"}

Listed == \A n \in Node : \A e \in peers[n] :
    e \in In(links) /\ At(links, e) = n /\ thread[e] \notin {"none", "backlog"}

Unmade == \A e \in End : e \notin In(links) => thread[e] = "none" /\ chan[e] = <<>>

Connecting == \A e \in End : thread[e] = "connects" => now[e] \in Node \cup {NoName}

Pushing == \A e \in End : thread[e] = "pushes" =>
    /\ now[e] \in In(links) /\ At(links, now[e]) = At(links, e)
    /\ thread[now[e]] = "none" /\ connected[now[e]]
    /\ \A x \in End : thread[x] = "pushes" /\ now[x] = now[e] => x = e

TypeInv == Types /\ Listed /\ Unmade /\ Connecting /\ Pushing

LEMMA OwnerFacts ==
    ASSUME Types, NEW e \in Ends
    PROVE  /\ e \in End /\ e \in In(links) /\ Owner(e) = At(links, e) /\ Owner(e) \in Node
           /\ Other(e) \in Ends /\ Other(e) \in End /\ Owner(Other(e)) \in Node
           /\ Owner(Other(e)) = At(links, Other(e))
<1>1. /\ e \in In(links) /\ e \in End
      /\ Owner(e) = At(links, e) /\ Owner(Other(e)) = At(links, Other(e))
  BY DEF Ends, In, Owner, At
<1>2. Other(e) \in In(links)
  BY <1>1, LinkFacts DEF Types
<1>. QED  BY <1>1, <1>2, LinkFacts DEF Types, Ends, In

LEMMA ListedFacts ==
    ASSUME Types, Listed, NEW n \in Node, NEW e \in peers[n]
    PROVE  e \in Ends /\ e \in End /\ e \in In(links) /\ Owner(e) = n
BY DEF Ends, In, Owner, At, Listed, Types

LEMMA EndsOfFacts ==
    ASSUME Types, NEW n \in Node
    PROVE  \A e \in End : e \in EndsOf(n) <=> e \in In(links) /\ At(links, e) = n
BY DEF EndsOf, Ends, In, Owner, At

LEMMA TypeParts == TypeOK <=> Types /\ Listed
<1>1. Types => \A n \in Node, e \in End : e \in EndsOf(n) <=> e \in In(links) /\ At(links, e) = n
  BY EndsOfFacts
<1>. QED  BY <1>1 DEF TypeOK, Types, Listed

\* What the invariant says, for a leaf that needs all of it.
LEMMA HearTypes ==
    ASSUME TypeInv, NEW e \in Ends,
           HearConnect(e) \/ HearDisconnect(e) \/ HearAddNeighbors(e) \/ HearSearch(e)
    PROVE  TypeInv'
<1>. USE DEF TypeInv, Types, Listed, Unmade, Connecting, Pushing
<1>1. e \in End /\ e \in In(links) /\ Owner(e) = At(links, e) /\ Owner(e) \in Node
  BY OwnerFacts
<1>2. ASSUME chan[e] # <<>>
      PROVE  Tail(chan[e]) \in Seq(Message) /\ Head(chan[e]).names \subseteq Node \cup {NoName}
  <2>1. chan[e] \in Seq(Message) /\ Head(chan[e]) \in Message
    BY <1>1, <1>2
  <2>. QED  BY <2>1, <1>2 DEF Message
<1>3. CASE HearConnect(e)
  BY <1>1, <1>2, <1>3 DEF HearConnect, Hears, Loops
<1>4. CASE HearDisconnect(e)
  BY <1>1, <1>2, <1>4 DEF HearDisconnect, Hears
<1>5. CASE HearAddNeighbors(e)
  BY <1>1, <1>2, <1>5 DEF HearAddNeighbors, Hears
<1>6. CASE HearSearch(e)
  BY <1>1, <1>6 DEF HearSearch
<1>. QED  BY <1>3, <1>4, <1>5, <1>6

LEMMA AcceptTypes ==
    ASSUME TypeInv, NEW e \in Ends, Accept(e)
    PROVE  TypeInv'
<1>. USE DEF TypeInv, Types, Listed, Unmade, Connecting, Pushing
<1>1. e \in End /\ e \in In(links) /\ Owner(e) = At(links, e) /\ Owner(e) \in Node
  BY OwnerFacts
<1>. QED  BY <1>1 DEF Accept

\* MakeLink, called by Start and by add_neighbors, with the new end at n named.
Made(out, n, m, doing) ==
    /\ out = <<Len(links) + 1, "out">> /\ links' = Append(links, <<n, m>>)
    /\ Longer(links, links', n, m, out)
    /\ name' = [name EXCEPT ![out] = m]
    /\ connected' = [connected EXCEPT ![out] = TRUE]
    /\ chan' = [chan EXCEPT ![Other(out)] = <<Msg("CONNECT", {n})>>]
    /\ thread' = [doing EXCEPT ![Other(out)] = "backlog"]
    /\ Msg("CONNECT", {n}) \in Message

LEMMA MadeFacts ==
    ASSUME Types, NEW n \in Node, NEW m \in Node, NEW doing, MakeLink(n, m, doing)
    PROVE  \E out \in End : Made(out, n, m, doing)
<1>. DEFINE out == <<Len(links) + 1, "out">>
<1>1. links' = Append(links, <<n, m>>) /\ Len(links) < MaxLinks
  BY DEF MakeLink
<1>2. Msg("CONNECT", {n}) \in Message
  BY DEF Msg, Message
<1>3. /\ name' = [name EXCEPT ![out] = m]
      /\ connected' = [connected EXCEPT ![out] = TRUE]
      /\ chan' = [chan EXCEPT ![Other(out)] = <<Msg("CONNECT", {n})>>]
      /\ thread' = [doing EXCEPT ![Other(out)] = "backlog"]
  BY DEF MakeLink, ConnectMsg
<1>4. Longer(links, links', n, m, out)
  BY <1>1, OneMoreLink DEF Types
<1>. HIDE DEF out
<1>5. out = <<Len(links) + 1, "out">>
  BY DEF out
<1>6. out \in End
  BY <1>4 DEF Longer
<1>. QED  BY <1>1, <1>2, <1>3, <1>4, <1>5, <1>6 DEF Made

LEMMA StartTypes ==
    ASSUME TypeInv, NEW n \in Node, NEW m \in Joins[n], Start(n, m) \/ StartRefused(n, m)
    PROVE  TypeInv'
<1>. USE DEF TypeInv, Types, Listed, Unmade, Connecting, Pushing
<1>1. CASE Start(n, m)
  <2>1. m \in Node
    BY OverlayAssumption
  <2>2. PICK out \in End : Made(out, n, m, [thread EXCEPT ![<<Len(links) + 1, "out">>] = "reads"])
    BY <1>1, <2>1, MadeFacts DEF Start
  <2>3. /\ state' = [state EXCEPT ![n] = "up"] /\ peers' = [peers EXCEPT ![n] = {out}]
        /\ thread' = [thread EXCEPT ![out] = "reads", ![Other(out)] = "backlog"]
        /\ name' = [name EXCEPT ![out] = m]
        /\ connected' = [connected EXCEPT ![out] = TRUE]
        /\ chan' = [chan EXCEPT ![Other(out)] = <<Msg("CONNECT", {n})>>]
        /\ todo' = todo /\ now' = now /\ joining' = joining /\ leavers' = leavers
        /\ events' = events
    BY <1>1, <2>2 DEF Start, Made
  <2>4. Longer(links, links', n, m, out) /\ <<Msg("CONNECT", {n})>> \in Seq(Message)
    BY <2>2 DEF Made
  <2>5. Types'
    <3>1. chan' \in [End -> Seq(Message)]
      BY <2>3, <2>4 DEF Longer
    <3>2. thread' \in [End -> {"none", "backlog", "reads", "adds", "connects", "pushes", "ended"}]
      BY <2>3, <2>4 DEF Longer
    <3>3. name' \in [End -> Node \cup {NoName}] /\ connected' \in [End -> BOOLEAN]
      BY <2>1, <2>3, <2>4 DEF Longer
    <3>4. peers' \in [Node -> SUBSET End] /\ state' \in [Node -> {"down", "up", "leaving", "closing", "gone"}]
      BY <2>3, <2>4 DEF Longer
    <3>. QED  BY <2>3, <2>4, <3>1, <3>2, <3>3, <3>4 DEF Longer
  <2>6. Listed'
    BY <2>1, <2>3, <2>4 DEF Longer
  <2>7. Unmade' /\ Connecting'
    BY <2>1, <2>3, <2>4 DEF Longer
  <2>8. Pushing'
    <3>. SUFFICES ASSUME NEW e \in End, thread'[e] = "pushes"
                  PROVE  /\ now'[e] \in In(links') /\ At(links', now'[e]) = At(links', e)
                         /\ thread'[now'[e]] = "none" /\ connected'[now'[e]]
                         /\ \A x \in End : thread'[x] = "pushes" /\ now'[x] = now'[e] => x = e
      OBVIOUS
    <3>1. \A x \in End : thread'[x] = "pushes" => thread[x] = "pushes"
      BY <2>3, <2>4 DEF Longer
    <3>2. now'[e] = now[e] /\ now[e] \in In(links) /\ e \in In(links)
      BY <2>3, <3>1
    <3>. QED  BY <2>3, <2>4, <3>1, <3>2, LinkFacts DEF Longer
  <2>. QED  BY <2>5, <2>6, <2>7, <2>8
<1>2. CASE StartRefused(n, m)
  BY <1>2 DEF StartRefused
<1>. QED  BY <1>1, <1>2

\* add_neighbors, but for NeighborUnknown.
LEMMA AddTypes ==
    ASSUME TypeInv, NEW e \in Ends,
           \/ \E m \in todo[e] : KnownNeighbor(e, m) \/ NewNeighbor(e, m)
           \/ NeighborAnswers(e) \/ NeighborRefuses(e) \/ NeighborPushed(e)
    PROVE  TypeInv'
<1>. USE DEF TypeInv, Types, Listed, Unmade, Connecting, Pushing
<1>1. e \in End /\ e \in In(links) /\ Owner(e) = At(links, e) /\ Owner(e) \in Node
  BY OwnerFacts
<1>2. ASSUME NEW m \in todo[e], KnownNeighbor(e, m) PROVE TypeInv'
  BY <1>1, <1>2 DEF KnownNeighbor
<1>3. ASSUME NEW m \in todo[e], NewNeighbor(e, m) PROVE TypeInv'
  BY <1>1, <1>3 DEF NewNeighbor
<1>4. CASE NeighborAnswers(e)
  <2>1. now[e] \in Node
    BY <1>1, <1>4 DEF NeighborAnswers
  <2>2. PICK out \in End : Made(out, Owner(e), now[e], [thread EXCEPT ![e] = "pushes"])
    BY <1>1, <1>4, <2>1, MadeFacts DEF NeighborAnswers
  <2>3. /\ state' = state /\ peers' = peers
        /\ thread' = [thread EXCEPT ![e] = "pushes", ![Other(out)] = "backlog"]
        /\ name' = [name EXCEPT ![out] = now[e]]
        /\ connected' = [connected EXCEPT ![out] = TRUE]
        /\ chan' = [chan EXCEPT ![Other(out)] = <<Msg("CONNECT", {Owner(e)})>>]
        /\ now' = [now EXCEPT ![e] = out]
        /\ todo' = todo /\ joining' = joining /\ leavers' = leavers /\ events' = events
        /\ thread[e] = "connects"
    BY <1>4, <2>2 DEF NeighborAnswers, Made
  <2>4. Longer(links, links', Owner(e), now[e], out) /\ <<Msg("CONNECT", {Owner(e)})>> \in Seq(Message)
    BY <2>2 DEF Made
  <2>5. Types'
    <3>1. chan' \in [End -> Seq(Message)]
      BY <2>3, <2>4 DEF Longer
    <3>2. thread' \in [End -> {"none", "backlog", "reads", "adds", "connects", "pushes", "ended"}]
      BY <2>3, <2>4 DEF Longer
    <3>3. name' \in [End -> Node \cup {NoName}] /\ connected' \in [End -> BOOLEAN]
      BY <2>1, <2>3, <2>4 DEF Longer
    <3>4. now' \in [End -> Node \cup {NoName} \cup End]
      BY <1>1, <2>3
    <3>. QED  BY <2>3, <2>4, <3>1, <3>2, <3>3, <3>4 DEF Longer
  <2>6. Listed'
    BY <2>1, <2>3, <2>4 DEF Longer
  <2>7. Unmade' /\ Connecting'
    BY <1>1, <2>1, <2>3, <2>4 DEF Longer
  <2>8. Pushing'
    <3>. SUFFICES ASSUME NEW x \in End, thread'[x] = "pushes"
                  PROVE  /\ now'[x] \in In(links') /\ At(links', now'[x]) = At(links', x)
                         /\ thread'[now'[x]] = "none" /\ connected'[now'[x]]
                         /\ \A y \in End : thread'[y] = "pushes" /\ now'[y] = now'[x] => y = x
      OBVIOUS
    <3>1. \A y \in End : thread'[y] = "pushes" => thread[y] = "pushes" \/ y = e
      BY <2>3, <2>4 DEF Longer
    <3>2. \A y \in End : thread'[y] = "pushes" /\ y # e => now'[y] = now[y] /\ now[y] \in In(links)
      BY <2>3, <3>1
    <3>3. now'[e] = out
      BY <1>1, <2>3
    <3>4. CASE x = e
      BY <1>1, <2>3, <2>4, <3>1, <3>2, <3>3, <3>4, LinkFacts DEF Longer
    <3>5. CASE x # e
      <4>1. thread[x] = "pushes" /\ now'[x] = now[x] /\ now[x] \in In(links) /\ x \in In(links)
        BY <3>1, <3>2, <3>5
      <4>2. now[x] \in End /\ now[x] # out /\ now[x] # Other(out) /\ now[x] # e
        BY <4>1, <2>3, <2>4, LinkFacts DEF Longer
      <4>3. thread'[now[x]] = "none" /\ connected'[now[x]]
        BY <4>1, <4>2, <2>3, <2>4 DEF Longer
      <4>4. now[x] \in In(links') /\ At(links', now[x]) = At(links', x)
        BY <4>1, <2>4 DEF Longer
      <4>5. \A y \in End : thread'[y] = "pushes" /\ now'[y] = now'[x] => y = x
        <5>. SUFFICES ASSUME NEW y \in End, thread'[y] = "pushes", now'[y] = now'[x]
                      PROVE  y = x
          OBVIOUS
        <5>1. y # e
          BY <4>1, <4>2, <3>3
        <5>2. thread[y] = "pushes" /\ now[y] = now[x]
          BY <5>1, <4>1, <3>1, <3>2
        <5>. QED  BY <5>2, <4>1
      <4>. QED  BY <4>1, <4>3, <4>4, <4>5
    <3>. QED  BY <3>4, <3>5
  <2>. QED  BY <2>5, <2>6, <2>7, <2>8
<1>5. CASE NeighborRefuses(e)
  BY <1>1, <1>5 DEF NeighborRefuses
<1>6. CASE NeighborPushed(e)
  <2>1. /\ now[e] \in End /\ now[e] \in In(links) /\ At(links, now[e]) = Owner(e)
        /\ now[e] # e /\ thread[e] = "pushes" /\ thread[now[e]] = "none"
    BY <1>1, <1>6, LinkFacts DEF NeighborPushed
  <2>2. PICK doing \in {"reads", "ended"} :
           thread' = [thread EXCEPT ![e] = "adds", ![now[e]] = doing]
    BY <1>6 DEF NeighborPushed
  <2>3. /\ peers' = [peers EXCEPT ![Owner(e)] = @ \cup {now[e]}]
        /\ now' = [now EXCEPT ![e] = NoName]
        /\ state' = state /\ links' = links /\ name' = name /\ connected' = connected
        /\ todo' = todo /\ chan' = chan /\ joining' = joining /\ leavers' = leavers
        /\ events' = events
    BY <1>6 DEF NeighborPushed
  <2>4. Types'
    BY <1>1, <2>1, <2>2, <2>3
  <2>5. Listed'
    BY <1>1, <2>1, <2>2, <2>3
  <2>6. Unmade' /\ Connecting'
    BY <1>1, <2>1, <2>2, <2>3
  <2>7. Pushing'
    <3>1. \A x \in End : thread'[x] = "pushes" =>
             thread[x] = "pushes" /\ x # e /\ now'[x] = now[x]
      BY <1>1, <2>1, <2>2, <2>3
    <3>2. \A x \in End : thread[x] = "pushes" /\ x # e => now[x] # now[e] /\ now[x] # e
      BY <1>1, <2>1
    <3>. QED  BY <2>1, <2>2, <2>3, <3>1, <3>2, LinkFacts
  <2>. QED  BY <2>4, <2>5, <2>6, <2>7
<1>. QED  BY <1>2, <1>3, <1>4, <1>5, <1>6

\* monitor_connected_peers.
LEMMA MonitorTypes ==
    ASSUME TypeInv, NEW n \in Node, MonitorFrees(n) \/ MonitorJoins(n)
    PROVE  TypeInv'
<1>. USE DEF TypeInv, Types, Listed, Unmade, Connecting, Pushing
<1>1. CASE MonitorFrees(n)
  BY <1>1 DEF MonitorFrees
<1>2. CASE MonitorJoins(n)
  BY <1>2 DEF MonitorJoins, Disconnected
<1>. QED  BY <1>1, <1>2

\* The process of a node ends.
LEMMA ProcessEndsTypes ==
    ASSUME TypeInv, NEW n \in Node, NEW event, event \subseteq {"exit"}, ProcessEnds(n, event)
    PROVE  TypeInv'
<1>. USE DEF TypeInv, Types, Listed, Unmade, Connecting, Pushing
<1>1. \A e \in End : e \in EndsOf(n) <=> e \in In(links) /\ At(links, e) = n
  BY EndsOfFacts
<1>2. Types'
  BY DEF ProcessEnds
<1>3. Listed'
  BY <1>1 DEF ProcessEnds
<1>4. Unmade' /\ Connecting'
  BY <1>1 DEF ProcessEnds
<1>5. Pushing'
  <2>1. \A x \in End : thread'[x] = "pushes" =>
           thread[x] = "pushes" /\ now'[x] = now[x] /\ now[x] \in End /\ x \notin EndsOf(n)
    BY <1>1, LinkFacts DEF ProcessEnds
  <2>2. \A x \in End : thread[x] = "pushes" => x \in In(links)
    OBVIOUS
  <2>3. links' = links /\ connected' = connected
    BY DEF ProcessEnds
  <2>4. \A x \in End : x \notin EndsOf(n) => thread'[x] = thread[x]
    BY DEF ProcessEnds
  <2>. QED  BY <1>1, <2>1, <2>2, <2>3, <2>4
<1>. QED  BY <1>2, <1>3, <1>4, <1>5

\* terminate_server.
LEMMA TerminateTypes ==
    ASSUME TypeInv, NEW n \in Node, Terminate(n)
    PROVE  TypeInv'
<1>. USE DEF TypeInv, Types, Listed, Unmade, Connecting, Pushing
<1>1. PICK reset \in SUBSET Backlog(n) :
         /\ thread' = [e \in End |-> IF e \in reset THEN "none" ELSE thread[e]]
         /\ events' = events \cup {"reset" : e \in reset}
  BY DEF Terminate
<1>2. \A e \in reset : thread[e] = "backlog"
  BY DEF Backlog
<1>3. /\ state' = [state EXCEPT ![n] = "leaving"] /\ leavers' = leavers \ {n}
      /\ links' = links /\ peers' = peers /\ name' = name /\ connected' = connected
      /\ todo' = todo /\ now' = now /\ chan' = chan /\ joining' = joining
  BY DEF Terminate
<1>4. Types'
  BY <1>1, <1>3
<1>5. Listed' /\ Unmade' /\ Connecting'
  BY <1>1, <1>2, <1>3
<1>6. Pushing'
  BY <1>1, <1>2, <1>3, LinkFacts
<1>. QED  BY <1>4, <1>5, <1>6

LEMMA MessageTypes ==
    ASSUME Types, NEW n \in Node, NEW e
    PROVE  /\ Msg("DISCONNECT", {}) \in Message
           /\ Msg("ADDNBRS", NamesOfOthers(n, e)) \in Message
BY DEF Types, Msg, Message, NamesOfOthers

\* disconnect_peer, called by disconnect_all_peers.
LEMMA DisconnectTypes ==
    ASSUME TypeInv, NEW n \in Node, NEW e \in peers[n], NEW msg \in Message, 
           Disconnect(n, e, msg), state' \in [Node -> {"down", "up", "leaving", "closing", "gone"}]
    PROVE  TypeInv'
<1>. USE DEF TypeInv, Types, Listed, Unmade, Connecting, Pushing
<1>1. e \in Ends /\ e \in End /\ e \in In(links) /\ Other(e) \in In(links) /\ Other(e) \in End
  BY ListedFacts, LinkFacts
<1>2. /\ connected' = [connected EXCEPT ![e] = FALSE]
      /\ thread' = [thread EXCEPT ![e] = IF @ = "reads" THEN "ended" ELSE @]
      /\ peers' = [peers EXCEPT ![n] = @ \ {e}]
      /\ joining' = [joining EXCEPT ![n] = e]
      /\ links' = links /\ name' = name /\ todo' = todo /\ now' = now /\ leavers' = leavers
      /\ chan' = chan \/ chan' = [chan EXCEPT ![Other(e)] = Append(@, msg)]
      /\ events' \subseteq events \cup {"untold"}
  BY DEF Disconnect
<1>3. chan' \in [End -> Seq(Message)]
  <2>1. Append(chan[Other(e)], msg) \in Seq(Message)
    BY <1>1
  <2>2. [chan EXCEPT ![Other(e)] = Append(@, msg)] \in [End -> Seq(Message)]
    BY <1>1, <2>1
  <2>. QED  BY <1>2, <2>2
<1>4. Types'
  BY <1>1, <1>2, <1>3
<1>5. Listed' /\ Unmade' /\ Connecting'
  <2>1. \A x \in End : thread'[x] = thread[x] \/ (x = e /\ thread'[x] = "ended")
    BY <1>1, <1>2
  <2>2. \A x \in End : x \notin In(links) => chan'[x] = chan[x]
    BY <1>1, <1>2
  <2>3. Listed'
    BY <1>1, <1>2, <2>1
  <2>4. Unmade' /\ Connecting'
    BY <1>1, <1>2, <2>1, <2>2
  <2>. QED  BY <2>3, <2>4
<1>6. Pushing'
  <2>1. thread[e] # "none"
    BY <1>1
  <2>2. \A x \in End : thread'[x] = "pushes" => thread[x] = "pushes" /\ now[x] \in End /\ now[x] # e
    BY <1>1, <1>2, LinkFacts
  <2>3. \A x \in End : x # e => thread'[x] = thread[x] /\ connected'[x] = connected[x]
    BY <1>1, <1>2
  <2>4. links' = links /\ now' = now
    BY <1>2
  <2>. QED  BY <2>2, <2>3, <2>4
<1>. QED  BY <1>4, <1>5, <1>6

\* disconnect_all_peers.
LEMMA LeaveTypes ==
    ASSUME TypeInv, NEW n \in Node, Leave(n)
    PROVE  TypeInv'
<1>1. Types /\ state \in [Node -> {"down", "up", "leaving", "closing", "gone"}]
  BY DEF TypeInv, Types
<1>2. ASSUME NEW e \in peers[n], LeaveChoosing(n, e) PROVE TypeInv'
  <2>1. state' \in [Node -> {"down", "up", "leaving", "closing", "gone"}]
    BY <1>1, <1>2 DEF LeaveChoosing
  <2>. QED  BY <1>1, <1>2, <2>1, MessageTypes, DisconnectTypes DEF LeaveChoosing
<1>3. ASSUME NEW e \in peers[n], LeaveTelling(n, e) PROVE TypeInv'
  BY <1>1, <1>3, MessageTypes, DisconnectTypes DEF LeaveTelling
<1>4. CASE LeaveEnds(n)
  BY <1>4, ProcessEndsTypes DEF LeaveEnds
<1>. QED  BY <1>2, <1>3, <1>4 DEF Leave

LEMMA TypeInvInit == Init => TypeInv
<1>. SUFFICES ASSUME Init PROVE TypeInv
  OBVIOUS
<1>1. links \in Seq(Node \X Node) /\ Len(links) <= MaxLinks /\ leavers \subseteq Node
  BY OverlayAssumption DEF Init
<1>2. \A e \in Ends : e \in In(links) /\ e \in End /\ Owner(e) = At(links, e) /\ Owner(Other(e)) \in Node
  <2>1. ASSUME NEW e \in Ends PROVE e \in In(links) /\ Owner(e) = At(links, e) /\ Owner(Other(e)) = At(links, Other(e))
    BY DEF Ends, In, Owner, At
  <2>. QED  BY <1>1, <2>1, LinkFacts
<1>3. Types
  <2>1. peers \in [Node -> SUBSET End] /\ name \in [End -> Node \cup {NoName}] /\ connected \in [End -> BOOLEAN]
    BY <1>2 DEF Init, EndsOf
  <2>2. /\ thread \in [End -> {"none", "backlog", "reads", "adds", "connects", "pushes", "ended"}]
        /\ chan \in [End -> Seq(Message)]
    BY DEF Init
  <2>. QED  BY <1>1, <2>1, <2>2 DEF Init, Types
<1>4. Listed /\ Unmade /\ Connecting /\ Pushing
  BY <1>2 DEF Init, Listed, Unmade, Connecting, Pushing, EndsOf, Ends, In
<1>. QED  BY <1>3, <1>4 DEF TypeInv

\* What every step keeps.
LEMMA TypeInvStep == TypeInv /\ [Next]_vars => TypeInv'
<1>. SUFFICES ASSUME TypeInv, [Next]_vars PROVE TypeInv'
  OBVIOUS
<1>1. Types
  BY DEF TypeInv
<1>2. CASE UNCHANGED vars
  BY <1>2 DEF vars, TypeInv, Types, Listed, Unmade, Connecting, Pushing
<1>3. ASSUME NEW e \in Ends, Accept(e) \/ Listener(e) \/ HearSearch(e) PROVE TypeInv'
  <2>1. CASE NeighborUnknown(e)
    BY <2>1, <1>1, <1>3, OwnerFacts, ProcessEndsTypes DEF NeighborUnknown
  <2>. QED  BY <1>3, <2>1, AcceptTypes, HearTypes, AddTypes DEF Listener
<1>4. ASSUME NEW n \in Node, MonitorFrees(n) \/ MonitorJoins(n) \/ Leave(n) PROVE TypeInv'
  BY <1>4, MonitorTypes, LeaveTypes
<1>5. ASSUME NEW n \in Node, NEW m \in Joins[n], Start(n, m) \/ StartRefused(n, m) PROVE TypeInv'
  BY <1>5, StartTypes
<1>6. ASSUME NEW n \in leavers, Terminate(n) PROVE TypeInv'
  BY <1>1, <1>6, TerminateTypes DEF Types
<1>. QED  BY <1>2, <1>3, <1>4, <1>5, <1>6 DEF Next, Threads, World

\* The first conjunct of every run: for all servers, overlays and choices of users.
\* Each variable has its type, and what connected_peers lists was accepted or made
\* by this server and has a listener (push_back in accept_connections and
\* add_neighbors comes after pthread_create of the listener).
THEOREM OverlayTypes == Spec => []TypeOK
<1>1. TypeInv => TypeOK
  BY TypeParts DEF TypeInv
<1>. QED  BY <1>1, TypeInvInit, TypeInvStep, PTL DEF Spec

LEMMA TypeInvHolds == Spec => []TypeInv
BY TypeInvInit, TypeInvStep, PTL DEF Spec

----------------------------------------------------------------------------
(* How far a server has got, and what its listeners do then.               *)

\* Only a server that was up has connections.
Owned == \A e \in In(links) : state[At(links, e)] # "down"

GoneEnded == \A n \in Node : state[n] = "gone" =>
    /\ peers[n] = {}
    /\ \A e \in In(links) : At(links, e) = n => thread[e] = "ended"

\* Who reads is listed and not disconnected.
Reading == \A e \in In(links) : thread[e] = "reads" => e \in peers[At(links, e)] /\ connected[e]

\* Whom a server that is up lists and has not disconnected, it reads from.
ListenedTo == \A n \in Node : \A e \in peers[n] :
    state[n] = "up" /\ connected[e] => thread[e] = "reads"

\* A listener in add_neighbors is still listed, or is the one being joined: its
\* server cannot end before it.
AddersListed == \A e \in In(links) : Adding(e) =>
    \/ e \in peers[At(links, e)]
    \/ state[At(links, e)] = "closing" /\ joining[At(links, e)] = e

NoBacklog == \A e \in In(links) : state[At(links, e)] = "closing" => thread[e] # "backlog"

LeavingFree == \A n \in Node : state[n] = "leaving" => joining[n] = NoEnd

Standing ==
    /\ Owned /\ GoneEnded /\ Reading /\ ListenedTo
    /\ AddersListed /\ NoBacklog /\ LeavingFree

LEMMA HearStanding ==
    ASSUME TypeInv, Standing, NEW e \in Ends,
           \/ HearConnect(e) \/ HearDisconnect(e) \/ HearAddNeighbors(e) \/ HearSearch(e)
           \/ Accept(e)
    PROVE  Standing'
<1>. USE DEF TypeInv, Types, Standing, Owned, GoneEnded, Reading, ListenedTo, AddersListed,
             NoBacklog, LeavingFree, Adding
<1>1. /\ e \in End /\ e \in In(links) /\ Owner(e) = At(links, e) /\ Owner(e) \in Node
      /\ \A n \in Node : \A x \in peers[n] : x \in End /\ x \in In(links) /\ At(links, x) = n
      /\ \A x \in In(links) : x \in End /\ At(links, x) \in Node
  BY OwnerFacts, ListedFacts, LinkFacts DEF Listed
<1>2. CASE HearConnect(e)
  BY <1>1, <1>2 DEF HearConnect, Hears, Loops
<1>3. CASE HearDisconnect(e)
  BY <1>1, <1>3 DEF HearDisconnect, Hears
<1>4. CASE HearAddNeighbors(e)
  BY <1>1, <1>4 DEF HearAddNeighbors, Hears
<1>5. CASE HearSearch(e)
  BY <1>1, <1>5 DEF HearSearch
<1>6. CASE Accept(e)
  BY <1>1, <1>6 DEF Accept
<1>. QED  BY <1>2, <1>3, <1>4, <1>5, <1>6

LEMMA StartStanding ==
    ASSUME TypeInv, Standing, NEW n \in Node, NEW m \in Joins[n], Start(n, m) \/ StartRefused(n, m)
    PROVE  Standing'
<1>. USE DEF TypeInv, Types, Standing, Owned, GoneEnded, Reading, ListenedTo, AddersListed,
             NoBacklog, LeavingFree, Adding
<1>1. /\ \A k \in Node : \A x \in peers[k] : x \in End /\ x \in In(links) /\ At(links, x) = k
      /\ \A x \in In(links) : x \in End /\ At(links, x) \in Node
      /\ m \in Node
  BY OwnerFacts, ListedFacts, LinkFacts, OverlayAssumption DEF Listed
<1>2. CASE Start(n, m)
  <2>2. PICK out \in End : Made(out, n, m, [thread EXCEPT ![<<Len(links) + 1, "out">>] = "reads"])
    BY <1>1, <1>2, MadeFacts DEF Start
  <2>3. /\ state' = [state EXCEPT ![n] = "up"] /\ peers' = [peers EXCEPT ![n] = {out}]
        /\ thread' = [thread EXCEPT ![out] = "reads", ![Other(out)] = "backlog"]
        /\ name' = [name EXCEPT ![out] = m]
        /\ connected' = [connected EXCEPT ![out] = TRUE]
        /\ chan' = [chan EXCEPT ![Other(out)] = <<Msg("CONNECT", {n})>>]
        /\ todo' = todo /\ now' = now /\ joining' = joining /\ leavers' = leavers
        /\ events' = events /\ state[n] = "down" /\ state[m] = "up"
    BY <1>2, <2>2 DEF Start, Made
  <2>4. Longer(links, links', n, m, out) /\ <<Msg("CONNECT", {n})>> \in Seq(Message)
    BY <2>2 DEF Made
  <2>5. Owned' /\ NoBacklog' /\ LeavingFree'
    BY <1>1, <2>3, <2>4 DEF Longer
  <2>6. GoneEnded'
    BY <1>1, <2>3, <2>4 DEF Longer
  <2>7. Reading' /\ ListenedTo'
    BY <1>1, <2>3, <2>4 DEF Longer
  <2>8. AddersListed'
    BY <1>1, <2>3, <2>4 DEF Longer
  <2>. QED  BY <2>5, <2>6, <2>7, <2>8
<1>3. CASE StartRefused(n, m)
  BY <1>1, <1>3 DEF StartRefused
<1>. QED  BY <1>2, <1>3

LEMMA AddStanding ==
    ASSUME TypeInv, Standing, NEW e \in Ends,
           \/ \E m \in todo[e] : KnownNeighbor(e, m) \/ NewNeighbor(e, m)
           \/ NeighborAnswers(e) \/ NeighborRefuses(e) \/ NeighborPushed(e)
    PROVE  Standing'
<1>. USE DEF TypeInv, Types, Standing, Owned, GoneEnded, Reading, ListenedTo, AddersListed,
             NoBacklog, LeavingFree, Adding
<1>1. /\ e \in End /\ e \in In(links) /\ Owner(e) = At(links, e) /\ Owner(e) \in Node
      /\ \A n \in Node : \A x \in peers[n] : x \in End /\ x \in In(links) /\ At(links, x) = n
      /\ \A x \in In(links) : x \in End /\ At(links, x) \in Node
  BY OwnerFacts, ListedFacts, LinkFacts DEF Listed
<1>2. ASSUME NEW m \in todo[e], KnownNeighbor(e, m) PROVE Standing'
  BY <1>1, <1>2 DEF KnownNeighbor
<1>3. ASSUME NEW m \in todo[e], NewNeighbor(e, m) PROVE Standing'
  BY <1>1, <1>3 DEF NewNeighbor
<1>4. CASE NeighborAnswers(e)
  <2>1. now[e] \in Node
    BY <1>1, <1>4 DEF NeighborAnswers, Connecting
  <2>2. PICK out \in End : Made(out, Owner(e), now[e], [thread EXCEPT ![e] = "pushes"])
    BY <1>1, <1>4, <2>1, MadeFacts DEF NeighborAnswers
  <2>3. /\ state' = state /\ peers' = peers
        /\ thread' = [thread EXCEPT ![e] = "pushes", ![Other(out)] = "backlog"]
        /\ connected' = [connected EXCEPT ![out] = TRUE]
        /\ now' = [now EXCEPT ![e] = out]
        /\ todo' = todo /\ joining' = joining
        /\ thread[e] = "connects" /\ state[now[e]] = "up" /\ state[Owner(e)] # "gone"
    BY <1>4, <2>2 DEF NeighborAnswers, Made
  <2>4. Longer(links, links', Owner(e), now[e], out) /\ thread[out] = "none"
    BY <2>2 DEF Made, Unmade, Longer
  <2>5. /\ thread'[out] = "none" /\ thread'[Other(out)] = "backlog" /\ thread'[e] = "pushes"
        /\ \A x \in In(links) : x # e => thread'[x] = thread[x]
        /\ \A x \in In(links) : At(links', x) = At(links, x)
        /\ \A x \in In(links) : connected'[x] <=> connected[x]
    <3>1. thread'[out] = "none" /\ thread'[Other(out)] = "backlog" /\ thread'[e] = "pushes"
      BY <1>1, <2>3, <2>4 DEF Longer
    <3>2. \A x \in In(links) : x # e => thread'[x] = thread[x]
      BY <1>1, <2>3, <2>4 DEF Longer
    <3>3. \A x \in In(links) : At(links', x) = At(links, x)
      BY <2>4 DEF Longer
    <3>4. \A x \in In(links) : connected'[x] <=> connected[x]
      BY <1>1, <2>3, <2>4 DEF Longer
    <3>. QED  BY <3>1, <3>2, <3>3, <3>4
  <2>6. Owned' /\ NoBacklog' /\ LeavingFree'
    BY <1>1, <2>1, <2>3, <2>4, <2>5 DEF Longer
  <2>7. GoneEnded'
    BY <1>1, <2>1, <2>3, <2>4, <2>5 DEF Longer
  <2>8. Reading'
    BY <2>3, <2>4, <2>5 DEF Longer
  <2>9. ListenedTo'
    <3>1. e \in peers[Owner(e)] => state[Owner(e)] # "up" \/ ~connected[e]
      BY <1>1, <2>3
    <3>2. \A n \in Node : \A x \in peers[n] : x \in In(links) /\ (x = e => n = Owner(e))
      BY <1>1
    <3>3. \A n \in Node : \A x \in peers'[n] : x \in peers[n] /\ x \in In(links)
      BY <2>3, <3>2
    <3>. SUFFICES ASSUME NEW k \in Node, NEW x \in peers'[k], state'[k] = "up", connected'[x]
                  PROVE  thread'[x] = "reads"
      OBVIOUS
    <3>4. x \in In(links) /\ x \in peers[k] /\ state[k] = "up" /\ connected[x]
      BY <2>3, <2>5, <3>3
    <3>5. x # e /\ thread[x] = "reads"
      BY <3>1, <3>2, <3>4
    <3>. QED  BY <2>5, <3>4, <3>5
  <2>10. AddersListed'
    <3>1. \A x \in In(links') : Adding(x)' => x \in In(links) /\ Adding(x)
      BY <2>3, <2>4, <2>5 DEF Longer
    <3>2. state' = state /\ peers' = peers /\ joining' = joining
      BY <2>3
    <3>. HIDE DEF TypeInv, Types, Adding
    <3>. QED  BY <2>5, <3>1, <3>2
  <2>. QED  BY <2>6, <2>7, <2>8, <2>9, <2>10
<1>5. CASE NeighborRefuses(e)
  BY <1>1, <1>5 DEF NeighborRefuses
<1>6. CASE NeighborPushed(e)
  <2>1. /\ now[e] \in End /\ now[e] \in In(links) /\ At(links, now[e]) = Owner(e)
        /\ now[e] # e /\ thread[e] = "pushes" /\ thread[now[e]] = "none" /\ connected[now[e]]
    BY <1>1, <1>6, LinkFacts DEF NeighborPushed, Pushing
  <2>2. /\ thread' = [thread EXCEPT ![e] = "adds",
                            ![now[e]] = IF state[Owner(e)] = "up" THEN "reads" ELSE "ended"]
        /\ peers' = [peers EXCEPT ![Owner(e)] = @ \cup {now[e]}]
        /\ state' = state /\ links' = links /\ connected' = connected
        /\ todo' = todo /\ joining' = joining /\ state[Owner(e)] # "gone"
    BY <1>6 DEF NeighborPushed
  <2>3. Owned' /\ NoBacklog' /\ LeavingFree' /\ GoneEnded'
    BY <1>1, <2>1, <2>2
  <2>4. Reading' /\ ListenedTo'
    BY <1>1, <2>1, <2>2
  <2>5. AddersListed'
    BY <1>1, <2>1, <2>2
  <2>. QED  BY <2>3, <2>4, <2>5
<1>. QED  BY <1>2, <1>3, <1>4, <1>5, <1>6

LEMMA MonitorStanding ==
    ASSUME TypeInv, Standing, NEW n \in Node, MonitorFrees(n) \/ MonitorJoins(n)
    PROVE  Standing'
<1>. USE DEF TypeInv, Types, Standing, Owned, GoneEnded, Reading, ListenedTo, AddersListed,
             NoBacklog, LeavingFree, Adding
<1>1. /\ \A k \in Node : \A x \in peers[k] : x \in End /\ x \in In(links) /\ At(links, x) = k
      /\ \A x \in In(links) : x \in End /\ At(links, x) \in Node
  BY ListedFacts, LinkFacts DEF Listed
<1>2. CASE MonitorFrees(n)
  BY <1>1, <1>2 DEF MonitorFrees, Disconnected, Joinable
<1>3. CASE MonitorJoins(n)
  BY <1>1, <1>3 DEF MonitorJoins
<1>. QED  BY <1>2, <1>3

LEMMA ProcessEndsStanding ==
    ASSUME TypeInv, Standing, NEW n \in Node, NEW event, ProcessEnds(n, event), state[n] # "down"
    PROVE  Standing'
<1>. USE DEF TypeInv, Types, Standing, Owned, GoneEnded, Reading, ListenedTo, AddersListed,
             NoBacklog, LeavingFree, Adding
<1>1. /\ \A k \in Node : \A x \in peers[k] : x \in End /\ x \in In(links) /\ At(links, x) = k
      /\ \A x \in In(links) : x \in End /\ At(links, x) \in Node
  BY ListedFacts, LinkFacts DEF Listed
<1>2. \A x \in End : x \in EndsOf(n) <=> x \in In(links) /\ At(links, x) = n
  BY EndsOfFacts
<1>3. /\ state' = [state EXCEPT ![n] = "gone"] /\ peers' = [peers EXCEPT ![n] = {}]
      /\ joining' = [joining EXCEPT ![n] = NoEnd]
      /\ links' = links /\ connected' = connected
      /\ \A x \in In(links) : At(links, x) = n => thread'[x] = "ended"
      /\ \A x \in In(links) : At(links, x) # n => thread'[x] = thread[x] /\ todo'[x] = todo[x]
  BY <1>1, <1>2 DEF ProcessEnds
<1>. QED  BY <1>1, <1>3

LEMMA TerminateStanding ==
    ASSUME TypeInv, Standing, NEW n \in Node, Terminate(n)
    PROVE  Standing'
<1>. USE DEF TypeInv, Types, Standing, Owned, GoneEnded, Reading, ListenedTo, AddersListed,
             NoBacklog, LeavingFree, Adding
<1>1. /\ \A k \in Node : \A x \in peers[k] : x \in End /\ x \in In(links) /\ At(links, x) = k
      /\ \A x \in In(links) : x \in End /\ At(links, x) \in Node
  BY ListedFacts, LinkFacts DEF Listed
<1>2. PICK reset \in SUBSET Backlog(n) :
         /\ thread' = [e \in End |-> IF e \in reset THEN "none" ELSE thread[e]]
         /\ events' = events \cup {"reset" : e \in reset}
  BY DEF Terminate
<1>3. \A x \in In(links) : thread'[x] = thread[x] \/ (thread[x] = "backlog" /\ thread'[x] = "none")
  BY <1>1, <1>2 DEF Backlog
<1>4. /\ state' = [state EXCEPT ![n] = "leaving"] /\ state[n] = "up" /\ joining[n] = NoEnd
      /\ links' = links /\ peers' = peers /\ connected' = connected
      /\ todo' = todo /\ joining' = joining
  BY DEF Terminate, MutexFree
<1>5. Owned' /\ NoBacklog' /\ LeavingFree'
  BY <1>1, <1>3, <1>4
<1>6. AddersListed'
  <2>1. \A x \in In(links) : Adding(x)' => Adding(x)
    BY <1>1, <1>3, <1>4
  <2>2. \A x \in In(links) : At(links, x) = n /\ Adding(x) => x \in peers[n]
    BY <1>1, <1>4
  <2>. QED  BY <1>1, <1>4, <2>1, <2>2
<1>7. GoneEnded'
  <2>1. \A k \in Node : state'[k] = "gone" => state[k] = "gone"
    BY <1>4
  <2>2. \A x \in In(links) : thread[x] = "ended" => thread'[x] = "ended"
    BY <1>3
  <2>. QED  BY <1>4, <2>1, <2>2
<1>8. Reading'
  <2>1. \A x \in In(links) : thread'[x] = "reads" => thread[x] = "reads"
    BY <1>3
  <2>. QED  BY <1>4, <2>1
<1>9. ListenedTo'
  <2>1. \A k \in Node : \A x \in peers[k] : x \in In(links) /\ thread'[x] = thread[x]
    BY <1>1, <1>3 DEF Listed
  <2>2. \A k \in Node : k # n => state'[k] = state[k]
    BY <1>4
  <2>3. state'[n] # "up"
    BY <1>4
  <2>. QED  BY <1>4, <2>1, <2>2, <2>3
<1>. QED  BY <1>5, <1>6, <1>7, <1>8, <1>9

LEMMA LeaveStanding ==
    ASSUME TypeInv, Standing, NEW n \in Node, Leave(n)
    PROVE  Standing'
<1>. USE DEF TypeInv, Types, Standing, Owned, GoneEnded, Reading, ListenedTo, AddersListed,
             NoBacklog, LeavingFree, Adding
<1>1. /\ \A k \in Node : \A x \in peers[k] : x \in End /\ x \in In(links) /\ At(links, x) = k
      /\ \A x \in In(links) : x \in End /\ At(links, x) \in Node
  BY ListedFacts, LinkFacts DEF Listed
<1>2. ASSUME NEW e \in peers[n], LeaveChoosing(n, e) \/ LeaveTelling(n, e) PROVE Standing'
  <2>1. /\ state[n] \in {"leaving", "closing"} /\ state' = [state EXCEPT ![n] = "closing"]
        /\ connected' = [connected EXCEPT ![e] = FALSE]
        /\ thread' = [thread EXCEPT ![e] = IF @ = "reads" THEN "ended" ELSE @]
        /\ peers' = [peers EXCEPT ![n] = @ \ {e}] /\ joining' = [joining EXCEPT ![n] = e]
        /\ links' = links /\ todo' = todo
    BY <1>2 DEF LeaveChoosing, LeaveTelling, Disconnect
  <2>2. \A x \in In(links) : At(links, x) = n /\ Adding(x) => x \in peers[n]
    BY <1>1, <1>2 DEF LeaveChoosing, LeaveTelling, MutexFree, Joinable
  <2>3. \A x \in In(links) : At(links, x) = n => thread[x] # "backlog"
    BY <1>1, <1>2, EndsOfFacts DEF LeaveChoosing, LeaveTelling, Backlog
  <2>4. e \in End /\ e \in In(links) /\ At(links, e) = n
    BY <1>1
  <2>5. \A x \in In(links) : thread'[x] = thread[x] \/ (x = e /\ thread'[x] = "ended")
    BY <1>1, <2>1, <2>4
  <2>6. Owned' /\ NoBacklog' /\ LeavingFree'
    BY <1>1, <2>1, <2>3, <2>4, <2>5
  <2>7. GoneEnded' /\ Reading'
    BY <1>1, <2>1, <2>4, <2>5
  <2>8. ListenedTo'
    BY <1>1, <2>1, <2>4, <2>5
  <2>9. AddersListed'
    BY <1>1, <2>1, <2>2, <2>4, <2>5
  <2>. QED  BY <2>6, <2>7, <2>8, <2>9
<1>3. CASE LeaveEnds(n)
  BY <1>3, ProcessEndsStanding DEF LeaveEnds
<1>. QED  BY <1>2, <1>3 DEF Leave

LEMMA StandingStep == TypeInv /\ Standing /\ [Next]_vars => Standing'
<1>. SUFFICES ASSUME TypeInv, Standing, [Next]_vars PROVE Standing'
  OBVIOUS
<1>1. Types
  BY DEF TypeInv
<1>2. CASE UNCHANGED vars
  BY <1>2 DEF vars, Standing, Owned, GoneEnded, Reading, ListenedTo, AddersListed, NoBacklog,
              LeavingFree, Adding
<1>3. ASSUME NEW e \in Ends, Accept(e) \/ Listener(e) \/ HearSearch(e) PROVE Standing'
  <2>1. CASE NeighborUnknown(e)
    <3>1. Owner(e) \in Node /\ state[Owner(e)] # "down"
      BY <1>1, OwnerFacts DEF Standing, Owned
    <3>. QED  BY <2>1, <3>1, ProcessEndsStanding DEF NeighborUnknown
  <2>. QED  BY <1>3, <2>1, HearStanding, AddStanding DEF Listener
<1>4. ASSUME NEW n \in Node, MonitorFrees(n) \/ MonitorJoins(n) \/ Leave(n) PROVE Standing'
  BY <1>4, MonitorStanding, LeaveStanding
<1>5. ASSUME NEW n \in Node, NEW m \in Joins[n], Start(n, m) \/ StartRefused(n, m) PROVE Standing'
  BY <1>5, StartStanding
<1>6. ASSUME NEW n \in leavers, Terminate(n) PROVE Standing'
  BY <1>1, <1>6, TerminateStanding DEF Types
<1>. QED  BY <1>2, <1>3, <1>4, <1>5, <1>6 DEF Next, Threads, World

LEMMA StandingInit == Init => Standing
<1>. SUFFICES ASSUME Init PROVE Standing
  OBVIOUS
<1>1. TypeInv
  BY TypeInvInit
<1>2. ASSUME NEW e \in In(links) PROVE state[At(links, e)] = "up" /\ e \in peers[At(links, e)]
  <2>1. e \in End /\ At(links, e) \in Node /\ e[1] \in 1..Len(links)
    <3>1. e \in End /\ At(links, e) \in Node /\ e[1] <= Len(links) /\ links \in Seq(Node \X Node)
      BY <1>1, LinkFacts DEF TypeInv, Types, In
    <3>2. e[1] \in 1..MaxLinks
      BY <3>1 DEF End
    <3>. QED  BY <3>1, <3>2, OverlayAssumption
  <2>2. PICK o \in Overlays :
           links = o.links /\ state = [n \in Node |-> IF n \in o.up THEN "up" ELSE "down"]
    BY DEF Init
  <2>3. At(links, e) \in o.up
    BY <2>1, <2>2, StartAssumption DEF At
  <2>4. e \in EndsOf(At(links, e))
    BY <1>1, <2>1, EndsOfFacts DEF TypeInv
  <2>. QED  BY <2>1, <2>2, <2>3, <2>4 DEF Init
<1>3. \A n \in Node : state[n] \in {"up", "down"} /\ joining[n] = NoEnd
  BY DEF Init
<1>4. \A n \in Node : \A e \in peers[n] : e \in End /\ e \in Ends
  BY <1>1, ListedFacts DEF TypeInv
<1>5. \A e \in End : e \in In(links) <=> e \in Ends
  BY DEF In, Ends
<1>6. \A e \in End : e \in Ends => thread[e] = "reads" /\ connected[e]
  BY DEF Init
<1>7. Owned /\ GoneEnded /\ NoBacklog /\ LeavingFree
  BY <1>2, <1>3 DEF Owned, GoneEnded, NoBacklog, LeavingFree
<1>8. Reading /\ ListenedTo
  BY <1>2, <1>4, <1>5, <1>6 DEF Reading, ListenedTo, In
<1>9. AddersListed
  BY <1>2 DEF AddersListed
<1>. QED  BY <1>7, <1>8, <1>9 DEF Standing

LEMMA StandingHolds == Spec => []Standing
BY StandingInit, StandingStep, TypeInvHolds, PTL DEF Spec

----------------------------------------------------------------------------
(* What is on the way to an end.                                           *)

SaysGoodbye(q) == \E i \in 1..Len(q) : q[i].type # "CONNECT"
Introduces(q) == q # <<>> /\ Head(q).type = "CONNECT"
NamesOnly(q, m) == \A i \in 1..Len(q) : q[i].type = "CONNECT" => q[i].names = {m}

LEMMA EmptyTalk ==
    ASSUME NEW m
    PROVE  ~SaysGoodbye(<<>>) /\ NamesOnly(<<>>, m)
BY DEF SaysGoodbye, NamesOnly

LEMMA ConnectTalk ==
    ASSUME NEW m \in Node
    PROVE  LET q == <<Msg("CONNECT", {m})>> IN ~SaysGoodbye(q) /\ Introduces(q) /\ NamesOnly(q, m)
<1>. DEFINE msg == Msg("CONNECT", {m})
            q == <<msg>>
<1>1. msg.type = "CONNECT" /\ msg.names = {m}
  BY DEF Msg
<1>. HIDE DEF msg
<1>2. Len(q) = 1 /\ q[1] = msg /\ Head(q) = msg /\ q # <<>>
  OBVIOUS
<1>3. \A i \in 1..Len(q) : q[i] = msg
  BY <1>2
<1>. HIDE DEF q
<1>4. ~SaysGoodbye(q) /\ Introduces(q) /\ NamesOnly(q, m)
  BY <1>1, <1>2, <1>3 DEF SaysGoodbye, Introduces, NamesOnly
<1>. QED  BY <1>4 DEF q, msg

LEMMA TailTalk ==
    ASSUME NEW q \in Seq(Message), q # <<>>, NEW m
    PROVE  /\ Tail(q) \in Seq(Message) /\ Head(q) \in Message
           /\ SaysGoodbye(Tail(q)) => SaysGoodbye(q)
           /\ SaysGoodbye(q) /\ Head(q).type = "CONNECT" => SaysGoodbye(Tail(q))
           /\ Head(q).type # "CONNECT" => SaysGoodbye(q) /\ ~Introduces(q)
           /\ NamesOnly(q, m) => NamesOnly(Tail(q), m)
           /\ NamesOnly(q, m) /\ Head(q).type = "CONNECT" => Head(q).names = {m}
<1>1. /\ Tail(q) \in Seq(Message) /\ Len(q) \in Nat /\ Len(q) > 0 /\ Len(Tail(q)) = Len(q) - 1
      /\ Head(q) = q[1] /\ Head(q) \in Message
  OBVIOUS
<1>2. \A i \in 1..Len(Tail(q)) : Tail(q)[i] = q[i + 1] /\ i + 1 \in 1..Len(q)
  BY <1>1
<1>3. \A i \in 1..Len(q) : i = 1 \/ (i - 1 \in 1..Len(Tail(q)) /\ Tail(q)[i - 1] = q[i])
  BY <1>1
<1>4. SaysGoodbye(Tail(q)) => SaysGoodbye(q)
  BY <1>2 DEF SaysGoodbye
<1>5. SaysGoodbye(q) /\ Head(q).type = "CONNECT" => SaysGoodbye(Tail(q))
  BY <1>1, <1>3 DEF SaysGoodbye
<1>6. Head(q).type # "CONNECT" => SaysGoodbye(q) /\ ~Introduces(q)
  BY <1>1 DEF SaysGoodbye, Introduces
<1>7. NamesOnly(q, m) => NamesOnly(Tail(q), m)
  BY <1>2 DEF NamesOnly
<1>8. NamesOnly(q, m) /\ Head(q).type = "CONNECT" => Head(q).names = {m}
  BY <1>1 DEF NamesOnly
<1>. QED  BY <1>1, <1>4, <1>5, <1>6, <1>7, <1>8

LEMMA AppendTalk ==
    ASSUME NEW q \in Seq(Message), NEW msg \in Message, msg.type # "CONNECT", NEW m
    PROVE  /\ SaysGoodbye(Append(q, msg))
           /\ Introduces(q) => Introduces(Append(q, msg))
           /\ NamesOnly(q, m) => NamesOnly(Append(q, msg), m)
<1>. DEFINE r == Append(q, msg)
<1>1. /\ Len(r) = Len(q) + 1 /\ Len(q) \in Nat /\ r[Len(q) + 1] = msg
      /\ \A i \in 1..Len(q) : r[i] = q[i]
      /\ q # <<>> => Head(r) = Head(q) /\ r # <<>>
  OBVIOUS
<1>. HIDE DEF r
<1>2. \A i \in 1..Len(r) : i \in 1..Len(q) \/ i = Len(q) + 1
  BY <1>1
<1>3. SaysGoodbye(r)
  BY <1>1 DEF SaysGoodbye
<1>4. (Introduces(q) => Introduces(r)) /\ (NamesOnly(q, m) => NamesOnly(r, m))
  BY <1>1, <1>2 DEF Introduces, NamesOnly
<1>. QED  BY <1>3, <1>4 DEF r

\* Start, with the new end at n named.
Started(n, m, out) ==
    /\ state[n] = "down" /\ state[m] = "up" /\ m \in Node
    /\ links' = Append(links, <<n, m>>) /\ Longer(links, links', n, m, out)
    /\ state' = [state EXCEPT ![n] = "up"] /\ peers' = [peers EXCEPT ![n] = {out}]
    /\ thread' = [thread EXCEPT ![out] = "reads", ![Other(out)] = "backlog"]
    /\ name' = [name EXCEPT ![out] = m]
    /\ connected' = [connected EXCEPT ![out] = TRUE]
    /\ chan' = [chan EXCEPT ![Other(out)] = <<Msg("CONNECT", {n})>>]
    /\ todo' = todo /\ now' = now /\ joining' = joining /\ events' = events

LEMMA StartEffect ==
    ASSUME TypeInv, NEW n \in Node, NEW m \in Joins[n], Start(n, m)
    PROVE  \E out \in End : Started(n, m, out)
<1>1. Types /\ m \in Node
  BY OverlayAssumption DEF TypeInv
<1>2. PICK out \in End : Made(out, n, m, [thread EXCEPT ![<<Len(links) + 1, "out">>] = "reads"])
  BY <1>1, MadeFacts DEF Start
<1>3. Started(n, m, out)
  BY <1>1, <1>2 DEF Start, Made, Started
<1>. QED  BY <1>3

\* NeighborAnswers, with the new end at the owner of e named.
Answered(e, out) ==
    /\ thread[e] = "connects" /\ now[e] \in Node /\ state[now[e]] = "up" /\ state[Owner(e)] # "gone"
    /\ links' = Append(links, <<Owner(e), now[e]>>)
    /\ Longer(links, links', Owner(e), now[e], out)
    /\ thread' = [thread EXCEPT ![e] = "pushes", ![Other(out)] = "backlog"]
    /\ name' = [name EXCEPT ![out] = now[e]]
    /\ connected' = [connected EXCEPT ![out] = TRUE]
    /\ chan' = [chan EXCEPT ![Other(out)] = <<Msg("CONNECT", {Owner(e)})>>]
    /\ now' = [now EXCEPT ![e] = out]
    /\ state' = state /\ peers' = peers /\ todo' = todo /\ joining' = joining /\ events' = events

LEMMA AnswerEffect ==
    ASSUME TypeInv, NEW e \in Ends, NeighborAnswers(e)
    PROVE  \E out \in End : Answered(e, out)
<1>1. Owner(e) \in Node /\ e \in End /\ Types
  BY OwnerFacts DEF TypeInv
<1>2. now[e] \in Node /\ thread[e] = "connects"
  BY <1>1 DEF NeighborAnswers, TypeInv, Connecting
<1>3. PICK out \in End : Made(out, Owner(e), now[e], [thread EXCEPT ![e] = "pushes"])
  BY <1>1, <1>2, MadeFacts DEF NeighborAnswers
<1>4. Answered(e, out)
  BY <1>2, <1>3 DEF NeighborAnswers, Made, Answered
<1>. QED  BY <1>4

\* One peer is disconnected by disconnect_all_peers.
Parted(n, e, msg) ==
    /\ state[n] \in {"leaving", "closing"} /\ state' = [state EXCEPT ![n] = "closing"]
    /\ msg \in Message /\ msg.type # "CONNECT"
    /\ msg.type = "ADDNBRS" => state[n] = "leaving" /\ msg = Msg("ADDNBRS", NamesOfOthers(n, e))
    /\ state[n] = "leaving" => Backlog(n) = {} /\ (peers[n] # {e} => msg.type = "ADDNBRS")
    /\ \/ /\ chan' = chan
          /\ events' = {} => /\ ~connected[e] \/ state[Owner(Other(e))] = "gone"
                            /\ msg.type # "ADDNBRS"
       \/ /\ chan' = [chan EXCEPT ![Other(e)] = Append(@, msg)] /\ events' = events
          /\ state[Owner(Other(e))] # "gone"
    /\ events \subseteq events'
    /\ connected' = [connected EXCEPT ![e] = FALSE]
    /\ thread' = [thread EXCEPT ![e] = IF @ = "reads" THEN "ended" ELSE @]
    /\ peers' = [peers EXCEPT ![n] = @ \ {e}]
    /\ joining' = [joining EXCEPT ![n] = e]
    /\ links' = links /\ name' = name /\ todo' = todo /\ now' = now

LEMMA PartEffect ==
    ASSUME TypeInv, NEW n \in Node, NEW e \in peers[n], LeaveChoosing(n, e) \/ LeaveTelling(n, e)
    PROVE  \E msg \in Message : Parted(n, e, msg)
<1>1. Types
  BY DEF TypeInv
<1>2. /\ Msg("DISCONNECT", {}) \in Message /\ Msg("ADDNBRS", NamesOfOthers(n, e)) \in Message
      /\ Msg("DISCONNECT", {}).type = "DISCONNECT"
      /\ Msg("ADDNBRS", NamesOfOthers(n, e)).type = "ADDNBRS"
  BY <1>1, MessageTypes DEF Msg
<1>3. PICK msg \in {Msg("DISCONNECT", {}), Msg("ADDNBRS", NamesOfOthers(n, e))} :
         /\ Disconnect(n, e, msg)
         /\ msg.type = "ADDNBRS" => state[n] = "leaving"
         /\ state[n] = "leaving" => Backlog(n) = {} /\ (peers[n] # {e} => msg.type = "ADDNBRS")
  BY <1>2 DEF LeaveChoosing, LeaveTelling
<1>4. state[n] \in {"leaving", "closing"} /\ state' = [state EXCEPT ![n] = "closing"]
  BY <1>1 DEF LeaveChoosing, LeaveTelling, Types
<1>5. \/ /\ chan' = chan
         /\ events' = {} => /\ ~connected[e] \/ state[Owner(Other(e))] = "gone"
                           /\ msg.type # "ADDNBRS"
      \/ /\ chan' = [chan EXCEPT ![Other(e)] = Append(@, msg)] /\ events' = events
         /\ state[Owner(Other(e))] # "gone"
  BY <1>3, <1>1 DEF Disconnect, Types
<1>6. Parted(n, e, msg)
  BY <1>2, <1>3, <1>4, <1>5 DEF Parted, Disconnect
<1>. QED  BY <1>2, <1>6

----------------------------------------------------------------------------
(* What the two ends of a connection know of each other.                   *)

Ending(n) == state[n] \in {"closing", "gone"}

\* A goodbye is on its way to e, or was read and e not yet freed, only when the
\* other server is leaving.
GoodbyeSent == \A e \in In(links) :
    SaysGoodbye(chan[e]) \/ (e \in peers[At(links, e)] /\ ~connected[e])
        => Ending(At(links, Other(e)))

\* The name of an end is the peer's, or is about to be read.
Named == \A e \in In(links) :
    /\ NamesOnly(chan[e], At(links, Other(e)))
    /\ \/ name[e] = At(links, Other(e)) \/ state[At(links, e)] = "gone"
       \/ Introduces(chan[e])

Pushed(e) == \E x \in End : thread[x] = "pushes" /\ now[x] = e
Told(e) == SaysGoodbye(chan[e]) \/ (~connected[e] /\ thread[e] # "backlog")

\* The other side lists the connection or is about to, or e is told that it does not.
Mutual(e) ==
    \/ Other(e) \in peers[At(links, Other(e))] \/ thread[Other(e)] = "backlog"
    \/ Pushed(Other(e)) \/ Told(e)

OtherSide == Clean => \A e \in In(links) : state[At(links, e)] = "up" => Mutual(e)

Ground ==
    /\ \A x \in In(links) : /\ x \in End /\ Other(x) \in In(links) /\ Other(x) \in End
                            /\ Other(Other(x)) = x /\ Other(x) # x
                            /\ At(links, x) \in Node /\ At(links, Other(x)) \in Node
    /\ \A n \in Node : \A x \in peers[n] : x \in In(links) /\ At(links, x) = n

LEMMA GroundHolds == TypeInv => Ground
BY LinkFacts, EndFacts DEF Ground, TypeInv, Types, Listed, In

LEMMA HearGoodbye ==
    ASSUME TypeInv, Standing, GoodbyeSent, NEW e \in Ends,
           HearConnect(e) \/ HearDisconnect(e) \/ HearAddNeighbors(e) \/ HearSearch(e) \/ Accept(e)
    PROVE  GoodbyeSent'
<1>1. Ground /\ e \in In(links) /\ Owner(e) = At(links, e) /\ Types
  BY GroundHolds, OwnerFacts DEF TypeInv
<1>2. CASE HearSearch(e) \/ Accept(e)
  <2>1. CASE HearSearch(e)
    BY <2>1 DEF HearSearch, GoodbyeSent, Ending
  <2>2. CASE Accept(e)
    <3>1. /\ links' = links /\ chan' = chan /\ state' = state /\ connected'[e]
          /\ \A x \in In(links) : x # e => (connected'[x] <=> connected[x])
      BY <1>1, <2>2 DEF Accept, Types, Ground
    <3>2. \A x \in In(links) : x # e /\ x \in peers'[At(links, x)] => x \in peers[At(links, x)]
      BY <1>1, <2>2 DEF Accept, Types, Ground
    <3>. QED  BY <3>1, <3>2 DEF GoodbyeSent, Ending
  <2>. QED  BY <1>2, <2>1, <2>2
<1>3. CASE HearConnect(e) \/ HearDisconnect(e) \/ HearAddNeighbors(e)
  <2>1. /\ chan[e] # <<>> /\ chan[e] \in Seq(Message) /\ chan' = [chan EXCEPT ![e] = Tail(@)]
        /\ state' = state /\ peers' = peers /\ links' = links
        /\ \/ connected' = connected 
           \/ connected' = [connected EXCEPT ![e] = FALSE] /\ Head(chan[e]).type # "CONNECT"
    BY <1>1, <1>3 DEF HearConnect, HearDisconnect, HearAddNeighbors, Hears, Ground, Types
  <2>2. SaysGoodbye(Tail(chan[e])) \/ Head(chan[e]).type # "CONNECT" => SaysGoodbye(chan[e])
    BY <2>1, TailTalk
  <2>3. SaysGoodbye(chan'[e]) \/ (e \in peers'[At(links, e)] /\ ~connected'[e])
          => Ending(At(links, Other(e)))
    BY <1>1, <2>1, <2>2 DEF GoodbyeSent, Ground, Types
  <2>4. \A x \in In(links) : x # e => chan'[x] = chan[x] /\ (connected'[x] <=> connected[x])
    BY <1>1, <2>1 DEF Ground, Types
  <2>. QED  BY <2>1, <2>3, <2>4 DEF GoodbyeSent, Ending
<1>. QED  BY <1>2, <1>3

LEMMA HearNamed ==
    ASSUME TypeInv, Standing, Named, NEW e \in Ends,
           HearConnect(e) \/ HearDisconnect(e) \/ HearAddNeighbors(e) \/ HearSearch(e) \/ Accept(e)
    PROVE  Named'
<1>1. Ground /\ e \in In(links) /\ Owner(e) = At(links, e) /\ Types
  BY GroundHolds, OwnerFacts DEF TypeInv
<1>2. CASE HearSearch(e) \/ Accept(e)
  BY <1>1, <1>2 DEF HearSearch, Accept, Named
<1>3. CASE HearConnect(e) \/ HearDisconnect(e) \/ HearAddNeighbors(e)
  <2>. DEFINE m == At(links, Other(e))
  <2>1. /\ chan[e] # <<>> /\ chan[e] \in Seq(Message) /\ chan' = [chan EXCEPT ![e] = Tail(@)]
        /\ state' = state /\ links' = links
        /\ \/ name' = name /\ Head(chan[e]).type # "CONNECT"
           \/ /\ \E k \in Head(chan[e]).names : name' = [name EXCEPT ![e] = k]
              /\ Head(chan[e]).type = "CONNECT"
    BY <1>1, <1>3 DEF HearConnect, HearDisconnect, HearAddNeighbors, Hears, Ground, Types
  <2>2. NamesOnly(chan[e], m) /\ (name[e] = m \/ state[At(links, e)] = "gone" \/ Introduces(chan[e]))
    BY <1>1 DEF Named
  <2>3. /\ NamesOnly(Tail(chan[e]), m)
        /\ Head(chan[e]).type # "CONNECT" => ~Introduces(chan[e])
        /\ Head(chan[e]).type = "CONNECT" => Head(chan[e]).names = {m}
    BY <2>1, <2>2, TailTalk
  <2>4. name'[e] = m \/ state'[At(links, e)] = "gone"
    BY <1>1, <2>1, <2>2, <2>3 DEF Ground, Types
  <2>5. \A x \in In(links) : x # e => chan'[x] = chan[x] /\ name'[x] = name[x]
    BY <1>1, <2>1 DEF Ground, Types
  <2>6. chan'[e] = Tail(chan[e])
    BY <1>1, <2>1 DEF Ground, Types
  <2>. QED  BY <2>1, <2>3, <2>4, <2>5, <2>6 DEF Named
<1>. QED  BY <1>2, <1>3

\* Nothing at e's side or the other's has changed for the worse.
LEMMA MutualStays ==
    ASSUME TypeInv, NEW e \in In(links), Mutual(e), links' = links,
           Other(e) \in peers[At(links, Other(e))] => Other(e) \in peers'[At(links, Other(e))],
           thread[Other(e)] = "backlog" =>
               thread'[Other(e)] = "backlog" \/ Other(e) \in peers'[At(links, Other(e))],
           Pushed(Other(e)) => Pushed(Other(e))' \/ Other(e) \in peers'[At(links, Other(e))],
           Told(e) => Told(e)'
    PROVE  Mutual(e)'
BY DEF Mutual

LEMMA HearMutual ==
    ASSUME TypeInv, Standing, OtherSide, NEW e \in Ends,
           HearConnect(e) \/ HearDisconnect(e) \/ HearAddNeighbors(e) \/ HearSearch(e) \/ Accept(e)
    PROVE  OtherSide'
<1>1. Ground /\ e \in In(links) /\ e \in End /\ Owner(e) = At(links, e) /\ Types
  BY GroundHolds, OwnerFacts DEF TypeInv
<1>2. events' = events /\ state' = state /\ links' = links /\ now' = now
  BY DEF HearConnect, HearDisconnect, HearAddNeighbors, HearSearch, Accept
<1>3. \A k \in Node : \A x \in peers[k] : x \in peers'[k]
  <2>1. peers' = peers \/ peers' = [peers EXCEPT ![Owner(e)] = @ \cup {e}]
    BY DEF HearConnect, HearDisconnect, HearAddNeighbors, HearSearch, Accept
  <2>2. ASSUME NEW k \in Node, NEW x \in peers[k], peers' = [peers EXCEPT ![Owner(e)] = @ \cup {e}]
        PROVE  x \in peers'[k]
    BY <1>1, <2>2 DEF Types
  <2>. QED  BY <2>1, <2>2
<1>4. /\ thread[e] \in {"reads", "backlog"} /\ thread'[e] # "backlog"
      /\ \A x \in End : x # e => thread'[x] = thread[x]
      /\ thread[e] = "backlog" => e \in peers'[At(links, e)]
  <2>1. CASE Accept(e)
    BY <1>1, <2>1 DEF Accept, Types, Ground
  <2>2. CASE ~Accept(e)
    <3>1. PICK does \in {"reads", "adds", "ended"} : thread' = [thread EXCEPT ![e] = does]
      BY <2>2 DEF HearConnect, HearDisconnect, HearAddNeighbors, Loops, HearSearch
    <3>2. thread[e] = "reads"
      BY <2>2 DEF HearConnect, HearDisconnect, HearAddNeighbors, Hears, HearSearch
    <3>. QED  BY <1>1, <3>1, <3>2 DEF Types
  <2>. QED  BY <2>1, <2>2
<1>5. ASSUME NEW x \in In(links), Told(x) PROVE Told(x)'
  <2>1. CASE x # e
    BY <1>1, <1>4, <1>5, <2>1 DEF Told, Ground, HearConnect, HearDisconnect, HearAddNeighbors, Hears,
          HearSearch, Accept, Types
  <2>2. CASE x = e /\ Accept(e)
    BY <1>1, <1>5, <2>2 DEF Told, Accept
  <2>3. CASE x = e /\ HearSearch(e)
    BY <1>1, <1>4, <1>5, <2>3 DEF Told, HearSearch
  <2>4. CASE x = e /\ HearConnect(e)
    <3>1. SaysGoodbye(chan[e]) => SaysGoodbye(Tail(chan[e]))
      BY <1>1, <2>4, TailTalk DEF HearConnect, Hears, Types
    <3>. QED  BY <1>1, <1>4, <1>5, <2>4, <3>1 DEF Told, HearConnect, Hears, Types
  <2>5. CASE x = e /\ (HearDisconnect(e) \/ HearAddNeighbors(e))
    BY <1>1, <1>4, <2>5 DEF Told, HearDisconnect, HearAddNeighbors, Types
  <2>. QED  BY <2>1, <2>2, <2>3, <2>4, <2>5
<1>6. ASSUME NEW x \in In(links), Pushed(x) PROVE Pushed(x)'
  BY <1>1, <1>2, <1>4, <1>6 DEF Pushed
<1>7. ASSUME NEW x \in In(links), Mutual(x) PROVE Mutual(x)'
  <2>1. Other(x) \in In(links) /\ Other(x) \in End /\ At(links, Other(x)) \in Node
    BY <1>1 DEF Ground
  <2>2. thread[Other(x)] = "backlog" =>
            thread'[Other(x)] = "backlog" \/ Other(x) \in peers'[At(links, Other(x))]
    BY <1>4, <2>1
  <2>. QED  BY <1>2, <1>3, <1>5, <1>6, <1>7, <2>1, <2>2, MutualStays
<1>. QED  BY <1>2, <1>7 DEF OtherSide, Clean

Talk == GoodbyeSent /\ Named /\ OtherSide

LEMMA StartTalk ==
    ASSUME TypeInv, Standing, Talk, NEW n \in Node, NEW m \in Joins[n], Start(n, m)
    PROVE  Talk'
<1>. USE DEF Talk
<1>1. Ground /\ Types /\ Unmade /\ \A x \in In(links) : At(links, x) # n \/ state[n] # "down"
  BY GroundHolds DEF TypeInv, Standing, Owned
<1>2. PICK out \in End : Started(n, m, out)
  BY StartEffect
<1>. DEFINE in == Other(out)
<1>3. /\ Longer(links, links', n, m, out) /\ in \in End /\ in # out /\ out \notin In(links)
      /\ in \notin In(links) /\ In(links') = In(links) \cup {out, in} /\ Other(in) = out
      /\ At(links', out) = n /\ At(links', in) = m /\ m \in Node /\ m # n
  BY <1>2, EndFacts DEF Started, Longer
<1>4. /\ state'[n] = "up" /\ \A k \in Node : k # n => state'[k] = state[k] /\ peers'[k] = peers[k]
      /\ peers'[n] = {out} /\ events' = events
      /\ name'[out] = m /\ connected'[out] /\ chan'[out] = <<>>
      /\ thread'[in] = "backlog" /\ chan'[in] = <<Msg("CONNECT", {n})>>
  BY <1>1, <1>2, <1>3 DEF Started, Types, Unmade
<1>5. ASSUME NEW x \in In(links)
      PROVE  /\ x # in /\ x # out
             /\ At(links', x) = At(links, x) /\ At(links', Other(x)) = At(links, Other(x))
             /\ chan'[x] = chan[x] /\ name'[x] = name[x] /\ thread'[x] = thread[x]
             /\ thread'[Other(x)] = thread[Other(x)]
             /\ (connected'[x] <=> connected[x])
             /\ state'[At(links, x)] = state[At(links, x)] /\ peers'[At(links, x)] = peers[At(links, x)]
             /\ state'[At(links, Other(x))] = state[At(links, Other(x))]
             /\ peers'[At(links, Other(x))] = peers[At(links, Other(x))]
  <2>1. x # in /\ x # out /\ Other(x) # in /\ Other(x) # out /\ x \in End /\ Other(x) \in End
    BY <1>1, <1>3 DEF Ground
  <2>2. At(links', x) = At(links, x) /\ At(links', Other(x)) = At(links, Other(x))
    BY <1>1, <1>3 DEF Ground, Longer
  <2>3. /\ chan'[x] = chan[x] /\ name'[x] = name[x] /\ thread'[x] = thread[x]
        /\ thread'[Other(x)] = thread[Other(x)] /\ (connected'[x] <=> connected[x])
    BY <1>1, <1>2, <1>3, <2>1 DEF Started, Types
  <2>4. At(links, x) # n /\ At(links, Other(x)) # n
    BY <1>1, <1>2 DEF Ground, Started
  <2>. QED  BY <1>1, <1>4, <2>1, <2>2, <2>3, <2>4 DEF Ground
<1>6. /\ ~SaysGoodbye(chan'[out]) /\ NamesOnly(chan'[out], m)
      /\ ~SaysGoodbye(chan'[in]) /\ NamesOnly(chan'[in], n) /\ Introduces(chan'[in])
  BY <1>4, EmptyTalk, ConnectTalk
<1>. HIDE DEF in
<1>7. Other(out) = in
  BY DEF in
<1>8. GoodbyeSent'
  <2>1. ASSUME NEW x \in In(links), SaysGoodbye(chan'[x]) \/ (x \in peers'[At(links', x)] /\ ~connected'[x])
        PROVE  state'[At(links', Other(x))] \in {"closing", "gone"}
    BY <1>5, <2>1 DEF GoodbyeSent, Ending
  <2>2. in \notin peers'[m]
    BY <1>1, <1>3, <1>4 DEF Ground
  <2>3. ~SaysGoodbye(chan'[out]) /\ connected'[out] /\ At(links', in) = m
        /\ ~SaysGoodbye(chan'[in])
    BY <1>3, <1>4, <1>6
  <2>4. \A x \in In(links') : x = out \/ x = in \/ x \in In(links)
    BY <1>3
  <2>. QED  BY <2>1, <2>2, <2>3, <2>4 DEF GoodbyeSent, Ending
<1>9. Named'
  <2>1. ASSUME NEW x \in In(links)
        PROVE  /\ NamesOnly(chan'[x], At(links', Other(x)))
               /\ \/ name'[x] = At(links', Other(x)) \/ state'[At(links', x)] = "gone"
                  \/ Introduces(chan'[x])
    BY <1>5 DEF Named
  <2>2. At(links', Other(out)) = m /\ At(links', Other(in)) = n
    BY <1>3, <1>7
  <2>3. NamesOnly(chan'[out], m) /\ name'[out] = m /\ NamesOnly(chan'[in], n) /\ Introduces(chan'[in])
    BY <1>4, <1>6
  <2>4. \A x \in In(links') : x = out \/ x = in \/ x \in In(links)
    BY <1>3
  <2>. QED  BY <2>1, <2>2, <2>3, <2>4 DEF Named
<1>10. OtherSide'
  <2>1. ASSUME NEW x \in In(links), Mutual(x) PROVE Mutual(x)'
    <3>1. Pushed(Other(x)) => Pushed(Other(x))'
      <4>1. \A y \in End : thread[y] = "pushes" => thread'[y] = "pushes"
        <5>. SUFFICES ASSUME NEW y \in End, thread[y] = "pushes" PROVE thread'[y] = "pushes"
          OBVIOUS
        <5>1. y \in In(links)
          BY <1>1 DEF Unmade
        <5>. QED  BY <5>1, <1>5
      <4>2. now' = now
        BY <1>2 DEF Started
      <4>. QED  BY <4>1, <4>2 DEF Pushed
    <3>. QED  BY <1>5, <2>1, <3>1 DEF Mutual, Told
  <2>2. Mutual(out)' /\ Mutual(in)'
    BY <1>3, <1>4, <1>7 DEF Mutual
  <2>. QED  BY <1>3, <1>4, <1>5, <2>1, <2>2 DEF OtherSide, Clean
<1>. QED  BY <1>8, <1>9, <1>10

LEMMA RefusedTalk ==
    ASSUME TypeInv, Standing, Talk, NEW n \in Node, NEW m \in Joins[n], StartRefused(n, m)
    PROVE  Talk'
<1>1. Ground /\ Types /\ \A x \in In(links) : At(links, x) # n
  BY GroundHolds DEF TypeInv, Standing, Owned, StartRefused
<1>2. /\ \A x \in In(links) : state'[At(links, x)] = state[At(links, x)]
      /\ \A x \in In(links) : state'[At(links, Other(x))] = state[At(links, Other(x))]
  BY <1>1 DEF StartRefused, Types, Ground
<1>3. /\ links' = links /\ peers' = peers /\ name' = name /\ connected' = connected
      /\ thread' = thread /\ now' = now /\ chan' = chan /\ events' = events
  BY DEF StartRefused
<1>4. GoodbyeSent' /\ Named'
  BY <1>2, <1>3 DEF Talk, GoodbyeSent, Named, Ending
<1>5. OtherSide'
  BY <1>2, <1>3 DEF Talk, OtherSide, Mutual, Told, Pushed, Clean
<1>. QED  BY <1>4, <1>5 DEF Talk

LEMMA AddTalk ==
    ASSUME TypeInv, Standing, Talk, NEW e \in Ends,
           \/ \E m \in todo[e] : KnownNeighbor(e, m) \/ NewNeighbor(e, m)
           \/ NeighborRefuses(e) \/ NeighborPushed(e)
    PROVE  Talk'
<1>. USE DEF Talk
<1>1. Ground /\ Types /\ e \in In(links) /\ e \in End /\ Owner(e) = At(links, e)
  BY GroundHolds, OwnerFacts DEF TypeInv
<1>2. CASE ~NeighborPushed(e)
  <2>1. /\ links' = links /\ state' = state /\ peers' = peers /\ name' = name
        /\ connected' = connected /\ chan' = chan
        /\ thread[e] \in {"adds", "connects"}
        /\ thread' \in {thread, [thread EXCEPT ![e] = "adds"], [thread EXCEPT ![e] = "connects"]}
        /\ now' = now \/ \E k \in Node \cup {NoName} : now' = [now EXCEPT ![e] = k]
        /\ events \subseteq events'
    BY <1>1, <1>2 DEF KnownNeighbor, NewNeighbor, NeighborRefuses, Types
  <2>2. GoodbyeSent' /\ Named'
    BY <2>1 DEF GoodbyeSent, Named, Ending
  <2>3. ASSUME NEW x \in In(links), Mutual(x) PROVE Mutual(x)'
    <3>1. \A y \in End : thread[y] \in {"pushes", "backlog"} => thread'[y] = thread[y] /\ now'[y] = now[y]
      BY <1>1, <2>1 DEF Types
    <3>2. \A y \in End : thread[y] # "backlog" => thread'[y] # "backlog"
      BY <1>1, <2>1 DEF Types
    <3>3. Pushed(Other(x)) => Pushed(Other(x))'
      BY <3>1 DEF Pushed
    <3>4. Told(x) => Told(x)'
      BY <2>1, <3>2, <1>1 DEF Told, Ground
    <3>5. thread[Other(x)] = "backlog" => thread'[Other(x)] = "backlog"
      BY <1>1, <3>1 DEF Ground
    <3>. QED  BY <2>1, <2>3, <3>3, <3>4, <3>5 DEF Mutual
  <2>4. OtherSide'
    BY <2>1, <2>3 DEF OtherSide, Clean
  <2>. QED  BY <2>2, <2>4
<1>3. CASE NeighborPushed(e)
  <2>. DEFINE f == now[e]
  <2>1. /\ thread[e] = "pushes" /\ f \in In(links) /\ f \in End /\ At(links, f) = Owner(e)
        /\ f # e /\ thread[f] = "none" /\ connected[f]
    BY <1>1, <1>3, LinkFacts DEF NeighborPushed, TypeInv, Pushing, Types
  <2>2. PICK doing \in {"reads", "ended"} : thread' = [thread EXCEPT ![e] = "adds", ![f] = doing]
    BY <1>3 DEF NeighborPushed
  <2>3. /\ links' = links /\ state' = state /\ name' = name /\ connected' = connected
        /\ chan' = chan /\ events' = events /\ now' = [now EXCEPT ![e] = NoName]
        /\ peers' = [peers EXCEPT ![Owner(e)] = @ \cup {f}]
    BY <1>3 DEF NeighborPushed
  <2>. HIDE DEF f
  <2>4. \A k \in Node : peers'[k] = IF k = Owner(e) THEN peers[k] \cup {f} ELSE peers[k]
    BY <1>1, <2>3 DEF Types
  <2>5. GoodbyeSent' /\ Named'
    BY <1>1, <2>1, <2>3, <2>4 DEF GoodbyeSent, Named, Ending, Ground
  <2>6. ASSUME NEW x \in In(links), Mutual(x) PROVE Mutual(x)'
    <3>1. /\ \A y \in End : y # e /\ y # f => thread'[y] = thread[y] /\ now'[y] = now[y]
          /\ thread'[f] # "backlog" /\ thread'[e] # "backlog"
      BY <1>1, <2>1, <2>2, <2>3 DEF Types
    <3>2. Pushed(Other(x)) => Pushed(Other(x))' \/ Other(x) = f
      BY <2>1, <3>1 DEF Pushed, f
    <3>3. Told(x) => Told(x)'
      BY <2>3, <3>1, <1>1 DEF Told, Ground
    <3>4. thread[Other(x)] = "backlog" => thread'[Other(x)] = "backlog"
      BY <1>1, <2>1, <3>1 DEF Ground
    <3>5. f \in peers'[At(links, f)] /\ \A k \in Node : \A y \in peers[k] : y \in peers'[k]
      BY <1>1, <2>1, <2>4 DEF Ground
    <3>. QED  BY <1>1, <2>3, <2>6, <3>2, <3>3, <3>4, <3>5 DEF Mutual, Ground
  <2>7. OtherSide'
    BY <2>3, <2>6 DEF OtherSide, Clean
  <2>. QED  BY <2>5, <2>7
<1>. QED  BY <1>2, <1>3

LEMMA AnswerTalk ==
    ASSUME TypeInv, Standing, Talk, NEW e \in Ends, NeighborAnswers(e)
    PROVE  Talk'
<1>. USE DEF Talk
<1>. DEFINE n == Owner(e)
            m == now[e]
<1>1. Ground /\ Types /\ Unmade /\ e \in In(links) /\ e \in End /\ n = At(links, e) /\ n \in Node
  BY GroundHolds, OwnerFacts DEF TypeInv
<1>2. PICK out \in End : Answered(e, out)
  BY AnswerEffect
<1>. DEFINE in == Other(out)
<1>3. /\ Longer(links, links', n, m, out) /\ in \in End /\ in # out /\ out \notin In(links)
      /\ in \notin In(links) /\ In(links') = In(links) \cup {out, in} /\ Other(in) = out
      /\ At(links', out) = n /\ At(links', in) = m /\ m \in Node
  BY <1>2, EndFacts DEF Answered, Longer
<1>4. /\ state' = state /\ peers' = peers /\ events' = events
      /\ name'[out] = m /\ connected'[out] /\ chan'[out] = <<>>
      /\ thread'[in] = "backlog" /\ chan'[in] = <<Msg("CONNECT", {n})>>
      /\ thread'[e] = "pushes" /\ now'[e] = out /\ thread[e] = "connects"
  BY <1>1, <1>2, <1>3 DEF Answered, Types, Unmade
<1>5. ASSUME NEW x \in In(links)
      PROVE  /\ x # in /\ x # out /\ x \in End
             /\ At(links', x) = At(links, x) /\ At(links', Other(x)) = At(links, Other(x))
             /\ chan'[x] = chan[x] /\ name'[x] = name[x] /\ (connected'[x] <=> connected[x])
             /\ x # e => thread'[x] = thread[x] /\ now'[x] = now[x]
  <2>1. x # in /\ x # out /\ Other(x) # in /\ Other(x) # out /\ x \in End /\ Other(x) \in End
    BY <1>1, <1>3 DEF Ground
  <2>2. At(links', x) = At(links, x) /\ At(links', Other(x)) = At(links, Other(x))
    BY <1>1, <1>3 DEF Ground, Longer
  <2>3. /\ chan'[x] = chan[x] /\ name'[x] = name[x] /\ (connected'[x] <=> connected[x])
        /\ x # e => thread'[x] = thread[x] /\ now'[x] = now[x]
    BY <1>1, <1>2, <1>3, <2>1 DEF Answered, Types
  <2>. QED  BY <2>1, <2>2, <2>3
<1>6. /\ ~SaysGoodbye(chan'[out]) /\ NamesOnly(chan'[out], m)
      /\ ~SaysGoodbye(chan'[in]) /\ NamesOnly(chan'[in], n) /\ Introduces(chan'[in])
  BY <1>1, <1>4, EmptyTalk, ConnectTalk
<1>. HIDE DEF in, n, m
<1>7. Other(out) = in /\ \A x \in In(links') : x = out \/ x = in \/ x \in In(links)
  BY <1>3 DEF in
<1>8. GoodbyeSent'
  <2>1. ASSUME NEW x \in In(links), SaysGoodbye(chan'[x]) \/ (x \in peers'[At(links', x)] /\ ~connected'[x])
        PROVE  state'[At(links', Other(x))] \in {"closing", "gone"}
    BY <1>4, <1>5, <2>1 DEF GoodbyeSent, Ending
  <2>2. in \notin peers'[m]
    BY <1>1, <1>3, <1>4 DEF Ground
  <2>3. ~SaysGoodbye(chan'[out]) /\ connected'[out] /\ At(links', in) = m
        /\ ~SaysGoodbye(chan'[in])
    BY <1>3, <1>4, <1>6
  <2>. QED  BY <1>7, <2>1, <2>2, <2>3 DEF GoodbyeSent, Ending
<1>9. Named'
  <2>1. ASSUME NEW x \in In(links)
        PROVE  /\ NamesOnly(chan'[x], At(links', Other(x)))
               /\ \/ name'[x] = At(links', Other(x)) \/ state'[At(links', x)] = "gone"
                  \/ Introduces(chan'[x])
    BY <1>4, <1>5 DEF Named
  <2>2. At(links', Other(out)) = m /\ At(links', Other(in)) = n
    BY <1>3, <1>7
  <2>3. NamesOnly(chan'[out], m) /\ name'[out] = m /\ NamesOnly(chan'[in], n) /\ Introduces(chan'[in])
    BY <1>4, <1>6
  <2>. QED  BY <1>7, <2>1, <2>2, <2>3 DEF Named
<1>10. OtherSide'
  <2>1. ASSUME NEW x \in In(links), Mutual(x) PROVE Mutual(x)'
    <3>1. Pushed(Other(x)) => Pushed(Other(x))'
      <4>1. \A y \in End : thread[y] = "pushes" => thread'[y] = "pushes" /\ now'[y] = now[y]
        <5>. SUFFICES ASSUME NEW y \in End, thread[y] = "pushes"
                      PROVE  thread'[y] = "pushes" /\ now'[y] = now[y]
          OBVIOUS
        <5>1. y \in In(links) /\ y # e
          BY <1>1, <1>4 DEF Unmade
        <5>. QED  BY <5>1, <1>5
      <4>. QED  BY <4>1 DEF Pushed
    <3>2. Told(x) => Told(x)'
      BY <1>4, <1>5 DEF Told
    <3>3. thread[Other(x)] = "backlog" => thread'[Other(x)] = "backlog"
      BY <1>1, <1>4, <1>5 DEF Ground
    <3>. QED  BY <1>4, <1>5, <2>1, <3>1, <3>2, <3>3 DEF Mutual
  <2>2. Mutual(out)' /\ Mutual(in)'
    <3>1. Other(in) = out
      BY <1>3
    <3>2. Pushed(out)'
      BY <1>1, <1>4 DEF Pushed
    <3>. QED  BY <1>4, <1>7, <3>1, <3>2 DEF Mutual
  <2>. QED  BY <1>4, <1>5, <1>7, <2>1, <2>2 DEF OtherSide, Clean
<1>. QED  BY <1>8, <1>9, <1>10

LEMMA MonitorTalk ==
    ASSUME TypeInv, Standing, Talk, NEW n \in Node, MonitorFrees(n) \/ MonitorJoins(n)
    PROVE  Talk'
<1>. USE DEF Talk
<1>1. Ground /\ Types
  BY GroundHolds DEF TypeInv
<1>2. /\ links' = links /\ state' = state /\ name' = name /\ connected' = connected
      /\ thread' = thread /\ now' = now /\ chan' = chan /\ events' = events
      /\ \A k \in Node : \A x \in peers[k] : x \in peers'[k] \/ (k = n /\ state[n] = "up" /\ ~connected[x])
      /\ \A k \in Node : peers'[k] \subseteq peers[k]
  <2>1. CASE MonitorFrees(n)
    <3>1. /\ links' = links /\ state' = state /\ name' = name /\ connected' = connected
          /\ thread' = thread /\ now' = now /\ chan' = chan /\ events' = events
          /\ state[n] = "up" /\ peers' = [peers EXCEPT ![n] = @ \ Disconnected(n)]
      BY <2>1 DEF MonitorFrees
    <3>2. \A k \in Node : \A x \in peers[k] : x \in peers'[k] \/ (k = n /\ ~connected[x])
      BY <1>1, <3>1 DEF Types, Disconnected
    <3>3. \A k \in Node : peers'[k] \subseteq peers[k]
      BY <1>1, <3>1 DEF Types
    <3>. QED  BY <3>1, <3>2, <3>3
  <2>2. CASE MonitorJoins(n)
    BY <2>2 DEF MonitorJoins
  <2>. QED  BY <2>1, <2>2
<1>3. GoodbyeSent' /\ Named'
  BY <1>1, <1>2 DEF GoodbyeSent, Named, Ending, Ground
<1>4. ASSUME NEW x \in In(links), Mutual(x), state[At(links, x)] = "up" PROVE Mutual(x)'
  <2>. DEFINE f == Other(x)
  <2>1. f \in In(links) /\ At(links, f) \in Node /\ Other(f) = x
    BY <1>1 DEF Ground
  <2>2. f \in peers[At(links, f)] => f \in peers'[At(links, f)]
    BY <1>1, <1>2, <1>4, <2>1 DEF GoodbyeSent, Ending
  <2>3. Pushed(f) <=> Pushed(f)'
    BY <1>2 DEF Pushed
  <2>. QED  BY <1>2, <1>4, <2>1, <2>2, <2>3 DEF Mutual, Told
<1>5. OtherSide'
  BY <1>2, <1>4 DEF OtherSide, Clean
<1>. QED  BY <1>3, <1>5

\* The process of n ends: after disconnect_all_peers, or because of exit(), which
\* is an event.
LEMMA ProcessEndsTalk ==
    ASSUME TypeInv, Standing, Talk, NEW n \in Node, NEW event, ProcessEnds(n, event),
           \/ event # {}
           \/ /\ peers[n] = {}
              /\ \A x \in In(links) : At(links, x) = n => ~Adding(x) /\ thread[x] # "backlog"
    PROVE  Talk'
<1>. USE DEF Talk
<1>1. Ground /\ Types /\ Unmade
  BY GroundHolds DEF TypeInv
<1>2. \A x \in End : x \in EndsOf(n) <=> x \in In(links) /\ At(links, x) = n
  BY <1>1, EndsOfFacts
<1>3. /\ links' = links /\ name' = name /\ connected' = connected
      /\ state'[n] = "gone" /\ \A k \in Node : k # n => state'[k] = state[k] /\ peers'[k] = peers[k]
      /\ peers'[n] = {} /\ events \cup event \subseteq events'
      /\ \A x \in In(links) : At(links, x) # n =>
            thread'[x] = thread[x] /\ chan'[x] = chan[x] /\ now'[x] = now[x]
      /\ \A x \in In(links) : At(links, x) = n => chan'[x] = <<>>
  BY <1>1, <1>2 DEF ProcessEnds, Types, Ground
<1>4. GoodbyeSent'
  <2>1. ASSUME NEW x \in In(links), SaysGoodbye(chan'[x]) \/ (x \in peers'[At(links, x)] /\ ~connected'[x])
        PROVE  state'[At(links, Other(x))] \in {"closing", "gone"}
    BY <1>1, <1>3, <2>1, EmptyTalk DEF GoodbyeSent, Ending, Ground
  <2>. QED  BY <1>3, <2>1 DEF GoodbyeSent, Ending
<1>5. Named'
  <2>1. ASSUME NEW x \in In(links)
        PROVE  /\ NamesOnly(chan'[x], At(links, Other(x)))
               /\ \/ name'[x] = At(links, Other(x)) \/ state'[At(links, x)] = "gone"
                  \/ Introduces(chan'[x])
    BY <1>1, <1>3, EmptyTalk DEF Named, Ground
  <2>. QED  BY <1>3, <2>1 DEF Named
<1>6. OtherSide'
  <2>. SUFFICES ASSUME Clean', NEW x \in In(links), state'[At(links, x)] = "up" PROVE Mutual(x)'
    BY <1>3 DEF OtherSide
  <2>. DEFINE f == Other(x)
  <2>1. /\ f \in In(links) /\ f \in End /\ At(links, f) \in Node /\ Other(f) = x
        /\ At(links, x) \in Node
    BY <1>1 DEF Ground
  <2>2. Mutual(x) /\ At(links, x) # n /\ event = {}
    BY <1>3, <2>1 DEF Clean, OtherSide
  <2>3. Told(x) => Told(x)'
    BY <1>3, <2>2 DEF Told
  <2>4. CASE At(links, f) # n
    <3>1. ASSUME NEW y \in End, thread[y] = "pushes", now[y] = f
          PROVE  thread'[y] = "pushes" /\ now'[y] = f
      <4>1. y \in In(links) /\ At(links, y) = At(links, f)
        BY <1>1, <3>1 DEF Unmade, TypeInv, Pushing
      <4>. QED  BY <1>3, <2>4, <3>1, <4>1
    <3>2. Pushed(f) => Pushed(f)'
      BY <3>1 DEF Pushed
    <3>. QED  BY <1>3, <2>1, <2>2, <2>3, <2>4, <3>2 DEF Mutual
  <2>5. CASE At(links, f) = n
    <3>1. f \notin peers[n] /\ thread[f] # "backlog"
      BY <2>1, <2>2, <2>5
    <3>2. ~Pushed(f)
      <4>1. ASSUME NEW y \in End, thread[y] = "pushes", now[y] = f PROVE FALSE
        <5>1. y \in In(links) /\ At(links, y) = n
          BY <1>1, <2>5, <4>1 DEF Unmade, TypeInv, Pushing
        <5>. QED  BY <2>2, <4>1, <5>1 DEF Adding
      <4>. QED  BY <4>1 DEF Pushed
    <3>3. Told(x)
      BY <2>2, <2>5, <3>1, <3>2 DEF Mutual
    <3>. QED  BY <2>3, <3>3 DEF Mutual
  <2>. QED  BY <2>4, <2>5
<1>. QED  BY <1>4, <1>5, <1>6

LEMMA TerminateTalk ==
    ASSUME TypeInv, Standing, Talk, NEW n \in Node, Terminate(n)
    PROVE  Talk'
<1>. USE DEF Talk
<1>1. Ground /\ Types
  BY GroundHolds DEF TypeInv
<1>2. PICK reset \in SUBSET Backlog(n) :
         /\ thread' = [e \in End |-> IF e \in reset THEN "none" ELSE thread[e]]
         /\ events' = events \cup {"reset" : e \in reset}
  BY DEF Terminate
<1>3. /\ links' = links /\ peers' = peers /\ name' = name /\ connected' = connected
      /\ now' = now /\ chan' = chan
      /\ state'[n] = "leaving" /\ state[n] = "up" /\ \A k \in Node : k # n => state'[k] = state[k]
  BY <1>1 DEF Terminate, Types
<1>4. GoodbyeSent' /\ Named'
  BY <1>1, <1>3 DEF GoodbyeSent, Named, Ending, Ground
<1>5. OtherSide'
  <2>. SUFFICES ASSUME Clean' PROVE OtherSide'
    BY DEF OtherSide
  <2>1. reset = {} /\ Clean
    BY <1>2 DEF Clean
  <2>2. \A e \in End : thread'[e] = thread[e]
    BY <1>2, <2>1
  <2>3. ASSUME NEW x \in In(links), Mutual(x) PROVE Mutual(x)'
    BY <1>1, <1>3, <2>2, <2>3 DEF Mutual, Pushed, Told, Ground
  <2>. QED  BY <1>1, <1>3, <2>1, <2>3 DEF OtherSide, Ground
<1>. QED  BY <1>4, <1>5

LEMMA LeaveTalk ==
    ASSUME TypeInv, Standing, Talk, NEW n \in Node, Leave(n)
    PROVE  Talk'
<1>. USE DEF Talk
<1>1. Ground /\ Types
  BY GroundHolds DEF TypeInv
<1>2. ASSUME NEW e \in peers[n], LeaveChoosing(n, e) \/ LeaveTelling(n, e) PROVE Talk'
  <2>1. PICK msg \in Message : Parted(n, e, msg)
    BY <1>2, PartEffect
  <2>. DEFINE f == Other(e)
  <2>2. /\ e \in In(links) /\ e \in End /\ At(links, e) = n /\ f \in In(links) /\ f \in End
        /\ Other(f) = e /\ f # e /\ Owner(f) = At(links, f)
    BY <1>1 DEF Ground, Owner, At
  <2>3. /\ links' = links /\ name' = name /\ now' = now
        /\ state[n] # "up" /\ state'[n] = "closing" /\ \A k \in Node : k # n => state'[k] = state[k]
        /\ \A k \in Node : Ending(k) => Ending(k)'
        /\ \A k \in Node : peers'[k] = IF k = n THEN peers[k] \ {e} ELSE peers[k]
        /\ events \subseteq events'
        /\ ~connected'[e] /\ \A x \in End : x # e => thread'[x] = thread[x] /\ (connected'[x] <=> connected[x])
        /\ thread[e] \in {"backlog", "pushes"} <=> thread'[e] \in {"backlog", "pushes"}
        /\ thread'[e] = thread[e] \/ thread'[e] = "ended"
    BY <1>1, <2>1, <2>2 DEF Parted, Types, Ending
  <2>4. /\ \A x \in End : x # f => chan'[x] = chan[x]
        /\ \/ chan'[f] = chan[f] /\ (events' = {} => ~connected[e] \/ state[At(links, f)] = "gone")
           \/ chan'[f] = Append(chan[f], msg)
    BY <1>1, <2>1, <2>2 DEF Parted, Types
  <2>5. /\ chan'[f] # chan[f] => SaysGoodbye(chan'[f])
        /\ SaysGoodbye(chan[f]) => SaysGoodbye(chan'[f])
        /\ Introduces(chan[f]) => Introduces(chan'[f])
        /\ NamesOnly(chan[f], n) => NamesOnly(chan'[f], n)
    <3>1. chan[f] \in Seq(Message) /\ msg \in Message /\ msg.type # "CONNECT"
      BY <1>1, <2>1, <2>2 DEF Parted, Types
    <3>2. /\ SaysGoodbye(Append(chan[f], msg))
          /\ Introduces(chan[f]) => Introduces(Append(chan[f], msg))
          /\ NamesOnly(chan[f], n) => NamesOnly(Append(chan[f], msg), n)
      BY <3>1, AppendTalk
    <3>3. CASE chan'[f] = chan[f]
      BY <3>3
    <3>4. CASE chan'[f] = Append(chan[f], msg)
      BY <3>2, <3>4
    <3>. QED  BY <2>4, <3>3, <3>4
  <2>. HIDE DEF f
  <2>6. GoodbyeSent'
    <3>1. ASSUME NEW x \in In(links), SaysGoodbye(chan'[x]) \/ (x \in peers'[At(links, x)] /\ ~connected'[x])
          PROVE  state'[At(links, Other(x))] \in {"closing", "gone"}
      <4>1. CASE x = f
        BY <2>2, <2>3, <4>1
      <4>2. CASE x = e
        <5>1. SaysGoodbye(chan[e])
          BY <1>1, <2>2, <2>3, <2>4, <3>1, <4>2 DEF Ground
        <5>. QED  BY <1>1, <2>3, <4>2, <5>1 DEF GoodbyeSent, Ending, Ground
      <4>3. CASE x # f /\ x # e
        <5>1. SaysGoodbye(chan[x]) \/ (x \in peers[At(links, x)] /\ ~connected[x])
          BY <1>1, <2>3, <2>4, <3>1, <4>3 DEF Ground
        <5>. QED  BY <1>1, <2>3, <5>1 DEF GoodbyeSent, Ending, Ground
      <4>. QED  BY <4>1, <4>2, <4>3
    <3>. QED  BY <2>3, <3>1 DEF GoodbyeSent, Ending
  <2>7. Named'
    <3>1. ASSUME NEW x \in In(links)
          PROVE  /\ NamesOnly(chan'[x], At(links, Other(x)))
                 /\ \/ name'[x] = At(links, Other(x)) \/ state'[At(links, x)] = "gone"
                    \/ Introduces(chan'[x])
      <4>1. state[At(links, x)] = "gone" => state'[At(links, x)] = "gone"
        BY <1>1, <2>1, <2>3 DEF Ground, Parted
      <4>2. CASE x = f
        BY <2>2, <2>3, <2>5, <4>1, <4>2 DEF Named
      <4>3. CASE x # f
        BY <1>1, <2>3, <2>4, <4>1, <4>3 DEF Named, Ground
      <4>. QED  BY <4>2, <4>3
    <3>. QED  BY <2>3, <3>1 DEF Named
  <2>8. OtherSide'
    <3>. SUFFICES ASSUME Clean', NEW x \in In(links), state'[At(links, x)] = "up" PROVE Mutual(x)'
      BY <2>3 DEF OtherSide
    <3>1. /\ At(links, x) # n /\ x # e /\ x \in End /\ Other(x) \in End /\ Other(x) \in In(links)
          /\ state[At(links, x)] = "up" /\ Other(Other(x)) = x /\ At(links, Other(x)) \in Node
      BY <1>1, <2>2, <2>3 DEF Ground
    <3>2. Mutual(x) /\ events' = {}
      BY <2>3, <3>1 DEF OtherSide, Clean
    <3>3. Told(x) => Told(x)'
      BY <2>3, <2>4, <2>5, <3>1 DEF Told
    <3>4. Pushed(Other(x)) => Pushed(Other(x))'
      <4>1. \A y \in End : thread[y] = "pushes" => thread'[y] = "pushes"
        BY <2>1, <2>2, <1>1 DEF Parted, Types
      <4>. QED  BY <2>3, <4>1 DEF Pushed
    <3>5. thread[Other(x)] = "backlog" => thread'[Other(x)] = "backlog"
      BY <2>1, <2>2, <3>1, <1>1 DEF Parted, Types
    <3>6. Other(x) \in peers[At(links, Other(x))] =>
             Other(x) \in peers'[At(links, Other(x))] \/ Other(x) = e
      BY <2>3, <3>1
    <3>7. Other(x) = e => Told(x)'
      <4>. SUFFICES ASSUME Other(x) = e PROVE Told(x)'
        OBVIOUS
      <4>1. x = f
        BY <3>1 DEF f
      <4>2. ~(~connected[e] \/ state[At(links, f)] = "gone")
        BY <1>2, <2>2, <3>1, <4>1 DEF GoodbyeSent, Ending
      <4>. QED  BY <2>4, <2>5, <3>2, <4>1, <4>2 DEF Told
    <3>. QED  BY <2>3, <3>2, <3>3, <3>4, <3>5, <3>6, <3>7 DEF Mutual
  <2>. QED  BY <2>6, <2>7, <2>8
<1>3. CASE LeaveEnds(n)
  <2>1. /\ peers[n] = {} /\ ProcessEnds(n, {})
        /\ \/ state[n] = "leaving" /\ Backlog(n) = {} /\ joining[n] = NoEnd
           \/ state[n] = "closing" /\ ~Adding(joining[n])
    BY <1>3 DEF LeaveEnds, MutexFree, Joinable
  <2>2. \A x \in In(links) : At(links, x) = n => thread[x] # "backlog"
    BY <1>1, <2>1, EndsOfFacts DEF Backlog, Standing, NoBacklog, Ground
  <2>3. \A x \in In(links) : At(links, x) = n => ~Adding(x)
    BY <2>1 DEF Standing, AddersListed
  <2>. QED  BY <2>1, <2>2, <2>3, ProcessEndsTalk
<1>. QED  BY <1>2, <1>3 DEF Leave

LEMMA TalkStep == TypeInv /\ Standing /\ Talk /\ [Next]_vars => Talk'
<1>. SUFFICES ASSUME TypeInv, Standing, Talk, [Next]_vars PROVE Talk'
  OBVIOUS
<1>1. Types
  BY DEF TypeInv
<1>2. CASE UNCHANGED vars
  BY <1>2 DEF vars, Talk, GoodbyeSent, Named, OtherSide, Ending, Mutual, Pushed, Told, Clean
<1>3. ASSUME NEW e \in Ends, Accept(e) \/ Listener(e) \/ HearSearch(e) PROVE Talk'
  <2>1. CASE NeighborUnknown(e)
    <3>1. Owner(e) \in Node
      BY <1>1, OwnerFacts
    <3>. QED  BY <2>1, <3>1, ProcessEndsTalk DEF NeighborUnknown
  <2>2. CASE \/ HearConnect(e) \/ HearDisconnect(e) \/ HearAddNeighbors(e) \/ HearSearch(e)
             \/ Accept(e)
    BY <2>2, HearGoodbye, HearNamed, HearMutual DEF Talk
  <2>. QED  BY <1>3, <2>1, <2>2, AddTalk, AnswerTalk DEF Listener
<1>4. ASSUME NEW n \in Node, MonitorFrees(n) \/ MonitorJoins(n) \/ Leave(n) PROVE Talk'
  BY <1>4, MonitorTalk, LeaveTalk
<1>5. ASSUME NEW n \in Node, NEW m \in Joins[n], Start(n, m) \/ StartRefused(n, m) PROVE Talk'
  BY <1>5, StartTalk, RefusedTalk
<1>6. ASSUME NEW n \in leavers, Terminate(n) PROVE Talk'
  BY <1>1, <1>6, TerminateTalk DEF Types
<1>. QED  BY <1>2, <1>3, <1>4, <1>5, <1>6 DEF Next, Threads, World

LEMMA TalkInit == Init => Talk
<1>. SUFFICES ASSUME Init PROVE Talk
  OBVIOUS
<1>1. Ground /\ Types
  BY TypeInvInit, GroundHolds DEF TypeInv
<1>2. ASSUME NEW e \in In(links)
      PROVE  /\ chan[e] = <<>> /\ name[e] = At(links, Other(e)) /\ connected[e]
             /\ Other(e) \in peers[At(links, Other(e))]
  <2>1. /\ e \in Ends /\ e \in End /\ Other(e) \in End /\ Other(e) \in In(links)
        /\ Owner(Other(e)) = At(links, Other(e)) /\ At(links, Other(e)) \in Node
    BY <1>1 DEF Ground, In, Ends, Owner, At
  <2>. QED  BY <1>1, <2>1, EndsOfFacts DEF Init
<1>3. \A e \in In(links) : ~SaysGoodbye(chan[e]) /\ NamesOnly(chan[e], At(links, Other(e)))
  BY <1>2, EmptyTalk
<1>. QED  BY <1>2, <1>3 DEF Talk, GoodbyeSent, Named, OtherSide, Mutual

LEMMA TalkHolds == Spec => []Talk
BY TalkInit, TalkStep, TypeInvHolds, StandingHolds, PTL DEF Spec

LEMMA TalkAgrees == TypeInv /\ Standing /\ Talk => ListsAgree
<1>. SUFFICES ASSUME TypeInv, Standing, Talk, Quiet, Clean, NEW n \in Up, NEW e \in peers[n]
              PROVE  /\ name[e] = Owner(Other(e))
                     /\ name[e] \in Up /\ Other(e) \in peers[name[e]]
  BY DEF ListsAgree
<1>. DEFINE f == Other(e)
            m == Owner(f)
<1>1. Ground /\ Types /\ n \in Node /\ state[n] = "up"
  BY GroundHolds DEF TypeInv, Up
<1>2. /\ e \in In(links) /\ e \in End /\ At(links, e) = n /\ f \in In(links) /\ f \in End
      /\ Other(f) = e /\ m = At(links, f) /\ m \in Node
  BY <1>1 DEF Ground, Owner, At
<1>3. ASSUME NEW k \in Up, NEW x \in In(links), At(links, x) = k
      PROVE  ~Adding(x) /\ thread[x] # "backlog" /\ (thread[x] = "reads" => chan[x] = <<>>)
             /\ (x \in peers[k] => connected[x])
  BY <1>1, <1>3, EndsOfFacts DEF Quiet, Ground, Up
<1>4. thread[e] = "reads" /\ chan[e] = <<>> /\ connected[e]
  BY <1>1, <1>2, <1>3 DEF Standing, ListenedTo
<1>5. ~Told(e)
  BY <1>4, EmptyTalk DEF Told
<1>6. name[e] = m
  BY <1>1, <1>2, <1>4 DEF Talk, Named, Introduces
<1>7. f \in peers[m] \/ thread[f] = "backlog" \/ Pushed(f)
  BY <1>1, <1>2, <1>5 DEF Talk, OtherSide, Mutual
<1>8. state[m] = "up"
  <2>1. state[m] \in {"down", "up", "gone"} /\ state[m] # "down"
    BY <1>2 DEF Quiet, Standing, Owned
  <2>2. ASSUME state[m] = "gone" PROVE FALSE
    <3>1. /\ peers[m] = {} /\ thread[f] = "ended"
          /\ \A x \in In(links) : At(links, x) = m => thread[x] = "ended"
      BY <1>2, <2>2 DEF Standing, GoneEnded
    <3>2. PICK x \in End : thread[x] = "pushes" /\ now[x] = f
      BY <1>7, <3>1 DEF Pushed
    <3>3. x \in In(links) /\ At(links, x) = m
      BY <1>2, <3>2 DEF TypeInv, Pushing, Unmade
    <3>. QED  BY <3>1, <3>2, <3>3
  <2>. QED  BY <2>1, <2>2
<1>9. m \in Up /\ thread[f] # "backlog"
  BY <1>2, <1>3, <1>8 DEF Up
<1>10. ~Pushed(f)
  <2>1. ASSUME NEW x \in End, thread[x] = "pushes", now[x] = f PROVE FALSE
    <3>1. x \in In(links) /\ At(links, x) = m
      BY <1>2, <2>1 DEF TypeInv, Pushing, Unmade
    <3>. QED  BY <1>3, <1>9, <2>1, <3>1 DEF Adding
  <2>. QED  BY <2>1 DEF Pushed
<1>. QED  BY <1>6, <1>7, <1>9, <1>10

\* When nobody is leaving, nothing is left to read or to connect, and none of the
\* six events happened, the lists of connected_peers agree: each peer in the list of a
\* server that is up is up itself, is known by its true name and lists the same
\* connection (accept_connections, add_neighbors and monitor_connected_peers of all
\* servers taken together, with CONNECT, DISCONNECT and DISCONNECT_ADDNBRS between them).
THEOREM OverlayListsAgree == Spec => []ListsAgree
BY TalkAgrees, TypeInvHolds, StandingHolds, TalkHolds, PTL

----------------------------------------------------------------------------
(* Spare connections.  As long as one peer leaves, add_neighbors is run by  *)
(* one listener at a time, for the neighbours of that peer; whom it cannot  *)
(* find among its peers joined after it and never was one of them.          *)

OneLeaves == \A n, m \in Left : n = m

\* Who asks whom: the names an end is still to connect to, and who runs add_neighbors.
AddThreads == {"adds", "connects", "pushes"}

TellsNames(q) == \E i \in 1..Len(q) : q[i].type = "ADDNBRS"
Offers(q, m) == \E i \in 1..Len(q) : q[i].type = "ADDNBRS" /\ m \in q[i].names

AddWork(e) == TellsNames(chan[e]) \/ thread[e] \in AddThreads
Wanted(e, m) ==
    \/ Offers(chan[e], m)
    \/ thread[e] \in AddThreads /\ m \in todo[e]
    \/ thread[e] = "connects" /\ now[e] = m

Meets(L, n, m) == \E y \in In(L) : At(L, y) = n /\ At(L, Other(y)) = m

\* A name is empty or true.
NamesTrue ==
    \A x \in End : name[x] = NoName \/ (x \in In(links) /\ name[x] = At(links, Other(x)))

\* add_neighbors is run for a server that is leaving.
RunForLeaver == \A e \in In(links) : thread[e] \in AddThreads => Ending(At(links, Other(e)))

\* No two ends at a server lead to the same server: no connection from a server to
\* itself, and no two connections between the same servers.
Plain(L) == \A e, f \in In(L) :
    At(L, e) = At(L, f) /\ At(L, Other(e)) = At(L, Other(f)) => e = f

OneAdder == \A e, f \in In(links) : AddWork(e) /\ AddWork(f) => e = f

\* Its names are those of other peers of the server that is leaving.
NewNames == \A e \in In(links), m \in Node : Wanted(e, m) =>
    m # At(links, e) /\ m # At(links, Other(e)) /\ Meets(links, At(links, Other(e)), m)

\* The connections from the one of x on were made by servers that joined, or by the
\* listener that runs add_neighbors.
Starter(L, o) == \A y \in In(L) : y[1] < o[1] => At(L, y) # At(L, o)
ByAdder(o) == \E f \in In(links) :
    thread[f] \in AddThreads /\ At(links, f) = At(links, o) /\ At(links, Other(f)) # At(links, Other(o))
Late(x) ==
    /\ x[2] = "in"
    /\ \A o \in In(links) : o[2] = "out" /\ x[1] <= o[1] => Starter(links, o) \/ ByAdder(o)

\* A server knows its peers by name, but for those that joined of late.
Known(x) == name[x] = At(links, Other(x)) /\ (x \in peers[At(links, x)] \/ Pushed(x))
Acquainted == \A x \in In(links) :
    state[At(links, x)] = "up" /\ ~Ending(At(links, Other(x))) => Known(x) \/ Late(x)

\* add_neighbors connects only to whom there is no connection.
Unlinked == \A e \in In(links) :
    thread[e] = "connects" /\ now[e] \in Node => ~Meets(links, At(links, e), now[e])

Sparing == Plain(links) /\ OneAdder /\ NewNames /\ Acquainted /\ Unlinked

Spareness == NamesTrue /\ RunForLeaver /\ (OneLeaves => Sparing)

LEMMA NoOffers ==
    ASSUME NEW n
    PROVE  /\ ~TellsNames(<<>>) /\ \A m : ~Offers(<<>>, m)
           /\ ~TellsNames(<<Msg("CONNECT", n)>>) /\ \A m : ~Offers(<<Msg("CONNECT", n)>>, m)
<1>. DEFINE q == <<Msg("CONNECT", n)>>
<1>1. \A i \in 1..Len(q) : q[i].type = "CONNECT"
  BY DEF Msg
<1>. HIDE DEF q
<1>2. ~TellsNames(q) /\ \A m : ~Offers(q, m)
  BY <1>1 DEF TellsNames, Offers
<1>3. ~TellsNames(<<>>) /\ \A m : ~Offers(<<>>, m)
  BY DEF TellsNames, Offers
<1>. QED  BY <1>2, <1>3 DEF q

LEMMA TailOffers ==
    ASSUME NEW q \in Seq(Message), q # <<>>
    PROVE  /\ TellsNames(Tail(q)) => TellsNames(q)
           /\ \A m : Offers(Tail(q), m) => Offers(q, m)
           /\ Head(q).type = "ADDNBRS" =>
                  TellsNames(q) /\ SaysGoodbye(q) /\ \A m \in Head(q).names : Offers(q, m)
<1>1. /\ Len(q) \in Nat /\ Len(q) > 0 /\ Len(Tail(q)) = Len(q) - 1 /\ Head(q) = q[1]
  OBVIOUS
<1>2. \A i \in 1..Len(Tail(q)) : Tail(q)[i] = q[i + 1] /\ i + 1 \in 1..Len(q)
  BY <1>1
<1>3. 1 \in 1..Len(q)
  BY <1>1
<1>4. (TellsNames(Tail(q)) => TellsNames(q)) /\ \A m : Offers(Tail(q), m) => Offers(q, m)
  BY <1>2 DEF TellsNames, Offers
<1>5. Head(q).type = "ADDNBRS" =>
          TellsNames(q) /\ SaysGoodbye(q) /\ \A m \in Head(q).names : Offers(q, m)
  BY <1>1, <1>3 DEF TellsNames, Offers, SaysGoodbye
<1>. QED  BY <1>4, <1>5

LEMMA AppendOffers ==
    ASSUME NEW q \in Seq(Message), NEW msg \in Message
    PROVE  /\ TellsNames(Append(q, msg)) => TellsNames(q) \/ msg.type = "ADDNBRS"
           /\ \A m : Offers(Append(q, msg), m) =>
                         Offers(q, m) \/ (msg.type = "ADDNBRS" /\ m \in msg.names)
<1>. DEFINE r == Append(q, msg)
<1>1. /\ Len(r) = Len(q) + 1 /\ Len(q) \in Nat /\ r[Len(q) + 1] = msg
      /\ \A i \in 1..Len(q) : r[i] = q[i]
  OBVIOUS
<1>. HIDE DEF r
<1>2. \A i \in 1..Len(r) : i \in 1..Len(q) \/ i = Len(q) + 1
  BY <1>1
<1>3. TellsNames(r) => TellsNames(q) \/ msg.type = "ADDNBRS"
  BY <1>1, <1>2 DEF TellsNames
<1>4. \A m : Offers(r, m) => Offers(q, m) \/ (msg.type = "ADDNBRS" /\ m \in msg.names)
  BY <1>1, <1>2 DEF Offers
<1>. QED  BY <1>3, <1>4 DEF r

\* The two ends of one connection, by number.
LEMMA EndNumbers ==
    ASSUME NEW x \in End
    PROVE  /\ x[1] \in Nat /\ Other(x)[1] = x[1]
           /\ \A y \in End : y[1] = x[1] => y = x \/ y = Other(x)
           /\ x[2] = "out" \/ Other(x)[2] = "out"
<1>1. ASSUME NEW y \in End PROVE y[1] \in Nat /\ y[2] \in {"out", "in"} /\ y = <<y[1], y[2]>>
  BY OverlayAssumption DEF End
<1>. QED  BY <1>1 DEF Other

\* Who runs add_neighbors, or is about to, does so for a server that is leaving.
LEMMA WorkForLeaver ==
    ASSUME TypeInv, Talk, RunForLeaver, NEW e \in In(links), AddWork(e)
    PROVE  Ending(At(links, Other(e))) /\ At(links, Other(e)) \in Left
<1>1. TellsNames(chan[e]) => SaysGoodbye(chan[e])
  BY DEF TellsNames, SaysGoodbye
<1>2. Ending(At(links, Other(e)))
  BY <1>1 DEF AddWork, RunForLeaver, Talk, GoodbyeSent
<1>. QED  BY <1>2, GroundHolds DEF Ending, Left, Ground

LEMMA TwoSides ==
    ASSUME TypeInv, Plain(links), NEW x \in In(links)
    PROVE  At(links, x) # At(links, Other(x))
BY GroundHolds DEF Ground, Plain

\* add_neighbors at c, run for h, does not find m among its peers: there is no
\* connection between c and m.  Otherwise m joined at c, after every server that c
\* knows; and the connection by which h knows m came later still, as did then the
\* one between c and h.
LEMMA NotFound ==
    ASSUME TypeInv, Standing, Talk, RunForLeaver, OneLeaves, Sparing,
           NEW e \in In(links), thread[e] = "adds",
           state[At(links, e)] # "gone",
           NEW m \in Node, m \in todo[e], ~ConnectedTo(At(links, e), m)
    PROVE  ~Meets(links, At(links, e), m)
<1>. DEFINE c == At(links, e)
            h == At(links, Other(e))
<1>. SUFFICES ASSUME NEW x \in In(links), At(links, x) = c, At(links, Other(x)) = m
              PROVE  FALSE
  BY DEF Meets
<1>1. /\ Ground /\ e \in End /\ Other(e) \in In(links) /\ Other(e) \in End /\ c \in Node /\ h \in Node
      /\ x \in End /\ Other(x) \in In(links) /\ Other(x) \in End
  BY GroundHolds DEF Ground
<1>2. Ending(h) /\ h \in Left /\ AddWork(e) /\ c # h
  BY WorkForLeaver, TwoSides DEF AddWork, AddThreads, Sparing
<1>3. m # c /\ m # h /\ Meets(links, h, m)
  BY DEF Sparing, NewNames, Wanted, AddThreads
<1>4. c \notin Left /\ m \notin Left
  BY <1>2, <1>3 DEF OneLeaves
<1>5. state[c] = "up" /\ ~Ending(m)
  BY <1>1, <1>4 DEF Left, Ending, Standing, Owned, TypeInv, Types
<1>6. ASSUME NEW f \in In(links), thread[f] \in AddThreads PROVE f = e
  BY <1>2, <1>6 DEF Sparing, OneAdder, AddWork
<1>7. ~Known(x)
  <2>1. Pushed(x) => \E f \in In(links) : thread[f] = "pushes"
    BY DEF Pushed, TypeInv, Unmade
  <2>2. ~Pushed(x)
    BY <1>6, <2>1 DEF AddThreads
  <2>. QED  BY <2>2 DEF Known, ConnectedTo
<1>8. Late(x)
  BY <1>1, <1>5, <1>7 DEF Sparing, Acquainted
<1>9. ASSUME NEW o \in In(links), ByAdder(o) PROVE At(links, o) = c /\ At(links, Other(o)) # h
  BY <1>6, <1>9 DEF ByAdder
<1>10. ASSUME NEW o \in In(links), NEW y \in In(links), Starter(links, o), y[1] < o[1]
       PROVE  At(links, y) # At(links, o)
  BY <1>10 DEF Starter
<1>11. ASSUME NEW o \in In(links), o[2] = "out", x[1] <= o[1]
       PROVE  Starter(links, o) \/ ByAdder(o)
  BY <1>8, <1>11 DEF Late
<1>12. ASSUME NEW y \in In(links)
       PROVE  /\ y \in End /\ Other(y) \in In(links) /\ Other(Other(y)) = y
              /\ y[1] \in Nat /\ Other(y)[1] = y[1]
              /\ \A z \in In(links) : z[1] = y[1] => z = y \/ z = Other(y)
              /\ y[2] = "out" \/ Other(y)[2] = "out"
  BY <1>1, EndNumbers DEF Ground, In
<1>. HIDE DEF c, h
<1>13. Starter(links, Other(x)) /\ Other(x)[1] = x[1]
  <2>1. Other(x)[2] = "out" /\ Other(x)[1] = x[1] /\ x[1] \in Nat
    BY <1>8, <1>12 DEF Late
  <2>2. ~ByAdder(Other(x))
    BY <1>3, <1>9, <1>12
  <2>. QED  BY <1>11, <1>12, <2>1, <2>2
<1>14. PICK y \in In(links) : At(links, y) = h /\ At(links, Other(y)) = m
  BY <1>3 DEF Meets
\* The connection between h and m came after that between c and m.
<1>15. y[1] > x[1]
  <2>1. ~(y[1] < x[1])
    BY <1>10, <1>12, <1>13, <1>14
  <2>2. y[1] # x[1]
    BY <1>2, <1>3, <1>12, <1>14 DEF c, h
  <2>. QED  BY <1>12, <2>1, <2>2
<1>16. PICK q \in {y, Other(y)} : q[2] = "out"
  BY <1>12
<1>17. /\ q \in In(links) /\ q[1] = y[1] /\ x[1] <= q[1]
       /\ (q = y /\ At(links, q) = h) \/ (q = Other(y) /\ At(links, q) = m)
  BY <1>12, <1>14, <1>15, <1>16
<1>18. ~ByAdder(q) /\ Starter(links, q)
  BY <1>2, <1>3, <1>9, <1>11, <1>16, <1>17
\* It was made by h, which had no other.
<1>19. q = y
  BY <1>10, <1>12, <1>13, <1>15, <1>17, <1>18
\* So h and c were connected after that.
<1>20. e[1] > y[1]
  <2>1. ~(e[1] < y[1])
    <3>1. Other(e) \in In(links) /\ Other(e)[1] = e[1] /\ At(links, Other(e)) = At(links, q)
      BY <1>12, <1>14, <1>19 DEF h
    <3>. QED  BY <1>10, <1>17, <1>18, <3>1
  <2>2. e[1] # y[1]
    BY <1>2, <1>3, <1>12, <1>14 DEF c, h
  <2>. QED  BY <1>12, <2>1, <2>2
<1>21. PICK p \in {e, Other(e)} : p[2] = "out"
  BY <1>12
<1>22. /\ p \in In(links) /\ p[1] = e[1] /\ x[1] <= p[1] /\ x[1] < p[1] /\ y[1] < p[1]
       /\ (p = e /\ At(links, p) = c) \/ (p = Other(e) /\ At(links, p) = h)
  <2>1. p \in In(links) /\ p[1] = e[1]
    BY <1>12, <1>21
  <2>2. x[1] \in Nat /\ y[1] \in Nat /\ e[1] \in Nat
    BY <1>12
  <2>. QED  BY <1>15, <1>20, <1>21, <2>1, <2>2 DEF c, h
\* Neither of the two can have made that connection.
<1>23. ~Starter(links, p)
  BY <1>10, <1>14, <1>22
<1>24. ~ByAdder(p)
  BY <1>2, <1>9, <1>22 DEF c, h
<1>. QED  BY <1>11, <1>21, <1>22, <1>23, <1>24

\* No connection is made and nobody forgets a peer that stays.
SparesPeers ==
    /\ links' = links
    /\ \A x \in In(links) : thread[x] \in AddThreads => thread'[x] \in AddThreads
    /\ \A x \in In(links) : state'[At(links, x)] = "up" /\ state'[At(links, Other(x))] \notin {"closing", "gone"}
          => /\ state[At(links, x)] = "up" /\ ~Ending(At(links, Other(x)))
             /\ Known(x) => Known(x)'

\* Nor is anybody told a name.
Spares ==
    /\ SparesPeers
    /\ \A x \in In(links) : (AddWork(x)' => AddWork(x)) /\ \A m \in Node : Wanted(x, m)' => Wanted(x, m)

LEMMA PeersKept ==
    ASSUME Sparing, SparesPeers
    PROVE  links' = links /\ Plain(links') /\ Acquainted'
<1>1. links' = links /\ Plain(links')
  BY DEF SparesPeers, Sparing
<1>2. \A o \in In(links) : ByAdder(o) => ByAdder(o)'
  BY <1>1 DEF SparesPeers, ByAdder
<1>3. \A x \in In(links) : Late(x) => Late(x)'
  BY <1>1, <1>2 DEF Late
<1>4. Acquainted'
  BY <1>1, <1>3 DEF SparesPeers, Sparing, Acquainted, Ending
<1>. QED  BY <1>1, <1>4

LEMMA SparesKeeps ==
    ASSUME Sparing, Spares, Unlinked'
    PROVE  Sparing'
<1>1. links' = links /\ Plain(links') /\ Acquainted'
  BY PeersKept DEF Spares
<1>2. OneAdder' /\ NewNames'
  BY <1>1 DEF Spares, Sparing, OneAdder, NewNames
<1>. QED  BY <1>1, <1>2 DEF Sparing

LEMMA UnlinkedStays ==
    ASSUME Sparing, links' = links,
           \A x \in In(links) : thread'[x] = "connects" => thread[x] = "connects" /\ now'[x] = now[x]
    PROVE  Unlinked'
BY DEF Sparing, Unlinked

\* Only what e does or has to read has changed, and a name it has read.
LEMMA HearSparing ==
    ASSUME TypeInv, Standing, Talk, Sparing, NEW e \in Ends,
           HearConnect(e) \/ HearDisconnect(e) \/ HearAddNeighbors(e) \/ HearSearch(e) \/ Accept(e)
    PROVE  Sparing'
<1>1. Ground /\ e \in In(links) /\ Owner(e) = At(links, e) /\ Types /\ e \in End
  BY GroundHolds, OwnerFacts DEF TypeInv
<1>2. /\ links' = links /\ state' = state /\ now' = now
      /\ \A x \in In(links) : x # e => /\ thread'[x] = thread[x] /\ chan'[x] = chan[x]
                                       /\ todo'[x] = todo[x] /\ name'[x] = name[x]
  BY <1>1 DEF HearConnect, HearDisconnect, HearAddNeighbors, HearSearch, Accept, Hears, Loops, Types, Ground
<1>3. thread[e] \in {"reads", "backlog"} /\ thread'[e] \in {"reads", "adds", "ended"}
  BY <1>1 DEF HearConnect, HearDisconnect, HearAddNeighbors, HearSearch, Accept, Hears, Loops, Types
<1>4. (AddWork(e)' => AddWork(e)) /\ \A m \in Node : Wanted(e, m)' => Wanted(e, m)
  <2>1. CASE HearConnect(e) \/ HearDisconnect(e) \/ HearAddNeighbors(e)
    <3>1. /\ chan[e] # <<>> /\ chan[e] \in Seq(Message) /\ chan'[e] = Tail(chan[e])
          /\ \/ thread'[e] \in {"reads", "ended"}
             \/ Head(chan[e]).type = "ADDNBRS" /\ todo'[e] = Head(chan[e]).names
      BY <1>1, <2>1 DEF HearConnect, HearDisconnect, HearAddNeighbors, Hears, Loops, Types
    <3>2. /\ TellsNames(Tail(chan[e])) => TellsNames(chan[e])
          /\ \A m : Offers(Tail(chan[e]), m) => Offers(chan[e], m)
          /\ Head(chan[e]).type = "ADDNBRS" =>
                  TellsNames(chan[e]) /\ \A m \in Head(chan[e]).names : Offers(chan[e], m)
      BY <3>1, TailOffers
    <3>3. AddWork(e)' => AddWork(e)
      BY <1>3, <3>1, <3>2 DEF AddWork, AddThreads
    <3>4. ASSUME NEW m \in Node, Wanted(e, m)' PROVE Wanted(e, m)
      BY <1>3, <3>1, <3>2, <3>4 DEF Wanted, AddThreads
    <3>. QED  BY <3>3, <3>4
  <2>2. CASE HearSearch(e) \/ Accept(e)
    <3>1. chan' = chan /\ todo' = todo /\ thread'[e] \in {"reads", "ended"}
      BY <1>1, <2>2 DEF HearSearch, Accept, Types
    <3>. QED  BY <1>3, <3>1 DEF AddWork, Wanted, AddThreads
  <2>. QED  BY <2>1, <2>2
<1>5. ASSUME NEW x \in In(links), Known(x) PROVE Known(x)'
  <2>1. x \in peers[At(links, x)] => x \in peers'[At(links, x)]
    <3>1. CASE Accept(e)
      BY <1>1, <3>1 DEF Accept, Types, Ground
    <3>2. CASE ~Accept(e)
      BY <3>2 DEF HearConnect, HearDisconnect, HearAddNeighbors, HearSearch
    <3>. QED  BY <3>1, <3>2
  <2>2. Pushed(x) => Pushed(x)'
    <3>1. \A y \in End : thread[y] = "pushes" => y \in In(links)
      BY DEF TypeInv, Unmade
    <3>. QED  BY <1>2, <1>3, <3>1 DEF Pushed
  <2>3. name'[x] = At(links, Other(x))
    <3>1. CASE HearConnect(e) /\ x = e
      <4>1. chan[e] # <<>> /\ chan[e] \in Seq(Message) /\ Head(chan[e]).type = "CONNECT"
        BY <1>1, <3>1 DEF HearConnect, Hears, Types
      <4>2. NamesOnly(chan[e], At(links, Other(e)))
        BY <1>1 DEF Talk, Named
      <4>3. Head(chan[e]).names = {At(links, Other(e))}
        BY <4>1, <4>2, TailTalk
      <4>. QED  BY <1>1, <3>1, <4>3 DEF HearConnect, Types
    <3>2. CASE ~HearConnect(e)
      BY <1>5, <3>2 DEF HearDisconnect, HearAddNeighbors, HearSearch, Accept, Known
    <3>. QED  BY <1>2, <1>5, <3>1, <3>2 DEF Known
  <2>. QED  BY <1>2, <1>5, <2>1, <2>2, <2>3 DEF Known
<1>6. Spares
  <2>1. \A x \in In(links) : x # e => (AddWork(x)' => AddWork(x)) /\ \A m \in Node : Wanted(x, m)' => Wanted(x, m)
    BY <1>2 DEF AddWork, Wanted
  <2>2. \A x \in In(links) : thread[x] \in AddThreads => thread'[x] \in AddThreads
    BY <1>2, <1>3 DEF AddThreads
  <2>. QED  BY <1>2, <1>4, <1>5, <2>1, <2>2 DEF Spares, SparesPeers, Ending
<1>7. Unlinked'
  BY <1>2, <1>3, UnlinkedStays
<1>. QED  BY <1>6, <1>7, SparesKeeps

\* add_neighbors goes through its names.
LEMMA AddSparing ==
    ASSUME TypeInv, Standing, Talk, RunForLeaver, OneLeaves, Sparing, NEW e \in Ends,
           \/ \E m \in todo[e] : KnownNeighbor(e, m) \/ NewNeighbor(e, m)
           \/ NeighborRefuses(e) \/ NeighborPushed(e)
    PROVE  Sparing'
<1>1. Ground /\ e \in In(links) /\ Owner(e) = At(links, e) /\ Types /\ e \in End
  BY GroundHolds, OwnerFacts DEF TypeInv
<1>. DEFINE Change ==
      /\ links' = links /\ state' = state /\ name' = name /\ chan' = chan
      /\ thread[e] \in AddThreads /\ thread'[e] \in AddThreads
      /\ todo'[e] \subseteq todo[e]
      /\ \A x \in In(links) : x # e =>
            /\ todo'[x] = todo[x] /\ now'[x] = now[x]
            /\ thread'[x] = thread[x] \/ (thread[x] = "none" /\ thread'[x] \in {"reads", "ended"})
<1>2. Change
  <2>1. ASSUME NEW m \in todo[e], KnownNeighbor(e, m) PROVE Change
    BY <1>1, <2>1 DEF KnownNeighbor, AddThreads, Types, Ground
  <2>2. ASSUME NEW m \in todo[e], NewNeighbor(e, m) PROVE Change
    BY <1>1, <2>2 DEF NewNeighbor, AddThreads, Types, Ground
  <2>3. CASE NeighborRefuses(e)
    BY <1>1, <2>3 DEF NeighborRefuses, AddThreads, Types, Ground
  <2>4. CASE NeighborPushed(e)
    <3>1. now[e] \in In(links) /\ now[e] \in End /\ now[e] # e /\ thread[now[e]] = "none"
      BY <1>1, <2>4 DEF NeighborPushed, TypeInv, Pushing, Ground
    <3>2. /\ links' = links /\ state' = state /\ name' = name /\ chan' = chan /\ todo' = todo
          /\ thread[e] = "pushes" /\ now' = [now EXCEPT ![e] = NoName]
          /\ thread' = [thread EXCEPT ![e] = "adds", 
                           ![now[e]] = IF state[Owner(e)] = "up" THEN "reads" ELSE "ended"]
      BY <2>4 DEF NeighborPushed
    <3>3. thread'[e] = "adds"
      BY <1>1, <3>1, <3>2 DEF Types
    <3>4. \A x \in In(links) : x # e => 
            /\ now'[x] = now[x]
            /\ thread'[x] = thread[x] \/ (thread[x] = "none" /\ thread'[x] \in {"reads", "ended"})
      BY <1>1, <3>1, <3>2 DEF Types, Ground
    <3>. QED  BY <3>2, <3>3, <3>4 DEF AddThreads
  <2>. QED  BY <2>1, <2>2, <2>3, <2>4
<1>. HIDE DEF Change
<1>3. ASSUME NEW x \in In(links)
      PROVE  (AddWork(x)' => AddWork(x)) /\ \A m \in Node : Wanted(x, m)' => Wanted(x, m)
  <2>1. CASE x # e
    BY <1>2, <2>1 DEF Change, AddWork, Wanted, AddThreads
  <2>2. CASE x = e
    <3>1. thread'[e] = "connects" => now'[e] \in todo[e]
      BY <1>1 DEF KnownNeighbor, NewNeighbor, NeighborRefuses, NeighborPushed, Types
    <3>. QED  BY <1>2, <2>2, <3>1 DEF Change, AddWork, Wanted
  <2>. QED  BY <2>1, <2>2
<1>4. ASSUME NEW x \in In(links), Known(x) PROVE Known(x)'
  <2>1. CASE NeighborPushed(e)
    <3>1. /\ peers' = [peers EXCEPT ![Owner(e)] = @ \cup {now[e]}] /\ thread[e] = "pushes"
          /\ now[e] \in In(links) /\ At(links, now[e]) = At(links, e)
      BY <1>1, <2>1 DEF NeighborPushed, TypeInv, Pushing
    <3>2. x \in peers[At(links, x)] \/ x = now[e] => x \in peers'[At(links, x)]
      BY <1>1, <3>1 DEF Types, Ground
    <3>3. ASSUME NEW y \in End, thread[y] = "pushes", y # e PROVE thread'[y] = "pushes" /\ now'[y] = now[y]
      BY <1>2, <3>3 DEF Change, TypeInv, Unmade
    <3>4. Pushed(x) => Pushed(x)' \/ x = now[e]
      BY <3>3 DEF Pushed
    <3>. QED  BY <1>2, <1>4, <3>2, <3>4 DEF Known, Change
  <2>2. CASE ~NeighborPushed(e)
    <3>1. peers' = peers /\ thread[e] # "pushes"
      BY <2>2 DEF KnownNeighbor, NewNeighbor, NeighborRefuses
    <3>2. ASSUME NEW y \in End, thread[y] = "pushes" PROVE thread'[y] = "pushes" /\ now'[y] = now[y]
      BY <1>2, <3>1, <3>2 DEF Change, TypeInv, Unmade
    <3>3. Pushed(x) => Pushed(x)'
      BY <3>2 DEF Pushed
    <3>. QED  BY <1>2, <1>4, <3>1, <3>3 DEF Known, Change
  <2>. QED  BY <2>1, <2>2
<1>5. Spares
  <2>1. \A x \in In(links) : thread[x] \in AddThreads => thread'[x] \in AddThreads
    BY <1>2 DEF Change, AddThreads
  <2>. QED  BY <1>2, <1>3, <1>4, <2>1 DEF Spares, SparesPeers, Change, Ending
<1>6. Unlinked'
  <2>1. ASSUME NEW m \in todo[e], NewNeighbor(e, m) PROVE Unlinked'
    <3>1. /\ thread[e] = "adds" /\ state[At(links, e)] # "gone" /\ ~ConnectedTo(At(links, e), m)
          /\ now'[e] = m
      BY <1>1, <2>1 DEF NewNeighbor, Types
    <3>2. m \in Node => ~Meets(links, At(links, e), m)
      BY <1>1, <3>1, NotFound
    <3>3. \A x \in In(links) : x # e => now'[x] = now[x] /\ (thread'[x] = "connects" => thread[x] = "connects")
      BY <1>2 DEF Change
    <3>4. links' = links
      BY <1>2 DEF Change
    <3>. QED  BY <3>1, <3>2, <3>3, <3>4 DEF Unlinked, Sparing
  <2>2. CASE ~\E m \in todo[e] : NewNeighbor(e, m)
    <3>1. thread'[e] # "connects"
      BY <1>1, <2>2 DEF KnownNeighbor, NeighborRefuses, NeighborPushed, Types
    <3>. QED  BY <1>2, <3>1, UnlinkedStays DEF Change
  <2>. QED  BY <2>1, <2>2
<1>. QED  BY <1>5, <1>6, SparesKeeps

\* The monitor frees only who has said goodbye.
LEMMA MonitorSparing ==
    ASSUME TypeInv, Standing, Talk, Sparing, NEW n \in Node, MonitorFrees(n) \/ MonitorJoins(n)
    PROVE  Sparing'
<1>1. Ground /\ Types
  BY GroundHolds DEF TypeInv
<1>2. /\ links' = links /\ state' = state /\ name' = name /\ thread' = thread
      /\ todo' = todo /\ now' = now /\ chan' = chan
  BY DEF MonitorFrees, MonitorJoins
<1>3. ASSUME NEW x \in In(links), Known(x), ~Ending(At(links, Other(x))) PROVE Known(x)'
  <2>1. x \in peers[At(links, x)] => connected[x]
    BY <1>3 DEF Talk, GoodbyeSent
  <2>2. x \in peers[At(links, x)] => x \in peers'[At(links, x)]
    <3>1. CASE MonitorFrees(n)
      BY <1>1, <2>1, <3>1 DEF MonitorFrees, Disconnected, Types, Ground
    <3>2. CASE MonitorJoins(n)
      BY <3>2 DEF MonitorJoins
    <3>. QED  BY <3>1, <3>2
  <2>. QED  BY <1>2, <1>3, <2>2 DEF Known, Pushed
<1>4. \A x \in In(links) : (AddWork(x)' => AddWork(x)) /\ \A m \in Node : Wanted(x, m)' => Wanted(x, m)
  BY <1>2 DEF AddWork, Wanted
<1>5. Spares
  BY <1>2, <1>3, <1>4 DEF Spares, SparesPeers, Ending
<1>6. Unlinked'
  BY <1>2, UnlinkedStays
<1>. QED  BY <1>5, <1>6, SparesKeeps

LEMMA TerminateSparing ==
    ASSUME TypeInv, Sparing, NEW n \in Node, Terminate(n)
    PROVE  Sparing'
<1>1. Ground /\ Types
  BY GroundHolds DEF TypeInv
<1>2. PICK reset \in SUBSET Backlog(n) :
         /\ thread' = [e \in End |-> IF e \in reset THEN "none" ELSE thread[e]]
         /\ events' = events \cup {"reset" : e \in reset}
  BY DEF Terminate
<1>3. /\ links' = links /\ name' = name /\ peers' = peers
      /\ todo' = todo /\ now' = now /\ chan' = chan
      /\ state' = [state EXCEPT ![n] = "leaving"] /\ state[n] = "up"
  BY DEF Terminate
<1>4. \A x \in End : thread'[x] = thread[x] \/ (thread[x] = "backlog" /\ thread'[x] = "none")
  BY <1>1, <1>2 DEF Backlog
<1>5. \A x \in In(links) : x \in End
  BY <1>1 DEF Ground
<1>6. \A x \in In(links) : (AddWork(x)' => AddWork(x)) /\ \A m \in Node : Wanted(x, m)' => Wanted(x, m)
  BY <1>3, <1>4, <1>5 DEF AddWork, Wanted, AddThreads
<1>7. ASSUME NEW x \in In(links), Known(x) PROVE Known(x)'
  <2>1. Pushed(x) => Pushed(x)'
    BY <1>3, <1>4 DEF Pushed
  <2>. QED  BY <1>3, <1>7, <2>1 DEF Known
<1>8. Spares
  <2>1. \A k \in Node : /\ state'[k] = "up" => state[k] = "up"
                        /\ state'[k] \notin {"closing", "gone"} => ~Ending(k)
    BY <1>1, <1>3 DEF Types, Ending
  <2>2. \A x \in In(links) : At(links, x) \in Node /\ At(links, Other(x)) \in Node
    BY <1>1 DEF Ground
  <2>3. \A x \in In(links) : thread[x] \in AddThreads => thread'[x] \in AddThreads
    BY <1>4, <1>5 DEF AddThreads
  <2>. QED  BY <1>3, <1>6, <1>7, <2>1, <2>2, <2>3 DEF Spares, SparesPeers
<1>9. Unlinked'
  BY <1>3, <1>4, <1>5, UnlinkedStays
<1>. QED  BY <1>8, <1>9, SparesKeeps

\* Who ends is the one that leaves: nobody runs add_neighbors for it, or it is the
\* one who runs it, and then two have left.
LEMMA ProcessEndsSparing ==
    ASSUME TypeInv, RunForLeaver, Sparing, NEW n \in Node, NEW event, ProcessEnds(n, event), OneLeaves'
    PROVE  Sparing'
<1>1. Ground /\ Types
  BY GroundHolds DEF TypeInv
<1>2. \A x \in End : x \in EndsOf(n) <=> x \in In(links) /\ At(links, x) = n
  BY <1>1, EndsOfFacts
<1>3. /\ links' = links /\ name' = name
      /\ state' = [state EXCEPT ![n] = "gone"] /\ peers' = [peers EXCEPT ![n] = {}]
      /\ thread' = [e \in End |-> IF e \in EndsOf(n) THEN "ended" ELSE thread[e]]
      /\ chan' = [e \in End |-> IF e \in EndsOf(n) THEN <<>> ELSE chan[e]]
      /\ todo' = [e \in End |-> IF e \in EndsOf(n) THEN {} ELSE todo[e]]
      /\ now' = [e \in End |-> IF e \in EndsOf(n) THEN NoName ELSE now[e]]
  BY DEF ProcessEnds
<1>4. ASSUME NEW x \in In(links), At(links, x) = n
      PROVE  thread'[x] = "ended" /\ chan'[x] = <<>> /\ thread[x] \notin AddThreads
  <2>1. thread'[x] = "ended" /\ chan'[x] = <<>> /\ At(links, Other(x)) \in Node
    BY <1>1, <1>2, <1>3, <1>4 DEF Ground
  <2>2. ASSUME thread[x] \in AddThreads PROVE FALSE
    <3>1. state'[At(links, Other(x))] \in {"closing", "gone"} /\ state'[n] = "gone"
      BY <1>1, <1>3, <2>1, <2>2 DEF RunForLeaver, Ending, Types
    <3>2. At(links, Other(x)) = n
      BY <2>1, <3>1 DEF OneLeaves, Left
    <3>. QED  BY <1>4, <3>2, TwoSides DEF Sparing
  <2>. QED  BY <2>1, <2>2
<1>5. ASSUME NEW x \in End, x \notin In(links) \/ At(links, x) # n
      PROVE  thread'[x] = thread[x] /\ chan'[x] = chan[x] /\ todo'[x] = todo[x] /\ now'[x] = now[x]
  BY <1>2, <1>3, <1>5
<1>6. \A x \in In(links) : x \in End
  BY <1>1 DEF Ground
<1>7. ASSUME NEW x \in In(links)
      PROVE  (AddWork(x)' => AddWork(x)) /\ \A m \in Node : Wanted(x, m)' => Wanted(x, m)
  <2>1. CASE At(links, x) = n
    BY <1>4, <2>1, NoOffers DEF AddWork, Wanted, AddThreads
  <2>2. CASE At(links, x) # n
    BY <1>5, <1>6, <2>2 DEF AddWork, Wanted
  <2>. QED  BY <2>1, <2>2
<1>8. ASSUME NEW x \in In(links), At(links, x) # n, Known(x) PROVE Known(x)'
  <2>1. x \in peers[At(links, x)] => x \in peers'[At(links, x)]
    BY <1>3, <1>8
  <2>2. ASSUME NEW y \in End, thread[y] = "pushes", now[y] = x PROVE thread'[y] = "pushes" /\ now'[y] = x
    <3>1. At(links, y) # n
      BY <1>8, <2>2 DEF TypeInv, Pushing
    <3>. QED  BY <1>5, <2>2, <3>1
  <2>3. Pushed(x) => Pushed(x)'
    BY <2>2 DEF Pushed
  <2>. QED  BY <1>3, <1>8, <2>1, <2>3 DEF Known
<1>9. Spares
  <2>1. \A k \in Node : /\ state'[k] = "up" => state[k] = "up" /\ k # n
                        /\ state'[k] \notin {"closing", "gone"} => ~Ending(k)
    BY <1>1, <1>3 DEF Types, Ending
  <2>2. \A x \in In(links) : At(links, x) \in Node /\ At(links, Other(x)) \in Node
    BY <1>1 DEF Ground
  <2>3. \A x \in In(links) : thread[x] \in AddThreads => thread'[x] \in AddThreads
    BY <1>4, <1>5, <1>6
  <2>. QED  BY <1>3, <1>7, <1>8, <2>1, <2>2, <2>3 DEF Spares, SparesPeers
<1>10. Unlinked'
  <2>1. ASSUME NEW x \in In(links), thread'[x] = "connects" PROVE thread[x] = "connects" /\ now'[x] = now[x]
    BY <1>4, <1>5, <1>6, <2>1
  <2>. QED  BY <1>3, <2>1, UnlinkedStays
<1>. QED  BY <1>9, <1>10, SparesKeeps

LEMMA RefusedSparing ==
    ASSUME TypeInv, Standing, Sparing, NEW n \in Node, NEW m \in Joins[n], StartRefused(n, m)
    PROVE  Sparing'
<1>1. Ground /\ Types
  BY GroundHolds DEF TypeInv
<1>2. /\ links' = links /\ name' = name /\ peers' = peers /\ thread' = thread
      /\ todo' = todo /\ now' = now /\ chan' = chan
      /\ state' = [state EXCEPT ![n] = "gone"] /\ state[n] = "down"
  BY DEF StartRefused
<1>3. \A x \in In(links) : /\ state'[At(links, x)] = state[At(links, x)]
                           /\ state'[At(links, Other(x))] = state[At(links, Other(x))]
  BY <1>1, <1>2 DEF Ground, Standing, Owned, Types
<1>4. \A x \in In(links) : (AddWork(x)' => AddWork(x)) /\ \A m1 \in Node : Wanted(x, m1)' => Wanted(x, m1)
  BY <1>2 DEF AddWork, Wanted
<1>5. \A x \in In(links) : Known(x) => Known(x)'
  BY <1>2 DEF Known, Pushed
<1>6. Spares
  BY <1>2, <1>3, <1>4, <1>5 DEF Spares, SparesPeers, Ending
<1>7. Unlinked'
  BY <1>2, UnlinkedStays
<1>. QED  BY <1>6, <1>7, SparesKeeps

\* The one that leaves tells one peer the names of the others; nobody was told before.
LEMMA PartSparing ==
    ASSUME TypeInv, Talk, NamesTrue, RunForLeaver, Sparing, OneLeaves', 
           NEW n \in Node, NEW e \in peers[n], NEW msg \in Message, Parted(n, e, msg)
    PROVE  Sparing'
<1>1. Ground /\ Types /\ e \in In(links) /\ e \in End /\ At(links, e) = n
      /\ Other(e) \in In(links) /\ Other(e) \in End /\ At(links, Other(e)) \in Node
  BY GroundHolds DEF TypeInv, Ground
<1>. DEFINE f == Other(e)
<1>2. /\ links' = links /\ name' = name /\ todo' = todo /\ now' = now
      /\ state' = [state EXCEPT ![n] = "closing"] /\ peers' = [peers EXCEPT ![n] = @ \ {e}]
      /\ thread' = [thread EXCEPT ![e] = IF @ = "reads" THEN "ended" ELSE @]
      /\ chan' = chan \/ chan' = [chan EXCEPT ![f] = Append(@, msg)]
      /\ msg.type = "ADDNBRS" => state[n] = "leaving" /\ msg = Msg("ADDNBRS", NamesOfOthers(n, e))
      /\ state[n] \in {"leaving", "closing"}
  BY DEF Parted
<1>3. \A x \in End : thread'[x] = thread[x] \/ (thread[x] = "reads" /\ thread'[x] = "ended")
  BY <1>1, <1>2 DEF Types
<1>4. \A x \in In(links) : x \in End
  BY <1>1 DEF Ground
<1>5. SparesPeers
  <2>1. ASSUME NEW x \in In(links), At(links, x) # n, Known(x) PROVE Known(x)'
    <3>1. Pushed(x) => Pushed(x)'
      BY <1>2, <1>3 DEF Pushed
    <3>. QED  BY <1>2, <2>1, <3>1 DEF Known
  <2>2. \A k \in Node : /\ state'[k] = "up" => state[k] = "up" /\ k # n
                        /\ state'[k] \notin {"closing", "gone"} => ~Ending(k)
    BY <1>1, <1>2 DEF Types, Ending
  <2>3. \A x \in In(links) : At(links, x) \in Node /\ At(links, Other(x)) \in Node
    BY <1>1 DEF Ground
  <2>4. \A x \in In(links) : thread[x] \in AddThreads => thread'[x] \in AddThreads
    BY <1>3, <1>4 DEF AddThreads
  <2>. QED  BY <1>2, <2>1, <2>2, <2>3, <2>4 DEF SparesPeers
<1>6. Unlinked'
  BY <1>2, <1>3, <1>4, UnlinkedStays
<1>7. ASSUME NEW x \in In(links), x # f \/ chan' = chan \/ msg.type # "ADDNBRS"
      PROVE  (AddWork(x)' => AddWork(x)) /\ \A m \in Node : Wanted(x, m)' => Wanted(x, m)
  <2>1. /\ TellsNames(chan'[x]) => TellsNames(chan[x])
        /\ \A m : Offers(chan'[x], m) => Offers(chan[x], m)
    <3>1. CASE chan'[x] = chan[x]
      BY <3>1
    <3>2. CASE chan'[x] = Append(chan[x], msg) /\ msg.type # "ADDNBRS"
      BY <1>1, <1>4, <3>2, AppendOffers DEF Types
    <3>. QED  BY <1>1, <1>2, <1>4, <1>7, <3>1, <3>2 DEF Types
  <2>. QED  BY <1>2, <1>3, <1>4, <2>1 DEF AddWork, Wanted, AddThreads
<1>8. CASE chan' = chan \/ msg.type # "ADDNBRS"
  <2>1. Spares
    BY <1>5, <1>7, <1>8 DEF Spares
  <2>. QED  BY <1>6, <2>1, SparesKeeps
<1>9. CASE chan' = [chan EXCEPT ![f] = Append(@, msg)] /\ msg.type = "ADDNBRS"
  <2>1. ASSUME NEW x \in In(links), AddWork(x) PROVE FALSE
    <3>1. Ending(At(links, Other(x))) /\ At(links, Other(x)) \in Node
      BY <1>1, <2>1, WorkForLeaver DEF Ground
    <3>2. At(links, Other(x)) # n /\ state'[At(links, Other(x))] \in {"closing", "gone"}
      BY <1>1, <1>2, <1>9, <3>1 DEF Ending, Types
    <3>3. state'[n] = "closing"
      BY <1>1, <1>2 DEF Types
    <3>. QED  BY <3>1, <3>2, <3>3 DEF OneLeaves, Left
  <2>2. \A x \in In(links), m \in Node : ~Wanted(x, m)
    <3>1. \A q : TellsNames(q) \/ \A m : ~Offers(q, m)
      BY DEF TellsNames, Offers
    <3>. QED  BY <2>1, <3>1 DEF AddWork, Wanted, AddThreads
  <2>3. ASSUME NEW x \in In(links), x # f
        PROVE  ~AddWork(x)' /\ \A m \in Node : ~Wanted(x, m)'
    BY <1>7, <2>1, <2>2, <2>3
  <2>4. OneAdder'
    BY <1>2, <2>3 DEF OneAdder
  <2>5. ASSUME NEW m \in Node, Wanted(f, m)' PROVE m \in NamesOfOthers(n, e)
    <3>1. thread[f] \notin AddThreads /\ ~Offers(chan[f], m)
      BY <1>1, <2>1, <2>2 DEF AddWork, Wanted
    <3>2. chan'[f] = Append(chan[f], msg) /\ chan[f] \in Seq(Message) /\ msg.names = NamesOfOthers(n, e)
      BY <1>1, <1>2, <1>9 DEF Types, Msg
    <3>3. Offers(chan'[f], m) => m \in NamesOfOthers(n, e)
      BY <3>1, <3>2, AppendOffers
    <3>4. thread'[f] \notin AddThreads
      BY <1>1, <1>3, <3>1 DEF AddThreads
    <3>. QED  BY <2>5, <3>3, <3>4 DEF Wanted, AddThreads
  <2>6. ASSUME NEW m \in Node, m \in NamesOfOthers(n, e)
        PROVE  m # At(links, f) /\ m # n /\ Meets(links, n, m)
    <3>1. PICK x \in peers[n] \ {e} : name[x] = m
      BY <2>6 DEF NamesOfOthers
    <3>2. x \in In(links) /\ At(links, x) = n /\ At(links, Other(x)) = m /\ x # e
      BY <1>1, <2>6, <3>1, OverlayAssumption DEF NamesTrue, Ground
    <3>3. m # n
      BY <3>2, TwoSides DEF Sparing
    <3>4. m # At(links, f)
      BY <1>1, <3>2 DEF Sparing, Plain
    <3>. QED  BY <3>2, <3>3, <3>4 DEF Meets
  <2>7. NewNames'
    <3>1. Other(f) = e
      BY <1>1 DEF Ground
    <3>. HIDE DEF f
    <3>2. ASSUME NEW x \in In(links), NEW m \in Node, Wanted(x, m)'
          PROVE  m # At(links, x) /\ m # At(links, Other(x)) /\ Meets(links, At(links, Other(x)), m)
      <4>1. x = f
        BY <2>3, <3>2
      <4>. QED  BY <1>1, <2>5, <2>6, <3>1, <3>2, <4>1
    <3>. QED  BY <1>2, <3>2 DEF NewNames
  <2>. QED  BY <1>5, <1>6, <2>4, <2>7, PeersKept DEF Sparing
<1>. QED  BY <1>2, <1>8, <1>9

\* The newest connection has the highest number.
LEMMA NewestLink ==
    ASSUME TypeInv, NEW n \in Node, NEW m \in Node, n # m, NEW out \in End,
           links' = Append(links, <<n, m>>), Longer(links, links', n, m, out)
    PROVE  /\ out[2] = "out" /\ Other(out)[2] = "in" /\ out[1] \in Nat /\ Other(out)[1] = out[1]
           /\ Other(Other(out)) = out /\ Other(out) \in In(links') /\ out \in In(links')
           /\ In(links') = In(links) \cup {out, Other(out)}
           /\ \A x \in In(links) : /\ x \in End /\ x[1] \in Nat /\ x[1] < out[1]
                                   /\ Other(x) \in In(links) /\ Other(x)[1] = x[1]
                                   /\ x # out /\ x # Other(out)
                                   /\ At(links', x) = At(links, x)
                                   /\ At(links', Other(x)) = At(links, Other(x))
<1>1. links \in Seq(Node \X Node) /\ Len(links) \in Nat
  BY DEF TypeInv, Types
<1>2. /\ out \notin In(links) /\ out \in In(links') /\ Other(out) \in In(links')
      /\ In(links') = In(links) \cup {out, Other(out)}
      /\ Len(links') = Len(links) + 1 /\ At(links', out) = n
  BY DEF Longer
<1>3. out[1] \in Nat /\ out[2] \in {"out", "in"} /\ Other(out)[1] = out[1] /\ Other(Other(out)) = out
  BY EndNumbers, EndFacts, OverlayAssumption DEF End
<1>4. out[1] = Len(links) + 1
  BY <1>1, <1>2, <1>3 DEF In
<1>5. links'[out[1]] = <<n, m>>
  BY <1>1, <1>4
<1>6. out[2] = "out" /\ Other(out)[2] = "in"
  <2>1. ASSUME out[2] # "out" PROVE At(links', out) = m
    <3>1. At(links', out) = links'[out[1]][2]
      BY <2>1 DEF At
    <3>2. <<n, m>>[2] = m
      OBVIOUS
    <3>. QED  BY <1>5, <3>1, <3>2
  <2>. QED  BY <1>2, <2>1 DEF Other
<1>7. ASSUME NEW x \in In(links)
      PROVE  /\ x \in End /\ x[1] \in Nat /\ x[1] < out[1]
             /\ Other(x) \in In(links) /\ Other(x)[1] = x[1]
             /\ x # out /\ x # Other(out)
             /\ At(links', x) = At(links, x) /\ At(links', Other(x)) = At(links, Other(x))
  <2>1. x \in End /\ Other(x) \in In(links)
    BY GroundHolds DEF Ground
  <2>2. x[1] \in Nat /\ Other(x)[1] = x[1] /\ x[1] <= Len(links)
    BY <2>1, EndNumbers DEF In
  <2>3. x[1] < out[1]
    BY <1>1, <1>4, <2>2
  <2>. QED  BY <2>1, <2>2, <2>3, <1>3 DEF Longer
<1>. QED  BY <1>2, <1>3, <1>6, <1>7

LEMMA LongerMeets ==
    ASSUME TypeInv, NEW n \in Node, NEW m \in Node, n # m, NEW out \in End,
           links' = Append(links, <<n, m>>), Longer(links, links', n, m, out)
    PROVE  /\ \A i, k : Meets(links, i, k) => Meets(links', i, k)
           /\ \A i, k : Meets(links', i, k) =>
                  Meets(links, i, k) \/ (i = n /\ k = m) \/ (i = m /\ k = n)
           /\ Plain(links) /\ ~Meets(links, n, m) => Plain(links')
<1>. DEFINE in == Other(out)
<1>1. At(links', out) = n /\ At(links', in) = m /\ Other(in) = out
  BY NewestLink DEF Longer
<1>2. In(links') = In(links) \cup {out, in} /\ Other(out) = in /\ in # out
  BY NewestLink DEF Longer
<1>3. \A x \in In(links) : /\ At(links', x) = At(links, x) /\ At(links', Other(x)) = At(links, Other(x))
                           /\ Other(x) \in In(links) /\ Other(Other(x)) = x
  BY NewestLink, GroundHolds DEF Ground
<1>. HIDE DEF in
<1>4. \A i, k : Meets(links, i, k) => Meets(links', i, k)
  BY <1>2, <1>3 DEF Meets
<1>5. \A i, k : Meets(links', i, k) =>
          Meets(links, i, k) \/ (i = n /\ k = m) \/ (i = m /\ k = n)
  BY <1>1, <1>2, <1>3 DEF Meets
<1>6. ASSUME Plain(links), ~Meets(links, n, m) PROVE Plain(links')
  <2>1. ~Meets(links, m, n)
    BY <1>3, <1>6 DEF Meets
  <2>2. \A x \in In(links) : /\ ~(At(links', x) = n /\ At(links', Other(x)) = m)
                             /\ ~(At(links', x) = m /\ At(links', Other(x)) = n)
    BY <1>3, <1>6, <2>1 DEF Meets
  <2>. SUFFICES ASSUME NEW x \in In(links'), NEW y \in In(links'), At(links', x) = At(links', y),
                       At(links', Other(x)) = At(links', Other(y))
                PROVE  x = y
    BY DEF Plain
  <2>3. CASE x \in In(links) /\ y \in In(links)
    BY <1>3, <1>6, <2>3 DEF Plain
  <2>4. CASE x \in {out, in} /\ y \in {out, in}
    BY <1>1, <1>2, <2>4
  <2>5. CASE x \in In(links) /\ y \in {out, in}
    BY <1>1, <1>2, <2>2, <2>5
  <2>6. CASE y \in In(links) /\ x \in {out, in}
    BY <1>1, <1>2, <2>2, <2>6
  <2>. QED  BY <1>2, <2>3, <2>4, <2>5, <2>6
<1>. QED  BY <1>4, <1>5, <1>6

\* A connection is made by a server that joins or by the one who runs add_neighbors,
\* and its peer does not know it yet.
Grows(n, m, out) ==
    /\ n # m /\ links' = Append(links, <<n, m>>) /\ Longer(links, links', n, m, out)
    /\ ~Meets(links, n, m)
    /\ ~AddWork(out)' /\ ~AddWork(Other(out))'
    /\ Known(out)' /\ (Starter(links', out) \/ ByAdder(out)')
    /\ \A x \in In(links) : (AddWork(x)' => AddWork(x)) /\ \A k \in Node : Wanted(x, k)' => Wanted(x, k)
    /\ \A x \in In(links) : thread[x] \in AddThreads => thread'[x] \in AddThreads
    /\ \A x \in In(links) : state'[At(links, x)] = "up" /\ state'[At(links, Other(x))] \notin {"closing", "gone"}
          => /\ state[At(links, x)] = "up" /\ ~Ending(At(links, Other(x)))
             /\ Known(x) => Known(x)'

LEMMA GrowsKeeps ==
    ASSUME TypeInv, Sparing, NEW n \in Node, NEW m \in Node, NEW out \in End, Grows(n, m, out), Unlinked'
    PROVE  Sparing'
<1>. DEFINE in == Other(out)
<1>1. /\ out[2] = "out" /\ in[2] = "in" /\ out[1] \in Nat /\ in[1] = out[1]
      /\ Other(in) = out /\ In(links') = In(links) \cup {out, in}
      /\ \A x \in In(links) : /\ x \in End /\ x[1] \in Nat /\ x[1] < out[1]
                              /\ Other(x) \in In(links) /\ Other(x)[1] = x[1]
                              /\ At(links', x) = At(links, x)
                              /\ At(links', Other(x)) = At(links, Other(x))
  BY NewestLink DEF Grows
<1>2. /\ \A i, k : Meets(links, i, k) => Meets(links', i, k)
      /\ Plain(links')
  BY LongerMeets DEF Grows, Sparing
<1>3. ~AddWork(out)' /\ ~AddWork(in)'
  BY DEF Grows
<1>. HIDE DEF in
<1>4. OneAdder'
  BY <1>1, <1>3 DEF Grows, Sparing, OneAdder
<1>5. \A x : AddWork(x)' \/ \A k \in Node : ~Wanted(x, k)'
  BY DEF AddWork, Wanted, TellsNames, Offers, AddThreads
<1>6. NewNames'
  <2>. SUFFICES ASSUME NEW x \in In(links'), NEW k \in Node, Wanted(x, k)'
                PROVE  k # At(links', x) /\ k # At(links', Other(x)) /\ Meets(links', At(links', Other(x)), k)
    BY DEF NewNames
  <2>1. x \in In(links) /\ Wanted(x, k)
    BY <1>1, <1>3, <1>5 DEF Grows
  <2>. QED  BY <1>1, <1>2, <2>1 DEF Sparing, NewNames
<1>7. ASSUME NEW o \in In(links), Starter(links, o) \/ ByAdder(o)
      PROVE  Starter(links', o) \/ ByAdder(o)'
  <2>1. Starter(links, o) => Starter(links', o)
    BY <1>1 DEF Starter
  <2>2. ByAdder(o) => ByAdder(o)'
    BY <1>1 DEF ByAdder, Grows
  <2>. QED  BY <1>7, <2>1, <2>2
<1>8. Starter(links', out) \/ ByAdder(out)'
  BY DEF Grows
<1>9. ASSUME NEW x \in In(links), Late(x) PROVE Late(x)'
  BY <1>1, <1>7, <1>8, <1>9 DEF Late
<1>10. Late(in)'
  BY <1>1, <1>8 DEF Late
<1>11. Acquainted'
  <2>. SUFFICES ASSUME NEW x \in In(links'), state'[At(links', x)] = "up",
                       state'[At(links', Other(x))] \notin {"closing", "gone"}
                PROVE  Known(x)' \/ Late(x)'
    BY DEF Acquainted, Ending
  <2>1. CASE x \in In(links)
    BY <1>1, <1>9, <2>1 DEF Grows, Sparing, Acquainted
  <2>2. CASE x \in {out, in}
    BY <1>10, <2>2 DEF Grows
  <2>. QED  BY <1>1, <2>1, <2>2
<1>. QED  BY <1>2, <1>4, <1>6, <1>11 DEF Sparing

\* A server joins: it has no connection yet, and nobody is told its name.
LEMMA StartSparing ==
    ASSUME TypeInv, Standing, Sparing, NEW n \in Node, NEW m \in Joins[n], Start(n, m)
    PROVE  Sparing'
<1>1. PICK out \in End : Started(n, m, out)
  BY StartEffect
<1>. DEFINE in == Other(out)
<1>2. Types /\ Ground /\ m \in Node /\ n # m /\ links' = Append(links, <<n, m>>)
      /\ Longer(links, links', n, m, out)
  BY <1>1, GroundHolds DEF TypeInv, Started
<1>3. /\ out[2] = "out" /\ in[2] = "in" /\ out[1] \in Nat /\ in[1] = out[1]
      /\ Other(in) = out /\ In(links') = In(links) \cup {out, in} /\ in \in End /\ in # out
      /\ out \notin In(links) /\ in \notin In(links)
      /\ At(links', out) = n /\ At(links', in) = m
      /\ \A x \in In(links) : /\ x \in End /\ x[1] \in Nat /\ x[1] < out[1]
                              /\ Other(x) \in In(links)
                              /\ x # out /\ x # in
                              /\ At(links', x) = At(links, x)
                              /\ At(links', Other(x)) = At(links, Other(x))
  BY <1>2, NewestLink DEF Longer
\* It had no connection.
<1>4. ASSUME NEW x \in In(links)
      PROVE  At(links, x) # n /\ At(links, Other(x)) # n /\ At(links, x) \in Node /\ At(links, Other(x)) \in Node
  BY <1>1, <1>2 DEF Started, Standing, Owned, Ground
<1>5. \A i : ~Meets(links, n, i) /\ ~Meets(links, i, n)
  BY <1>4 DEF Meets
<1>6. /\ state' = [state EXCEPT ![n] = "up"] /\ peers' = [peers EXCEPT ![n] = {out}]
      /\ thread' = [thread EXCEPT ![out] = "reads", ![in] = "backlog"]
      /\ name' = [name EXCEPT ![out] = m]
      /\ chan' = [chan EXCEPT ![in] = <<Msg("CONNECT", {n})>>]
      /\ todo' = todo /\ now' = now
      /\ thread[out] = "none" /\ thread[in] = "none" /\ chan[out] = <<>>
  BY <1>1, <1>3 DEF Started, TypeInv, Unmade
<1>7. /\ thread'[out] = "reads" /\ thread'[in] = "backlog" /\ chan'[out] = <<>> /\ name'[out] = m
      /\ chan'[in] = <<Msg("CONNECT", {n})>> /\ peers'[n] = {out}
      /\ \A x \in End : x # out /\ x # in =>
             thread'[x] = thread[x] /\ chan'[x] = chan[x] /\ name'[x] = name[x]
      /\ \A k \in Node : k # n => state'[k] = state[k] /\ peers'[k] = peers[k]
  BY <1>2, <1>3, <1>6 DEF Types
<1>. HIDE DEF in
<1>8. ~AddWork(out)' /\ ~AddWork(in)'
  BY <1>7, NoOffers DEF AddWork, AddThreads
<1>9. Known(out)'
  BY <1>3, <1>7 DEF Known, in
<1>10. Starter(links', out)
  BY <1>3, <1>4 DEF Starter
<1>11. ASSUME NEW x \in In(links)
       PROVE  /\ AddWork(x)' => AddWork(x)
              /\ \A k \in Node : Wanted(x, k)' => Wanted(x, k)
              /\ thread'[x] = thread[x]
              /\ Known(x) => Known(x)'
  <2>1. thread'[x] = thread[x] /\ chan'[x] = chan[x] /\ name'[x] = name[x]
        /\ peers'[At(links, x)] = peers[At(links, x)]
    BY <1>3, <1>4, <1>7
  <2>2. ASSUME NEW y \in End, thread[y] = "pushes" PROVE thread'[y] = "pushes"
    BY <1>6, <1>7, <2>2
  <2>3. Pushed(x) => Pushed(x)'
    BY <1>6, <2>2 DEF Pushed
  <2>4. Known(x) => Known(x)'
    BY <1>3, <2>1, <2>3 DEF Known
  <2>. QED  BY <1>6, <2>1, <2>4 DEF AddWork, Wanted
<1>12. Grows(n, m, out)
  BY <1>2, <1>4, <1>5, <1>7, <1>8, <1>9, <1>10, <1>11 DEF Grows, Ending, in
<1>13. Unlinked'
  <2>. SUFFICES ASSUME NEW x \in In(links'), thread'[x] = "connects", now'[x] \in Node
                PROVE  ~Meets(links', At(links', x), now'[x])
    BY DEF Unlinked
  <2>1. x \in In(links) /\ thread[x] = "connects" /\ now'[x] = now[x]
    BY <1>3, <1>6, <1>7
  <2>2. ~Meets(links, At(links, x), now[x]) /\ now[x] \in Node
    BY <1>6, <2>1 DEF Sparing, Unlinked
  <2>3. Wanted(x, now[x])
    BY <2>1 DEF Wanted
  <2>4. Meets(links, At(links, Other(x)), now[x])
    BY <2>1, <2>2, <2>3 DEF Sparing, NewNames
  <2>5. now[x] # n /\ At(links, x) # n
    BY <1>4, <1>5, <2>1, <2>4
  <2>. QED  BY <1>2, <1>3, <2>1, <2>2, <2>5, LongerMeets
<1>. QED  BY <1>2, <1>12, <1>13, GrowsKeeps

\* add_neighbors makes a connection to whom it has none.
LEMMA AnswerSparing ==
    ASSUME TypeInv, Sparing, NEW e \in Ends, NeighborAnswers(e)
    PROVE  Sparing'
<1>1. PICK out \in End : Answered(e, out)
  BY AnswerEffect
<1>. DEFINE in == Other(out)
            n == At(links, e)
            m == now[e]
<1>2. Types /\ Ground /\ e \in In(links) /\ e \in End /\ Owner(e) = n /\ n \in Node /\ m \in Node
  BY <1>1, GroundHolds, OwnerFacts DEF TypeInv, Answered
<1>3. thread[e] = "connects" /\ Wanted(e, m)
  BY <1>1 DEF Answered, Wanted
<1>4. m # n /\ m # At(links, Other(e)) /\ ~Meets(links, n, m)
  BY <1>2, <1>3 DEF Sparing, NewNames, Unlinked
<1>5. links' = Append(links, <<n, m>>) /\ Longer(links, links', n, m, out)
  BY <1>1, <1>2 DEF Answered
<1>6. /\ out[2] = "out" /\ in[2] = "in" /\ out[1] \in Nat /\ in[1] = out[1]
      /\ Other(in) = out /\ In(links') = In(links) \cup {out, in} /\ in \in End /\ in # out
      /\ out \notin In(links) /\ in \notin In(links)
      /\ At(links', out) = n /\ At(links', in) = m
      /\ \A x \in In(links) : /\ x \in End /\ x[1] \in Nat /\ x[1] < out[1]
                              /\ Other(x) \in In(links)
                              /\ x # out /\ x # in
                              /\ At(links', x) = At(links, x)
                              /\ At(links', Other(x)) = At(links, Other(x))
  BY <1>2, <1>4, <1>5, NewestLink DEF Longer
<1>7. /\ state' = state /\ peers' = peers
      /\ thread' = [thread EXCEPT ![e] = "pushes", ![in] = "backlog"]
      /\ name' = [name EXCEPT ![out] = m]
      /\ chan' = [chan EXCEPT ![in] = <<Msg("CONNECT", {n})>>]
      /\ todo' = todo /\ now' = [now EXCEPT ![e] = out]
      /\ thread[out] = "none" /\ thread[in] = "none" /\ chan[out] = <<>>
  BY <1>1, <1>2, <1>6 DEF Answered, TypeInv, Unmade
<1>8. /\ thread'[out] = "none" /\ thread'[in] = "backlog" /\ chan'[out] = <<>> /\ name'[out] = m
      /\ chan'[in] = <<Msg("CONNECT", {n})>> /\ thread'[e] = "pushes" /\ now'[e] = out
      /\ \A x \in End : x # out /\ x # in => chan'[x] = chan[x] /\ name'[x] = name[x]
      /\ \A x \in End : x # e => now'[x] = now[x]
      /\ \A x \in End : x # e /\ x # in => thread'[x] = thread[x]
  BY <1>2, <1>6, <1>7 DEF Types
<1>. HIDE DEF in, n, m
<1>9. ~AddWork(out)' /\ ~AddWork(in)'
  BY <1>8, NoOffers DEF AddWork, AddThreads
<1>10. Known(out)'
  <2>1. Pushed(out)'
    BY <1>2, <1>8 DEF Pushed
  <2>. QED  BY <1>6, <1>8, <2>1 DEF Known, in
<1>11. ByAdder(out)'
  BY <1>2, <1>4, <1>6, <1>8 DEF ByAdder, AddThreads, in, n
<1>12. ASSUME NEW x \in In(links)
       PROVE  /\ AddWork(x)' => AddWork(x)
              /\ \A k \in Node : Wanted(x, k)' => Wanted(x, k)
              /\ thread[x] \in AddThreads => thread'[x] \in AddThreads
              /\ Known(x) => Known(x)'
  <2>1. /\ chan'[x] = chan[x] /\ name'[x] = name[x]
        /\ \/ thread'[x] = thread[x] /\ now'[x] = now[x]
           \/ thread[x] = "connects" /\ thread'[x] = "pushes"
    BY <1>3, <1>6, <1>8
  <2>2. ASSUME NEW y \in End, thread[y] = "pushes" PROVE thread'[y] = "pushes" /\ now'[y] = now[y]
    BY <1>3, <1>7, <1>8, <2>2
  <2>3. Pushed(x) => Pushed(x)'
    BY <2>2 DEF Pushed
  <2>4. Known(x) => Known(x)'
    BY <1>6, <1>7, <2>1, <2>3 DEF Known
  <2>. QED  BY <1>7, <2>1, <2>4 DEF AddWork, Wanted, AddThreads
<1>13. Grows(n, m, out)
  BY <1>4, <1>5, <1>7, <1>9, <1>10, <1>11, <1>12 DEF Grows, Ending, in
<1>14. Unlinked'
  <2>1. ASSUME NEW x \in In(links'), thread'[x] = "connects" PROVE FALSE
    <3>1. x \in In(links) /\ x # e /\ thread[x] = "connects"
      BY <1>6, <1>8, <2>1
    <3>. QED  BY <1>2, <1>3, <3>1 DEF Sparing, OneAdder, AddWork, AddThreads
  <2>. QED  BY <2>1 DEF Unlinked
<1>. QED  BY <1>2, <1>13, <1>14, GrowsKeeps

\* Nobody comes back.
LEMMA NobodyReturns ==
    ASSUME TypeInv, [Next]_vars, NEW n \in Node
    PROVE  /\ n \in Left => n \in Left' 
           /\ state[n] \in {"closing", "gone"} => state'[n] \in {"closing", "gone"}
<1>1. Types
  BY DEF TypeInv
<1>. DEFINE Change == \/ state' = state
                      \/ \E k \in Node : /\ state' = [state EXCEPT ![k] = "up"] /\ state[k] = "down"
                      \/ \E k \in Node : /\ state' = [state EXCEPT ![k] = "leaving"] /\ state[k] = "up"
                      \/ \E k \in Node : /\ \E s \in {"closing", "gone"} : state' = [state EXCEPT ![k] = s]
<1>2. Change
  <2>1. CASE UNCHANGED vars
    BY <2>1 DEF vars
  <2>2. ASSUME NEW e \in Ends, Accept(e) \/ Listener(e) \/ HearSearch(e) PROVE Change
    <3>1. CASE NeighborUnknown(e)
      BY <1>1, <3>1, OwnerFacts DEF NeighborUnknown, ProcessEnds
    <3>2. CASE ~NeighborUnknown(e)
      BY <2>2, <3>2 DEF Accept, Listener, HearSearch, HearConnect, HearDisconnect, HearAddNeighbors,
           KnownNeighbor, NewNeighbor, NeighborAnswers, NeighborRefuses, NeighborPushed
    <3>. QED  BY <3>1, <3>2
  <2>3. ASSUME NEW k \in Node, MonitorFrees(k) \/ MonitorJoins(k) PROVE Change
    BY <2>3 DEF MonitorFrees, MonitorJoins
  <2>4. ASSUME NEW k \in Node, Leave(k) PROVE Change
    <3>1. ASSUME NEW e \in peers[k], LeaveChoosing(k, e) \/ LeaveTelling(k, e) PROVE Change
      <4>1. PICK msg \in Message : Parted(k, e, msg)
        BY <3>1, PartEffect
      <4>. QED  BY <4>1 DEF Parted
    <3>2. CASE LeaveEnds(k)
      BY <3>2 DEF LeaveEnds, ProcessEnds
    <3>. QED  BY <2>4, <3>1, <3>2 DEF Leave
  <2>5. ASSUME NEW k \in Node, NEW m \in Joins[k], Start(k, m) \/ StartRefused(k, m) PROVE Change
    BY <2>5 DEF Start, StartRefused
  <2>6. ASSUME NEW k \in leavers, Terminate(k) PROVE Change
    BY <1>1, <2>6 DEF Terminate, Types
  <2>. QED  BY <2>1, <2>2, <2>3, <2>4, <2>5, <2>6 DEF Next, Threads, World
<1>. QED  BY <1>1, <1>2 DEF Left, Types

\* A name is set by connect_to_peer and by CONNECT.
LEMMA NamesTrueStep ==
    ASSUME TypeInv, Talk, NamesTrue, [Next]_vars
    PROVE  NamesTrue'
<1>1. Ground /\ Types
  BY GroundHolds DEF TypeInv
<1>2. CASE links' = links /\ name' = name
  BY <1>2 DEF NamesTrue
<1>3. ASSUME NEW n \in Node, NEW m \in Node, NEW out \in End, Longer(links, links', n, m, out),
             name' = [name EXCEPT ![out] = m]
      PROVE  NamesTrue'
  <2>. SUFFICES ASSUME NEW x \in End, name'[x] # NoName
                PROVE  x \in In(links') /\ name'[x] = At(links', Other(x))
    BY DEF NamesTrue
  <2>1. CASE x = out
    BY <1>1, <1>3, <2>1 DEF Longer, Types
  <2>2. CASE x # out
    <3>1. name'[x] = name[x] /\ x \in In(links) /\ name[x] = At(links, Other(x)) /\ Other(x) \in In(links)
      BY <1>1, <1>3, <2>2 DEF NamesTrue, Types, Ground
    <3>. QED  BY <1>3, <3>1 DEF Longer
  <2>. QED  BY <2>1, <2>2
<1>4. ASSUME NEW e \in Ends, Accept(e) \/ Listener(e) \/ HearSearch(e) PROVE NamesTrue'
  <2>1. /\ e \in In(links) /\ e \in End /\ Owner(e) \in Node
    BY <1>1, OwnerFacts
  <2>2. CASE NeighborAnswers(e)
    <3>1. PICK out \in End : Answered(e, out)
      BY <2>2, AnswerEffect
    <3>. QED  BY <1>3, <2>1, <3>1 DEF Answered
  <2>3. CASE HearConnect(e)
    <3>1. chan[e] # <<>> /\ chan[e] \in Seq(Message) /\ Head(chan[e]).type = "CONNECT"
      BY <1>1, <2>1, <2>3 DEF HearConnect, Hears, Types
    <3>2. NamesOnly(chan[e], At(links, Other(e)))
      BY <2>1 DEF Talk, Named
    <3>3. Head(chan[e]).names = {At(links, Other(e))}
      BY <3>1, <3>2, TailTalk
    <3>. QED  BY <1>1, <2>1, <2>3, <3>3 DEF HearConnect, NamesTrue, Types
  <2>4. CASE ~NeighborAnswers(e) /\ ~HearConnect(e)
    BY <1>2, <1>4, <2>4 DEF Accept, Listener, HearSearch, HearDisconnect, HearAddNeighbors,
       KnownNeighbor, NewNeighbor, NeighborRefuses, NeighborUnknown, NeighborPushed, ProcessEnds
  <2>. QED  BY <2>2, <2>3, <2>4
<1>5. ASSUME NEW n \in Node, NEW m \in Joins[n], Start(n, m) \/ StartRefused(n, m) PROVE NamesTrue'
  <2>1. CASE Start(n, m)
    <3>1. PICK out \in End : Started(n, m, out)
      BY <2>1, StartEffect
    <3>. QED  BY <1>3, <3>1 DEF Started
  <2>2. CASE StartRefused(n, m)
    BY <1>2, <2>2 DEF StartRefused
  <2>. QED  BY <1>5, <2>1, <2>2
<1>6. ASSUME NEW n \in Node, MonitorFrees(n) \/ MonitorJoins(n) \/ Leave(n) \/ Terminate(n) PROVE NamesTrue'
  BY <1>2, <1>6 DEF MonitorFrees, MonitorJoins, Leave, LeaveChoosing, LeaveTelling, LeaveEnds,
     Disconnect, ProcessEnds, Terminate
<1>7. CASE UNCHANGED vars
  BY <1>2, <1>7 DEF vars
<1>. QED  BY <1>1, <1>4, <1>5, <1>6, <1>7 DEF Next, Threads, World, Types

\* Only DISCONNECT_ADDNBRS, which is sent while leaving, starts add_neighbors.
LEMMA RunForLeaverStep ==
    ASSUME TypeInv, Talk, RunForLeaver, [Next]_vars
    PROVE  RunForLeaver'
<1>1. Ground /\ Types
  BY GroundHolds DEF TypeInv
<1>. DEFINE Change == \A x \in In(links') : thread'[x] \in AddThreads =>
                          /\ x \in In(links) /\ At(links', Other(x)) = At(links, Other(x))
                          /\ Ending(At(links, Other(x)))
<1>2. ASSUME links' = links, \A x \in In(links) : thread'[x] \in AddThreads => thread[x] \in AddThreads
      PROVE  Change
  BY <1>2 DEF RunForLeaver
<1>3. ASSUME NEW e \in Ends, Accept(e) \/ Listener(e) \/ HearSearch(e) PROVE Change
  <2>1. e \in In(links) /\ e \in End /\ Owner(e) = At(links, e) /\ Owner(e) \in Node
    BY <1>1, OwnerFacts
  <2>2. CASE NeighborAnswers(e)
    <3>1. PICK out \in End : Answered(e, out)
      BY <2>2, AnswerEffect
    <3>2. /\ Longer(links, links', Owner(e), now[e], out) /\ thread[out] = "none"
          /\ thread' = [thread EXCEPT ![e] = "pushes", ![Other(out)] = "backlog"]
          /\ thread[e] = "connects"
      BY <3>1 DEF Answered, Longer, TypeInv, Unmade
    <3>. SUFFICES ASSUME NEW x \in In(links'), thread'[x] \in AddThreads
                  PROVE  /\ x \in In(links) /\ At(links', Other(x)) = At(links, Other(x))
                         /\ Ending(At(links, Other(x)))
      OBVIOUS
    <3>3. x \in In(links) /\ thread[x] \in AddThreads
      <4>1. thread'[out] = "none" /\ thread'[Other(out)] = "backlog"
        BY <1>1, <2>1, <3>2 DEF Longer, Types
      <4>2. \A y \in In(links) : y # e => thread'[y] = thread[y]
        BY <1>1, <2>1, <3>2 DEF Longer, Types, Ground
      <4>. QED  BY <3>2, <4>1, <4>2 DEF Longer, AddThreads
    <3>. QED  BY <1>1, <3>2, <3>3 DEF Longer, Ground, RunForLeaver
  <2>3. CASE HearAddNeighbors(e)
    <3>1. chan[e] # <<>> /\ chan[e] \in Seq(Message) /\ Head(chan[e]).type = "ADDNBRS"
      BY <1>1, <2>1, <2>3 DEF HearAddNeighbors, Hears, Types
    <3>2. Ending(At(links, Other(e)))
      BY <2>1, <3>1, TailOffers DEF Talk, GoodbyeSent
    <3>3. links' = links /\ \A x \in In(links) : x # e => thread'[x] = thread[x]
      BY <1>1, <2>1, <2>3 DEF HearAddNeighbors, Types, Ground
    <3>. QED  BY <3>2, <3>3 DEF RunForLeaver
  <2>4. CASE NeighborUnknown(e)
    BY <1>2, <2>1, <2>4, <1>1 DEF NeighborUnknown, ProcessEnds, AddThreads, Ground
  <2>5. CASE NeighborPushed(e)
    BY <1>1, <1>2, <2>1, <2>5 DEF NeighborPushed, AddThreads, Ground, Types, TypeInv, Pushing
  <2>6. CASE Accept(e) \/ HearSearch(e) \/ HearConnect(e) \/ HearDisconnect(e) \/ NeighborRefuses(e)
    BY <1>1, <1>2, <2>1, <2>6 DEF Accept, HearSearch, HearConnect, Loops, HearDisconnect, NeighborRefuses,
       AddThreads, Ground, Types
  <2>7. ASSUME NEW m \in todo[e], KnownNeighbor(e, m) \/ NewNeighbor(e, m) PROVE Change
    BY <1>1, <1>2, <2>1, <2>7 DEF KnownNeighbor, NewNeighbor, AddThreads, Ground, Types
  <2>. QED  BY <1>3, <2>2, <2>3, <2>4, <2>5, <2>6, <2>7 DEF Listener
<1>4. ASSUME NEW n \in Node, NEW m \in Joins[n], Start(n, m) \/ StartRefused(n, m) PROVE Change
  <2>1. CASE Start(n, m)
    <3>1. PICK out \in End : Started(n, m, out)
      BY <2>1, StartEffect
    <3>2. Longer(links, links', n, m, out) /\ thread' = [thread EXCEPT ![out] = "reads", ![Other(out)] = "backlog"]
      BY <3>1 DEF Started
    <3>. SUFFICES ASSUME NEW x \in In(links'), thread'[x] \in AddThreads
                  PROVE  /\ x \in In(links) /\ At(links', Other(x)) = At(links, Other(x))
                         /\ Ending(At(links, Other(x)))
      OBVIOUS
    <3>3. x \in In(links) /\ thread[x] \in AddThreads
      <4>1. thread'[out] = "reads" /\ thread'[Other(out)] = "backlog"
        BY <1>1, <3>2 DEF Longer, Types
      <4>2. \A y \in In(links) : thread'[y] = thread[y]
        BY <1>1, <3>2 DEF Longer, Types, Ground
      <4>. QED  BY <3>2, <4>1, <4>2 DEF Longer, AddThreads
    <3>. QED  BY <1>1, <3>2, <3>3 DEF Longer, Ground, RunForLeaver
  <2>2. CASE StartRefused(n, m)
    BY <1>2, <2>2 DEF StartRefused
  <2>. QED  BY <1>4, <2>1, <2>2
<1>5. ASSUME NEW n \in Node, MonitorFrees(n) \/ MonitorJoins(n) PROVE Change
  BY <1>2, <1>5 DEF MonitorFrees, MonitorJoins
<1>6. ASSUME NEW n \in Node, Leave(n) PROVE Change
  <2>1. ASSUME NEW e \in peers[n], LeaveChoosing(n, e) \/ LeaveTelling(n, e) PROVE Change
    <3>1. PICK msg \in Message : Parted(n, e, msg)
      BY <2>1, PartEffect
    <3>. QED  BY <1>1, <1>2, <3>1 DEF Parted, AddThreads, Ground, Types
  <2>2. CASE LeaveEnds(n)
    BY <1>1, <1>2, <2>2 DEF LeaveEnds, ProcessEnds, AddThreads, Ground
  <2>. QED  BY <1>6, <2>1, <2>2 DEF Leave
<1>7. ASSUME NEW n \in Node, Terminate(n) PROVE Change
  BY <1>1, <1>2, <1>7 DEF Terminate, AddThreads, Ground
<1>8. ASSUME UNCHANGED vars PROVE Change
  BY <1>2, <1>8 DEF vars
<1>9. Change
  BY <1>1, <1>3, <1>4, <1>5, <1>6, <1>7, <1>8 DEF Next, Threads, World, Types
<1>10. \A x \in In(links) : Ending(At(links, Other(x))) => state'[At(links, Other(x))] \in {"closing", "gone"}
  BY <1>1, NobodyReturns DEF Ending, Ground
<1>. QED  BY <1>9, <1>10 DEF RunForLeaver, Ending

LEMMA SparenessInit == Init => Spareness
<1>. SUFFICES ASSUME Init PROVE Spareness
  OBVIOUS
<1>1. TypeInv /\ Ground /\ Types
  BY TypeInvInit, GroundHolds DEF TypeInv
<1>2. \A x \in End : /\ thread[x] \in {"reads", "none"} /\ chan[x] = <<>>
                     /\ name[x] = NoName \/ (x \in Ends /\ name[x] = Owner(Other(x)))
  BY DEF Init
<1>3. NamesTrue
  BY <1>1, <1>2, OwnerFacts DEF NamesTrue
<1>4. \A x \in In(links) : x \in End /\ ~AddWork(x) /\ \A m \in Node : ~Wanted(x, m)
  BY <1>1, <1>2, NoOffers DEF AddWork, Wanted, AddThreads, Ground
<1>5. RunForLeaver /\ OneAdder /\ NewNames /\ Unlinked
  BY <1>2, <1>4 DEF RunForLeaver, OneAdder, NewNames, Unlinked, AddThreads, AddWork
<1>6. Plain(links)
  <2>. SUFFICES ASSUME NEW x \in In(links), NEW y \in In(links), At(links, x) = At(links, y),
                       At(links, Other(x)) = At(links, Other(y))
                PROVE  x = y
    BY DEF Plain
  <2>1. /\ x \in End /\ x[1] \in 1..Len(links) /\ x[2] \in {"out", "in"} /\ x = <<x[1], x[2]>>
        /\ y \in End /\ y[1] \in 1..Len(links) /\ y[2] \in {"out", "in"} /\ y = <<y[1], y[2]>>
    BY <1>1, OverlayAssumption DEF In, End, Types
  <2>2. \A l \in 1..Len(links) :
            /\ links[l][1] # links[l][2]
            /\ \A k \in 1..l - 1 : {links[k][1], links[k][2]} # {links[l][1], links[l][2]}
    <3>1. PICK o \in Overlays : links = o.links
      BY DEF Init
    <3>2. \A l \in 1..Len(o.links) :
            /\ o.links[l][1] # o.links[l][2]
            /\ \A k \in 1..l - 1 : {o.links[k][1], o.links[k][2]} # {o.links[l][1], o.links[l][2]}
      BY StartAssumption
    <3>. QED  BY <3>1, <3>2
  <2>3. {links[x[1]][1], links[x[1]][2]} = {links[y[1]][1], links[y[1]][2]}
    <3>1. /\ {links[x[1]][1], links[x[1]][2]} = {At(links, x), At(links, Other(x))}
          /\ {links[y[1]][1], links[y[1]][2]} = {At(links, y), At(links, Other(y))}
      BY <2>1 DEF At, Other
    <3>. QED  BY <3>1
  <2>4. x[1] = y[1]
    <3>1. x[1] \in Int /\ y[1] \in Int /\ Len(links) \in Nat
      BY <1>1, <2>1 DEF Types
    <3>2. x[1] \in 1..y[1] - 1 \/ y[1] \in 1..x[1] - 1 \/ x[1] = y[1]
      BY <2>1, <3>1
    <3>. QED  BY <2>1, <2>2, <2>3, <3>2
  <2>5. At(links, x) # At(links, Other(x))
    BY <2>1, <2>2 DEF At, Other
  <2>6. y = x \/ y = Other(x)
    BY <2>1, <2>4, EndNumbers
  <2>. QED  BY <1>1, <2>5, <2>6 DEF Ground
<1>7. Acquainted
  <2>1. ASSUME NEW x \in In(links) PROVE Known(x)
    <3>1. x \in Ends /\ x \in End /\ At(links, x) \in Node
      BY <1>1 DEF Ground, In, Ends
    <3>2. x \in peers[At(links, x)]
      BY <1>1, <3>1, EndsOfFacts DEF Init
    <3>3. name[x] = At(links, Other(x))
      BY <1>1, <3>1, OwnerFacts DEF Init
    <3>. QED  BY <3>2, <3>3 DEF Known
  <2>. QED  BY <2>1 DEF Acquainted
<1>. QED  BY <1>3, <1>5, <1>6, <1>7 DEF Spareness, Sparing

LEMMA SparenessStep == TypeInv /\ Standing /\ Talk /\ Spareness /\ [Next]_vars => Spareness'
<1>. SUFFICES ASSUME TypeInv, Standing, Talk, Spareness, [Next]_vars PROVE Spareness'
  OBVIOUS
<1>1. Types /\ NamesTrue /\ RunForLeaver
  BY DEF TypeInv, Spareness
<1>2. NamesTrue' /\ RunForLeaver'
  BY <1>1, NamesTrueStep, RunForLeaverStep
<1>. SUFFICES ASSUME OneLeaves' PROVE Sparing'
  BY <1>2 DEF Spareness
<1>3. OneLeaves /\ Sparing
  <2>1. OneLeaves
    BY NobodyReturns DEF OneLeaves, Left
  <2>. QED  BY <2>1 DEF Spareness
<1>4. CASE UNCHANGED vars
  <2>1. Spares /\ Unlinked'
    BY <1>3, <1>4 DEF vars, Spares, SparesPeers, AddWork, Wanted, Known, Pushed, Ending, Sparing, Unlinked
  <2>. QED  BY <1>3, <2>1, SparesKeeps
<1>5. ASSUME NEW e \in Ends, Accept(e) \/ Listener(e) \/ HearSearch(e) PROVE Sparing'
  <2>1. CASE NeighborUnknown(e)
    <3>1. Owner(e) \in Node
      BY <1>1, OwnerFacts
    <3>. QED  BY <1>1, <1>3, <2>1, <3>1, ProcessEndsSparing DEF NeighborUnknown
  <2>2. CASE NeighborAnswers(e)
    BY <1>3, <2>2, AnswerSparing
  <2>. QED  BY <1>1, <1>3, <1>5, <2>1, <2>2, HearSparing, AddSparing DEF Listener
<1>6. ASSUME NEW n \in Node, MonitorFrees(n) \/ MonitorJoins(n) PROVE Sparing'
  BY <1>3, <1>6, MonitorSparing
<1>7. ASSUME NEW n \in Node, Leave(n) PROVE Sparing'
  <2>1. ASSUME NEW e \in peers[n], LeaveChoosing(n, e) \/ LeaveTelling(n, e) PROVE Sparing'
    <3>1. PICK msg \in Message : Parted(n, e, msg)
      BY <2>1, PartEffect
    <3>. QED  BY <1>1, <1>3, <3>1, PartSparing
  <2>2. CASE LeaveEnds(n)
    BY <1>1, <1>3, <2>2, ProcessEndsSparing DEF LeaveEnds
  <2>. QED  BY <1>7, <2>1, <2>2 DEF Leave
<1>8. ASSUME NEW n \in Node, NEW m \in Joins[n], Start(n, m) \/ StartRefused(n, m) PROVE Sparing'
  BY <1>3, <1>8, StartSparing, RefusedSparing
<1>9. ASSUME NEW n \in leavers, Terminate(n) PROVE Sparing'
  BY <1>1, <1>3, <1>9, TerminateSparing DEF Types
<1>. QED  BY <1>4, <1>5, <1>6, <1>7, <1>8, <1>9 DEF Next, Threads, World

LEMMA SparenessHolds == Spec => []Spareness
<1>1. Spec => []Talk
  BY TalkHolds
<1>. QED  BY <1>1, SparenessInit, SparenessStep, TypeInvHolds, StandingHolds, PTL DEF Spec

LEMMA PlainSpares ==
    ASSUME TypeInv, Plain(links), NEW l \in 1..Len(links)
    PROVE  /\ links[l][1] # links[l][2]
           /\ \A k \in 1..l - 1 : {links[k][1], links[k][2]} # {links[l][1], links[l][2]}
<1>1. Len(links) \in Nat /\ Len(links) <= MaxLinks /\ MaxLinks \in Nat
  BY OverlayAssumption DEF TypeInv, Types
<1>. DEFINE out(k) == <<k, "out">>
            in(k) == <<k, "in">>
<1>2. ASSUME NEW k \in 1..Len(links)
      PROVE  /\ out(k) \in In(links) /\ in(k) \in In(links)
             /\ Other(out(k)) = in(k) /\ Other(in(k)) = out(k)
             /\ At(links, out(k)) = links[k][1] /\ At(links, in(k)) = links[k][2]
  BY <1>1 DEF In, End, Other, At
<1>3. \A k \in 1..Len(links) : out(k) # in(l) /\ (out(k) = out(l) => k = l)
  OBVIOUS
<1>. HIDE DEF out, in
<1>4. links[l][1] # links[l][2]
  BY <1>2, TwoSides
<1>5. ASSUME NEW k \in 1..l - 1, {links[k][1], links[k][2]} = {links[l][1], links[l][2]} PROVE FALSE
  <2>1. k \in 1..Len(links) /\ k # l
    BY <1>1
  <2>2. CASE links[k][1] = links[l][1] /\ links[k][2] = links[l][2]
    <3>1. out(k) = out(l)
      BY <1>2, <2>1, <2>2 DEF Plain
    <3>. QED  BY <1>3, <2>1, <3>1
  <2>3. CASE links[k][1] = links[l][2] /\ links[k][2] = links[l][1]
    <3>1. out(k) = in(l)
      BY <1>2, <2>1, <2>3 DEF Plain
    <3>. QED  BY <1>3, <2>1, <3>1
  <2>. QED  BY <1>5, <2>2, <2>3
<1>. QED  BY <1>4, <1>5

\* As long as at most one peer leaves, whatever the overlay, whoever joins meanwhile
\* and however the messages and threads interleave, no two connections have the same
\* two ends and none has the same server at both: the check of connected() in
\* add_neighbors, made before the mutex is released, is enough then.
THEOREM OverlaySparesLinks == Spec => []NoSpareLinks
<1>1. TypeInv /\ Spareness => NoSpareLinks
  <2>. SUFFICES ASSUME TypeInv, Spareness, Cardinality(Left) <= 1, NEW l \in 1..Len(links)
                PROVE  /\ links[l][1] # links[l][2]
                       /\ \A k \in 1..l - 1 : {links[k][1], links[k][2]} # {links[l][1], links[l][2]}
    BY DEF NoSpareLinks
  <2>1. OneLeaves
    <3>. SUFFICES ASSUME NEW n \in Left, NEW m \in Left, n # m PROVE FALSE
      BY DEF OneLeaves
    <3>1. IsFiniteSet(Left) /\ {n, m} \subseteq Left
      BY OverlayAssumption, FS_Subset DEF Left
    <3>2. Cardinality({n, m}) <= Cardinality(Left) /\ Cardinality(Left) \in Nat
      BY <3>1, FS_Subset, FS_CardinalityType
    <3>3. Cardinality({n}) = 1 /\ IsFiniteSet({n})
      BY FS_Singleton
    <3>4. {n, m} = {n} \cup {m} /\ m \notin {n}
      OBVIOUS
    <3>5. Cardinality({n, m}) = 2
      BY <3>3, <3>4, FS_AddElement
    <3>. QED  BY <3>2, <3>5
  <2>. QED  BY <2>1, PlainSpares DEF Spareness, Sparing
<1>. QED  BY <1>1, TypeInvHolds, SparenessHolds, PTL

----------------------------------------------------------------------------
(* The servers that remain are connected.  Whoever is up or still reads what *)
(* it is sent stands for its connections; a server that tells its peers       *)
(* goodbye hands its place over to the one it tells the names of the others.  *)

\* DISCONNECT_ADDNBRS is the first goodbye on a connection.
NamesFirst(q) == \A i \in 1..Len(q) : q[i].type = "ADDNBRS" =>
    \A j \in 1..i - 1 : q[j].type = "CONNECT"

Ordered == \A e \in In(links) : NamesFirst(chan[e])
GoneSilent == \A e \in In(links) : state[At(links, e)] = "gone" => chan[e] = <<>>
ClosingLocked == \A n \in Node : state[n] = "closing" => joining[n] # NoEnd

Calm == Ordered /\ GoneSilent /\ ClosingLocked

LEMMA NewFirst ==
    ASSUME NEW n
    PROVE  NamesFirst(<<>>) /\ NamesFirst(<<Msg("CONNECT", n)>>)
<1>. DEFINE q == <<Msg("CONNECT", n)>>
<1>1. \A i \in 1..Len(q) : q[i].type = "CONNECT"
  BY DEF Msg
<1>. HIDE DEF q
<1>2. NamesFirst(q)
  BY <1>1 DEF NamesFirst
<1>3. NamesFirst(<<>>)
  BY DEF NamesFirst
<1>. QED  BY <1>2, <1>3 DEF q

LEMMA TailFirst ==
    ASSUME NEW q \in Seq(Message), q # <<>>, NamesFirst(q)
    PROVE  /\ NamesFirst(Tail(q))
           /\ Head(q).type # "CONNECT" => ~TellsNames(Tail(q))
<1>1. /\ Len(q) \in Nat /\ Len(q) > 0 /\ Len(Tail(q)) = Len(q) - 1 /\ Head(q) = q[1]
  OBVIOUS
<1>2. \A i \in 1..Len(Tail(q)) : Tail(q)[i] = q[i + 1] /\ i + 1 \in 1..Len(q)
  BY <1>1
<1>3. NamesFirst(Tail(q))
  <2>. SUFFICES ASSUME NEW i \in 1..Len(Tail(q)), Tail(q)[i].type = "ADDNBRS", NEW j \in 1..i - 1
                PROVE  Tail(q)[j].type = "CONNECT"
    BY DEF NamesFirst
  <2>1. /\ q[i + 1].type = "ADDNBRS" /\ i + 1 \in 1..Len(q) /\ j \in 1..Len(Tail(q))
        /\ j + 1 \in 1..(i + 1) - 1
    BY <1>1, <1>2
  <2>. QED  BY <1>2, <2>1 DEF NamesFirst
<1>4. ASSUME Head(q).type # "CONNECT", NEW i \in 1..Len(Tail(q)), Tail(q)[i].type = "ADDNBRS"
      PROVE  FALSE
  <2>1. q[i + 1].type = "ADDNBRS" /\ i + 1 \in 1..Len(q) /\ 1 \in 1..(i + 1) - 1
    BY <1>1, <1>2, <1>4
  <2>. QED  BY <1>1, <1>4, <2>1 DEF NamesFirst
<1>. QED  BY <1>3, <1>4 DEF TellsNames

LEMMA AppendFirst ==
    ASSUME NEW q \in Seq(Message), NEW msg \in Message, NamesFirst(q),
           msg.type = "ADDNBRS" => ~SaysGoodbye(q)
    PROVE  NamesFirst(Append(q, msg))
<1>. DEFINE r == Append(q, msg)
<1>1. /\ Len(r) = Len(q) + 1 /\ Len(q) \in Nat /\ r[Len(q) + 1] = msg
      /\ \A i \in 1..Len(q) : r[i] = q[i]
  OBVIOUS
<1>. HIDE DEF r
<1>2. \A i \in 1..Len(r) : /\ i \in 1..Len(q) \/ i = Len(q) + 1
                           /\ \A j \in 1..i - 1 : j \in 1..Len(q)
  BY <1>1
<1>3. NamesFirst(r)
  BY <1>1, <1>2 DEF NamesFirst, SaysGoodbye
<1>. QED  BY <1>3 DEF r

LEMMA CalmStep == TypeInv /\ Standing /\ Talk /\ Calm /\ [Next]_vars => Calm'
<1>. SUFFICES ASSUME TypeInv, Standing, Talk, Calm, [Next]_vars PROVE Calm'
  OBVIOUS
<1>1. Types /\ Ground /\ Unmade
  BY GroundHolds DEF TypeInv
<1>2. CASE /\ links' = links /\ chan' = chan
           /\ \A n \in Node : state[n] # "closing" => state'[n] # "closing"
           /\ \A n \in Node : state[n] = "closing" => joining'[n] = joining[n]
           /\ \A x \in In(links) : state[At(links, x)] # "gone" => state'[At(links, x)] # "gone"
  BY <1>1, <1>2 DEF Calm, Ordered, GoneSilent, ClosingLocked, Ground
<1>3. ASSUME NEW e \in Ends, Accept(e) \/ Listener(e) \/ HearSearch(e) PROVE Calm'
  <2>1. e \in In(links) /\ e \in End /\ Owner(e) = At(links, e) /\ Owner(e) \in Node
    BY <1>1, OwnerFacts
  <2>2. CASE HearConnect(e) \/ HearDisconnect(e) \/ HearAddNeighbors(e)
    <3>1. /\ chan' = [chan EXCEPT ![e] = Tail(@)] /\ chan[e] # <<>> /\ chan[e] \in Seq(Message)
          /\ links' = links /\ state' = state /\ joining' = joining
      BY <1>1, <2>1, <2>2 DEF HearConnect, HearDisconnect, HearAddNeighbors, Hears, Types
    <3>2. NamesFirst(Tail(chan[e])) /\ state[At(links, e)] # "gone"
      BY <2>1, <3>1, TailFirst DEF Calm, Ordered, GoneSilent
    <3>3. \A x \in In(links) : chan'[x] = IF x = e THEN Tail(chan[e]) ELSE chan[x]
      BY <1>1, <3>1 DEF Ground, Types
    <3>. QED  BY <3>1, <3>2, <3>3 DEF Calm, Ordered, GoneSilent, ClosingLocked
  <2>3. CASE NeighborAnswers(e)
    <3>1. PICK out \in End : Answered(e, out)
      BY <2>3, AnswerEffect
    <3>. DEFINE in == Other(out)
    <3>2. /\ out \in End /\ in \in End /\ in # out /\ out \notin In(links)
          /\ In(links') = In(links) \cup {out, in}
          /\ At(links', out) = Owner(e) /\ At(links', in) = now[e]
          /\ \A x \in In(links) : At(links', x) = At(links, x) /\ x # in /\ x # out /\ x \in End
      BY <1>1, <3>1 DEF Answered, Longer, Ground
    <3>3. /\ state' = state /\ joining' = joining /\ state[now[e]] = "up"
          /\ chan' = [chan EXCEPT ![in] = <<Msg("CONNECT", {Owner(e)})>>]
      BY <3>1 DEF Answered
    <3>. HIDE DEF in
    <3>4. /\ chan'[out] = <<>> /\ chan'[in] = <<Msg("CONNECT", {Owner(e)})>>
          /\ \A x \in In(links) : chan'[x] = chan[x]
      BY <1>1, <3>2, <3>3 DEF Types, Unmade
    <3>5. NamesFirst(chan'[out]) /\ NamesFirst(chan'[in])
      BY <3>4, NewFirst
    <3>. QED  BY <3>2, <3>3, <3>4, <3>5 DEF Calm, Ordered, GoneSilent, ClosingLocked
  <2>4. CASE NeighborUnknown(e)
    BY <1>1, <2>1, <2>4, NewFirst, EndsOfFacts DEF NeighborUnknown, ProcessEnds, Calm, Ordered, GoneSilent,
       ClosingLocked, Ground, Types
  <2>. QED  BY <1>2, <1>3, <2>2, <2>3, <2>4 DEF Listener, Accept, HearSearch, KnownNeighbor, NewNeighbor,
            NeighborRefuses, NeighborPushed
<1>4. ASSUME NEW n \in Node, MonitorFrees(n) \/ MonitorJoins(n) PROVE Calm'
  BY <1>1, <1>2, <1>4 DEF MonitorFrees, MonitorJoins, Types
<1>5. ASSUME NEW n \in Node, Leave(n) PROVE Calm'
  <2>1. ASSUME NEW e \in peers[n], LeaveChoosing(n, e) \/ LeaveTelling(n, e) PROVE Calm'
    <3>1. PICK msg \in Message : Parted(n, e, msg)
      BY <2>1, PartEffect
    <3>. DEFINE f == Other(e)
    <3>2. /\ e \in In(links) /\ e \in End /\ At(links, e) = n /\ f \in In(links) /\ f \in End
          /\ Other(f) = e /\ Owner(f) = At(links, f)
      BY <1>1 DEF Ground, Owner, At
    <3>3. /\ links' = links /\ state' = [state EXCEPT ![n] = "closing"]
          /\ joining' = [joining EXCEPT ![n] = e] /\ e # NoEnd
          /\ msg.type = "ADDNBRS" => state[n] = "leaving"
          /\ \/ chan' = chan
             \/ chan' = [chan EXCEPT ![f] = Append(@, msg)] /\ state[Owner(f)] # "gone"
      BY <3>1, <3>2, NoEndAssumption DEF Parted
    <3>. HIDE DEF f
    <3>4. msg.type = "ADDNBRS" => ~SaysGoodbye(chan[f])
      BY <3>2, <3>3 DEF Talk, GoodbyeSent, Ending
    <3>5. NamesFirst(Append(chan[f], msg))
      BY <1>1, <3>2, <3>4, AppendFirst DEF Types, Calm, Ordered
    <3>6. \A x \in In(links) : \/ chan'[x] = chan[x]
                               \/ x = f /\ chan'[x] = Append(chan[f], msg) /\ state[At(links, x)] # "gone"
      BY <1>1, <3>2, <3>3 DEF Types, Ground
    <3>7. \A x \in In(links) : state'[At(links, x)] = "gone" => state[At(links, x)] = "gone"
      BY <1>1, <3>3 DEF Types, Ground
    <3>8. ClosingLocked'
      BY <1>1, <3>3 DEF Calm, ClosingLocked, Types
    <3>. QED  BY <3>3, <3>5, <3>6, <3>7, <3>8 DEF Calm, Ordered, GoneSilent
  <2>2. CASE LeaveEnds(n)
    BY <1>1, <2>2, NewFirst, EndsOfFacts DEF LeaveEnds, ProcessEnds, Calm, Ordered, GoneSilent,
       ClosingLocked, Ground, Types
  <2>. QED  BY <1>5, <2>1, <2>2 DEF Leave
<1>6. ASSUME NEW n \in Node, NEW m \in Joins[n], Start(n, m) \/ StartRefused(n, m) PROVE Calm'
  <2>1. CASE Start(n, m)
    <3>1. PICK out \in End : Started(n, m, out)
      BY <2>1, StartEffect
    <3>. DEFINE in == Other(out)
    <3>2. /\ out \in End /\ in \in End /\ in # out /\ out \notin In(links)
          /\ In(links') = In(links) \cup {out, in}
          /\ At(links', out) = n /\ At(links', in) = m
          /\ \A x \in In(links) : At(links', x) = At(links, x) /\ x # in /\ x # out /\ x \in End
      BY <1>1, <3>1 DEF Started, Longer, Ground
    <3>3. /\ state' = [state EXCEPT ![n] = "up"] /\ joining' = joining /\ state[m] = "up" /\ m \in Node
          /\ chan' = [chan EXCEPT ![in] = <<Msg("CONNECT", {n})>>]
      BY <3>1 DEF Started
    <3>. HIDE DEF in
    <3>4. /\ chan'[out] = <<>> /\ chan'[in] = <<Msg("CONNECT", {n})>>
          /\ \A x \in In(links) : chan'[x] = chan[x]
      BY <1>1, <3>2, <3>3 DEF Types, Unmade
    <3>5. NamesFirst(chan'[out]) /\ NamesFirst(chan'[in])
      BY <3>4, NewFirst
    <3>6. \A k \in Node : state'[k] = IF k = n THEN "up" ELSE state[k]
      BY <1>1, <3>3 DEF Types
    <3>7. \A x \in In(links) : At(links, x) \in Node
      BY <1>1 DEF Ground
    <3>. QED  BY <3>2, <3>3, <3>4, <3>5, <3>6, <3>7 DEF Calm, Ordered, GoneSilent, ClosingLocked
  <2>2. CASE StartRefused(n, m)
    <3>1. \A x \in In(links) : At(links, x) # n
      BY <2>2 DEF StartRefused, Standing, Owned
    <3>. QED  BY <1>1, <1>2, <2>2, <3>1 DEF StartRefused, Types, Ground
  <2>. QED  BY <1>6, <2>1, <2>2
<1>7. ASSUME NEW n \in leavers, Terminate(n) PROVE Calm'
  BY <1>1, <1>2, <1>7 DEF Terminate, Types, Ground
<1>8. CASE UNCHANGED vars
  BY <1>2, <1>8 DEF vars
<1>. QED  BY <1>3, <1>4, <1>5, <1>6, <1>7, <1>8 DEF Next, Threads, World

LEMMA CalmInit == Init => Calm
<1>. SUFFICES ASSUME Init PROVE Calm
  OBVIOUS
<1>1. Ground /\ Types
  BY TypeInvInit, GroundHolds DEF TypeInv
<1>. QED  BY <1>1, NewFirst DEF Init, Calm, Ordered, GoneSilent, ClosingLocked, Ground

LEMMA CalmHolds == Spec => []Calm
BY CalmInit, CalmStep, TypeInvHolds, StandingHolds, TalkHolds, PTL DEF Spec

\* History only grows; a connection is made by Start and by NeighborAnswers.
LEMMA CleanStays ==
    ASSUME TypeInv, [Next]_vars, Clean'
    PROVE  Clean
<1>1. ASSUME NEW n \in Node, NEW event, ProcessEnds(n, event) PROVE events \subseteq events'
  BY <1>1 DEF ProcessEnds
<1>2. events \subseteq events'
  BY <1>1, OwnerFacts DEF Next, Threads, World, Listener, Leave, Accept, HearSearch, HearConnect, HearDisconnect,
     HearAddNeighbors, KnownNeighbor, NewNeighbor, NeighborAnswers, NeighborRefuses, NeighborUnknown,
     NeighborPushed, MonitorFrees, MonitorJoins, LeaveChoosing, LeaveTelling, LeaveEnds, Disconnect,
     Start, StartRefused, Terminate, vars, TypeInv
<1>. QED  BY <1>2 DEF Clean

LEMMA Growth ==
    ASSUME TypeInv, [Next]_vars
    PROVE  \/ links' = links
           \/ \E n \in Node, m \in Node, out \in End : Started(n, m, out)
           \/ \E e \in Ends, out \in End : Answered(e, out)
<1>1. ASSUME NEW n \in Node, NEW m \in Joins[n], Start(n, m)
      PROVE  \E k \in Node, out \in End : Started(n, k, out)
  <2>1. PICK out \in End : Started(n, m, out)
    BY <1>1, StartEffect
  <2>. QED  BY <2>1 DEF Started
<1>2. ASSUME NEW e \in Ends, NeighborAnswers(e) PROVE \E out \in End : Answered(e, out)
  BY <1>2, AnswerEffect
<1>. QED  BY <1>1, <1>2 DEF Next, Threads, World, Listener, Leave, Accept, HearSearch, HearConnect, HearDisconnect,
     HearAddNeighbors, KnownNeighbor, NewNeighbor, NeighborRefuses, NeighborUnknown,
     NeighborPushed, MonitorFrees, MonitorJoins, LeaveChoosing, LeaveTelling, LeaveEnds, Disconnect,
     ProcessEnds, StartRefused, Terminate, vars

Alive == {n \in Node : state[n] \in {"up", "leaving"}}

\* A server lists a connection, or is about to.
HasEnd(e) == e \in peers[At(links, e)] \/ thread[e] = "backlog" \/ Pushed(e)

Has == Clean => \A e \in In(links) :
    At(links, e) \in Alive /\ At(links, Other(e)) \in Alive => HasEnd(e)

LEMMA HasEndStays ==
    ASSUME TypeInv, NEW x \in In(links), HasEnd(x), links' = links,
           x \in peers[At(links, x)] => x \in peers'[At(links, x)],
           thread[x] = "backlog" => thread'[x] = "backlog" \/ x \in peers'[At(links, x)],
           Pushed(x) => Pushed(x)' \/ x \in peers'[At(links, x)]
    PROVE  HasEnd(x)'
BY DEF HasEnd

LEMMA HasKept ==
    ASSUME TypeInv, Standing, Talk, [Next]_vars, Clean', NEW x \in In(links), HasEnd(x),
           At(links, x) \in Alive', At(links, Other(x)) \in Alive', links' = links
    PROVE  HasEnd(x)'
<1>1. Types /\ Ground /\ Unmade
  BY GroundHolds DEF TypeInv
<1>2. /\ x \in End /\ At(links, x) \in Node /\ At(links, Other(x)) \in Node
      /\ state'[At(links, x)] \in {"up", "leaving"} /\ state'[At(links, Other(x))] \in {"up", "leaving"}
  BY <1>1 DEF Ground, Alive
<1>3. ASSUME NEW y \in End, thread[y] = "pushes", now[y] = x
      PROVE  y \in In(links) /\ At(links, y) = At(links, x) /\ x # y
  BY <1>1, <1>3 DEF TypeInv, Pushing, Unmade
<1>4. CASE peers' = peers /\ thread' = thread /\ now' = now
  BY <1>4, HasEndStays DEF Pushed
<1>5. ASSUME NEW e \in Ends, Accept(e) \/ Listener(e) \/ HearSearch(e) PROVE HasEnd(x)'
  <2>1. e \in In(links) /\ e \in End /\ Owner(e) = At(links, e) /\ Owner(e) \in Node
    BY <1>1, OwnerFacts
  <2>2. CASE \/ Accept(e) \/ HearConnect(e) \/ HearDisconnect(e) \/ HearAddNeighbors(e) \/ HearSearch(e)
    <3>1. now' = now /\ thread[e] \in {"reads", "backlog"}
      BY <2>2 DEF Accept, HearConnect, HearDisconnect, HearAddNeighbors, Hears, HearSearch
    <3>2. \A y \in End : y # e => thread'[y] = thread[y]
      <4>1. \E does : thread' = [thread EXCEPT ![e] = does]
        BY <2>2 DEF Accept, HearConnect, HearDisconnect, HearAddNeighbors, Loops, HearSearch
      <4>. QED  BY <1>1, <4>1 DEF Types
    <3>3. thread[e] = "backlog" => e \in peers'[At(links, e)]
      BY <1>1, <2>1, <2>2 DEF Accept, HearConnect, HearDisconnect, HearAddNeighbors, Hears, HearSearch, Types
    <3>4. peers' = peers \/ peers' = [peers EXCEPT ![Owner(e)] = @ \cup {e}]
      BY <2>2 DEF HearConnect, HearDisconnect, HearAddNeighbors, HearSearch, Accept
    <3>5. x \in peers[At(links, x)] => x \in peers'[At(links, x)]
      <4>1. CASE peers' = [peers EXCEPT ![Owner(e)] = @ \cup {e}]
        BY <1>1, <1>2, <2>1, <4>1 DEF Types
      <4>. QED  BY <3>4, <4>1
    <3>6. Pushed(x) => Pushed(x)'
      BY <3>1, <3>2 DEF Pushed
    <3>. QED  BY <1>2, <3>2, <3>3, <3>5, <3>6, HasEndStays
  <2>3. CASE \E m \in todo[e] : KnownNeighbor(e, m) \/ NewNeighbor(e, m)
    <3>1. /\ peers' = peers /\ thread[e] = "adds" /\ \A y \in End : y # e => thread'[y] = thread[y]
          /\ \A y \in End : y # e => now'[y] = now[y]
      BY <1>1, <2>3 DEF KnownNeighbor, NewNeighbor, Types
    <3>2. Pushed(x) => Pushed(x)'
      BY <3>1 DEF Pushed
    <3>. QED  BY <1>2, <3>1, <3>2, HasEndStays
  <2>4. CASE NeighborRefuses(e) \/ NeighborUnknown(e)
    BY <2>4 DEF NeighborRefuses, NeighborUnknown, ProcessEnds, Clean
  <2>5. CASE NeighborPushed(e)
    <3>1. /\ peers' = [peers EXCEPT ![Owner(e)] = @ \cup {now[e]}] /\ thread[e] = "pushes"
          /\ \A y \in End : y # e /\ y # now[e] => thread'[y] = thread[y]
          /\ \A y \in End : y # e => now'[y] = now[y]
          /\ now[e] \in End /\ At(links, now[e]) = Owner(e) /\ thread[now[e]] = "none"
      <4>1. /\ peers' = [peers EXCEPT ![Owner(e)] = @ \cup {now[e]}] /\ thread[e] = "pushes"
            /\ now' = [now EXCEPT ![e] = NoName]
            /\ \E does : thread' = [thread EXCEPT ![e] = "adds", ![now[e]] = does]
        BY <2>5 DEF NeighborPushed
      <4>2. now[e] \in In(links) /\ At(links, now[e]) = At(links, e) /\ thread[now[e]] = "none"
        BY <2>1, <4>1 DEF TypeInv, Pushing
      <4>. QED  BY <1>1, <2>1, <4>1, <4>2 DEF Types, Ground
    <3>2. x \in peers[At(links, x)] => x \in peers'[At(links, x)]
      BY <1>1, <1>2, <3>1 DEF Types
    <3>3. x = now[e] => x \in peers'[At(links, x)]
      BY <1>1, <1>2, <3>1 DEF Types
    <3>4. Pushed(x) => Pushed(x)' \/ x = now[e]
      BY <3>1 DEF Pushed
    <3>. QED  BY <1>2, <3>1, <3>2, <3>3, <3>4, HasEndStays
  <2>6. CASE NeighborAnswers(e)
    <3>1. links' # links
      <4>1. PICK out \in End : Answered(e, out)
        BY <2>6, AnswerEffect
      <4>. QED  BY <1>1, <4>1 DEF Answered, Longer, Types
    <3>. QED  BY <3>1
  <2>. QED  BY <1>5, <2>2, <2>3, <2>4, <2>5, <2>6 DEF Listener
<1>6. ASSUME NEW n \in Node, MonitorFrees(n) \/ MonitorJoins(n) PROVE HasEnd(x)'
  <2>1. CASE MonitorJoins(n)
    BY <1>4, <2>1 DEF MonitorJoins
  <2>2. CASE MonitorFrees(n)
    <3>1. /\ peers' = [peers EXCEPT ![n] = @ \ Disconnected(n)] /\ thread' = thread /\ now' = now /\ state' = state
      BY <2>2 DEF MonitorFrees
    <3>2. x \in peers[At(links, x)] => connected[x]
      BY <1>2, <3>1 DEF Talk, GoodbyeSent, Ending
    <3>3. x \in peers[At(links, x)] => x \in peers'[At(links, x)]
      BY <1>1, <1>2, <3>1, <3>2 DEF Types, Disconnected
    <3>. QED  BY <3>1, <3>3, HasEndStays DEF Pushed
  <2>. QED  BY <1>6, <2>1, <2>2
<1>7. ASSUME NEW n \in Node, Leave(n) PROVE HasEnd(x)'
  <2>1. ASSUME NEW e \in peers[n], LeaveChoosing(n, e) \/ LeaveTelling(n, e) PROVE HasEnd(x)'
    <3>1. PICK msg \in Message : Parted(n, e, msg)
      BY <2>1, PartEffect
    <3>2. /\ state' = [state EXCEPT ![n] = "closing"] /\ now' = now /\ e \in End
          /\ thread' = [thread EXCEPT ![e] = IF @ = "reads" THEN "ended" ELSE @]
          /\ peers' = [peers EXCEPT ![n] = @ \ {e}]
      BY <1>1, <3>1 DEF Parted, Ground
    <3>3. At(links, x) # n
      BY <1>1, <1>2, <3>2 DEF Types
    <3>4. /\ peers'[At(links, x)] = peers[At(links, x)]
          /\ \A y \in End : thread[y] # "reads" => thread'[y] = thread[y]
      BY <1>1, <1>2, <3>2, <3>3 DEF Types
    <3>5. Pushed(x) => Pushed(x)'
      BY <3>2, <3>4 DEF Pushed
    <3>. QED  BY <1>2, <3>4, <3>5, HasEndStays
  <2>2. CASE LeaveEnds(n)
    <3>1. /\ state' = [state EXCEPT ![n] = "gone"] /\ peers' = [peers EXCEPT ![n] = {}]
          /\ thread' = [e \in End |-> IF e \in EndsOf(n) THEN "ended" ELSE thread[e]]
          /\ now' = [e \in End |-> IF e \in EndsOf(n) THEN NoName ELSE now[e]]
      BY <2>2 DEF LeaveEnds, ProcessEnds
    <3>2. At(links, x) # n
      BY <1>1, <1>2, <3>1 DEF Types
    <3>3. \A y \in End : y \in In(links) /\ At(links, y) = At(links, x) => thread'[y] = thread[y] /\ now'[y] = now[y]
      BY <1>1, <3>1, <3>2, EndsOfFacts
    <3>4. Pushed(x) => Pushed(x)'
      BY <1>3, <3>3 DEF Pushed
    <3>5. peers'[At(links, x)] = peers[At(links, x)]
      BY <1>1, <1>2, <3>1, <3>2 DEF Types
    <3>. QED  BY <1>2, <3>3, <3>4, <3>5, HasEndStays
  <2>. QED  BY <1>7, <2>1, <2>2 DEF Leave
<1>8. ASSUME NEW n \in Node, NEW m \in Joins[n], Start(n, m) \/ StartRefused(n, m) PROVE HasEnd(x)'
  <2>1. CASE StartRefused(n, m)
    BY <1>4, <2>1 DEF StartRefused
  <2>2. CASE Start(n, m)
    <3>1. PICK out \in End : Started(n, m, out)
      BY <2>2, StartEffect
    <3>. QED  BY <1>1, <3>1 DEF Started, Longer, Types
  <2>. QED  BY <1>8, <2>1, <2>2
<1>9. ASSUME NEW n \in leavers, Terminate(n) PROVE HasEnd(x)'
  <2>1. PICK reset \in SUBSET Backlog(n) :
           /\ thread' = [e \in End |-> IF e \in reset THEN "none" ELSE thread[e]]
           /\ events' = events \cup {"reset" : e \in reset}
    BY <1>9 DEF Terminate
  <2>2. reset = {}
    BY <2>1 DEF Clean
  <2>3. \A y \in End : thread'[y] = thread[y]
    BY <2>1, <2>2
  <2>4. peers' = peers /\ now' = now
    BY <1>9 DEF Terminate
  <2>. QED  BY <1>2, <2>3, <2>4, HasEndStays DEF Pushed
<1>10. CASE UNCHANGED vars
  BY <1>4, <1>10 DEF vars
<1>. QED  BY <1>5, <1>6, <1>7, <1>8, <1>9, <1>10 DEF Next, Threads, World

\* Start and NeighborAnswers: what is there stays, and both new ends are had.
LEMMA HasNew ==
    ASSUME TypeInv, NEW n \in Node, NEW m \in Node, NEW out \in End, Longer(links, links', n, m, out),
           \/ Started(n, m, out)
           \/ \E e \in Ends : Answered(e, out) /\ n = Owner(e) /\ m = now[e]
    PROVE  /\ HasEnd(out)' /\ HasEnd(Other(out))'
           /\ \A x \in In(links) : At(links, x) # n \/ state' = state => (HasEnd(x) => HasEnd(x)')
<1>1. Types /\ Ground /\ Unmade
  BY GroundHolds DEF TypeInv
<1>. DEFINE in == Other(out)
<1>2. /\ in \in End /\ in # out /\ out \notin In(links) /\ in \notin In(links)
      /\ In(links') = In(links) \cup {out, in} /\ At(links', out) = n
      /\ \A x \in In(links) : At(links', x) = At(links, x) /\ x # in /\ x # out /\ x \in End
  BY <1>1 DEF Longer, Ground
<1>. HIDE DEF in
<1>3. CASE Started(n, m, out)
  <2>1. /\ peers' = [peers EXCEPT ![n] = {out}] /\ now' = now
        /\ thread' = [thread EXCEPT ![out] = "reads", ![in] = "backlog"]
    BY <1>3 DEF Started, in
  <2>2. /\ out \in peers'[n] /\ thread'[in] = "backlog"
        /\ \A k \in Node : k # n => peers'[k] = peers[k]
        /\ \A y \in End : y # out /\ y # in => thread'[y] = thread[y]
    BY <1>1, <1>2, <2>1 DEF Types
  <2>3. \A x \in In(links) : Pushed(x) => Pushed(x)'
    <3>1. \A y \in End : thread[y] = "pushes" => thread'[y] = "pushes"
      BY <1>1, <1>2, <2>2 DEF Unmade
    <3>. QED  BY <2>1, <3>1 DEF Pushed
  <2>4. ASSUME NEW x \in In(links), At(links, x) # n, HasEnd(x) PROVE HasEnd(x)'
    BY <1>1, <1>2, <2>2, <2>3, <2>4 DEF HasEnd, Ground
  <2>5. HasEnd(out)' /\ HasEnd(in)'
    BY <1>2, <2>2 DEF HasEnd
  <2>6. state' # state
    BY <1>1, <1>3 DEF Started, Types
  <2>. QED  BY <2>4, <2>5, <2>6 DEF in
<1>4. ASSUME NEW e \in Ends, Answered(e, out), n = Owner(e), m = now[e]
      PROVE  HasEnd(out)' /\ HasEnd(in)' /\ \A x \in In(links) : HasEnd(x) => HasEnd(x)'
  <2>1. e \in In(links) /\ e \in End
    BY <1>1, OwnerFacts
  <2>2. /\ peers' = peers /\ now' = [now EXCEPT ![e] = out] /\ thread[e] = "connects"
        /\ thread' = [thread EXCEPT ![e] = "pushes", ![in] = "backlog"]
    BY <1>4 DEF Answered, in
  <2>3. /\ thread'[in] = "backlog" /\ thread'[e] = "pushes" /\ now'[e] = out /\ e # in
        /\ \A y \in End : y # e /\ y # in => thread'[y] = thread[y] /\ now'[y] = now[y]
    BY <1>1, <1>2, <2>1, <2>2 DEF Types
  <2>4. \A x \in In(links) : Pushed(x) => Pushed(x)'
    <3>1. \A y \in End : thread[y] = "pushes" => thread'[y] = "pushes" /\ now'[y] = now[y]
      BY <1>1, <1>2, <2>2, <2>3 DEF Unmade
    <3>. QED  BY <3>1 DEF Pushed
  <2>5. ASSUME NEW x \in In(links), HasEnd(x) PROVE HasEnd(x)'
    BY <1>1, <1>2, <2>2, <2>3, <2>4, <2>5 DEF HasEnd, Ground
  <2>6. HasEnd(out)' /\ HasEnd(in)'
    BY <2>1, <2>3 DEF HasEnd, Pushed
  <2>. QED  BY <2>5, <2>6
<1>. QED  BY <1>3, <1>4 DEF in

LEMMA HasStep == TypeInv /\ Standing /\ Talk /\ Has /\ [Next]_vars => Has'
<1>. SUFFICES ASSUME TypeInv, Standing, Talk, Has, [Next]_vars, Clean', NEW x \in In(links'),
                     At(links', x) \in Alive', At(links', Other(x)) \in Alive'
              PROVE  HasEnd(x)'
  BY DEF Has
<1>1. Types /\ Ground /\ Clean
  BY GroundHolds, CleanStays DEF TypeInv
<1>2. ASSUME NEW n \in Node, n \in Alive', state[n] # "down" PROVE n \in Alive
  BY <1>1, <1>2, NobodyReturns DEF Alive, Types
<1>3. CASE links' = links
  <2>1. At(links, x) \in Alive /\ At(links, Other(x)) \in Alive
    BY <1>1, <1>2, <1>3 DEF Ground, Standing, Owned
  <2>. QED  BY <1>1, <1>3, <2>1, HasKept DEF Has
<1>4. ASSUME NEW n \in Node, NEW m \in Node, NEW out \in End, Longer(links, links', n, m, out),
             \/ Started(n, m, out)
             \/ \E e \in Ends : Answered(e, out) /\ n = Owner(e) /\ m = now[e]
      PROVE  HasEnd(x)'
  <2>1. CASE x \in {out, Other(out)}
    BY <1>4, <2>1, HasNew
  <2>2. CASE x \in In(links)
    <3>1. At(links', x) = At(links, x) /\ At(links', Other(x)) = At(links, Other(x)) /\ Other(x) \in In(links)
      BY <1>1, <1>4, <2>2 DEF Longer, Ground
    <3>2. At(links, x) \in Alive /\ At(links, Other(x)) \in Alive
      BY <1>1, <1>2, <2>2, <3>1 DEF Ground, Standing, Owned
    <3>3. HasEnd(x)
      BY <1>1, <2>2, <3>2 DEF Has
    <3>4. At(links, x) # n \/ state' = state
      BY <1>4, <2>2, <3>2 DEF Alive, Started, Answered
    <3>. QED  BY <1>4, <2>2, <3>3, <3>4, HasNew
  <2>. QED  BY <1>4, <2>1, <2>2 DEF Longer
<1>5. ASSUME NEW n \in Node, NEW m \in Node, NEW out \in End, Started(n, m, out) PROVE HasEnd(x)'
  BY <1>4, <1>5 DEF Started
<1>6. ASSUME NEW e \in Ends, NEW out \in End, Answered(e, out) PROVE HasEnd(x)'
  BY <1>1, <1>4, <1>6, OwnerFacts DEF Answered
<1>. QED  BY <1>3, <1>5, <1>6, Growth

\* Names that are sent to a server that is up will be read, unless something went wrong.
WillRead == Clean => \A e \in In(links) :
    state[At(links, e)] = "up" /\ TellsNames(chan[e])
        => thread[e] \in {"reads", "backlog"} \/ Pushed(e)

LEMMA WillReadStep == TypeInv /\ Standing /\ Talk /\ Calm /\ Has /\ WillRead /\ [Next]_vars => WillRead'
<1>. SUFFICES ASSUME TypeInv, Standing, Talk, Calm, Has, WillRead, [Next]_vars, Clean',
                     NEW x \in In(links'), state'[At(links', x)] = "up", TellsNames(chan'[x])
              PROVE  thread'[x] \in {"reads", "backlog"} \/ Pushed(x)'
  BY DEF WillRead
<1>. DEFINE Read == thread'[x] \in {"reads", "backlog"} \/ Pushed(x)'
<1>1. Types /\ Ground /\ Unmade /\ Clean
  BY GroundHolds, CleanStays DEF TypeInv
<1>2. ASSUME NEW y \in End, thread[y] = "pushes" PROVE y \in In(links) /\ At(links, now[y]) = At(links, y)
  BY <1>1, <1>2 DEF TypeInv, Pushing, Unmade
<1>3. ASSUME x \in In(links), state[At(links, x)] = "up", TellsNames(chan[x]),
             thread[x] \in {"reads", "backlog"} => Read, Pushed(x) => Read
      PROVE  Read
  BY <1>1, <1>3 DEF WillRead
<1>. HIDE DEF Read
<1>4. ASSUME links' = links, state' = state PROVE x \in In(links) /\ x \in End /\ state[At(links, x)] = "up"
  BY <1>1, <1>4 DEF Ground
<1>5. ASSUME links' = links, state' = state, chan' = chan, thread' = thread, now' = now PROVE Read
  BY <1>3, <1>4, <1>5 DEF Read, Pushed
<1>6. ASSUME NEW e \in Ends, Accept(e) \/ Listener(e) \/ HearSearch(e) PROVE Read
  <2>1. e \in In(links) /\ e \in End /\ Owner(e) = At(links, e) /\ Owner(e) \in Node
    BY <1>1, OwnerFacts
  <2>2. CASE \/ Accept(e) \/ HearConnect(e) \/ HearDisconnect(e) \/ HearAddNeighbors(e) \/ HearSearch(e)
    <3>1. now' = now /\ thread[e] \in {"reads", "backlog"} /\ links' = links /\ state' = state
      BY <2>2 DEF Accept, HearConnect, HearDisconnect, HearAddNeighbors, Hears, HearSearch
    <3>2. \A y \in End : y # e => thread'[y] = thread[y]
      <4>1. \E does : thread' = [thread EXCEPT ![e] = does]
        BY <2>2 DEF Accept, HearConnect, HearDisconnect, HearAddNeighbors, Loops, HearSearch
      <4>. QED  BY <1>1, <4>1 DEF Types
    <3>3. x \in In(links) /\ x \in End /\ state[At(links, x)] = "up"
      BY <1>4, <3>1
    <3>4. Pushed(x) => Pushed(x)'
      BY <3>1, <3>2 DEF Pushed
    <3>5. CASE x # e
      <4>1. chan'[x] = chan[x]
        BY <1>1, <2>2, <3>3, <3>5 DEF Accept, HearConnect, HearDisconnect, HearAddNeighbors, Hears,
           HearSearch, Types
      <4>. QED  BY <1>3, <3>2, <3>3, <3>4, <3>5, <4>1 DEF Read
    <3>6. CASE x = e
      <4>1. CASE Accept(e) \/ HearConnect(e)
        <5>1. thread'[e] = "reads"
          BY <1>1, <2>1, <3>3, <3>6, <4>1 DEF Accept, HearConnect, Loops, Types
        <5>. QED  BY <3>6, <5>1 DEF Read
      <4>2. CASE HearDisconnect(e) \/ HearAddNeighbors(e)
        <5>1. /\ chan[e] # <<>> /\ chan[e] \in Seq(Message) /\ Head(chan[e]).type # "CONNECT"
              /\ chan'[e] = Tail(chan[e])
          BY <1>1, <2>1, <4>2 DEF HearDisconnect, HearAddNeighbors, Hears, Types
        <5>2. ~TellsNames(Tail(chan[e]))
          BY <2>1, <5>1, TailFirst DEF Calm, Ordered
        <5>. QED  BY <3>6, <5>1, <5>2
      <4>3. CASE HearSearch(e)
        BY <2>1, <3>3, <3>6, <4>3 DEF HearSearch
      <4>. QED  BY <2>2, <4>1, <4>2, <4>3
    <3>. QED  BY <3>5, <3>6
  <2>3. CASE \E m \in todo[e] : KnownNeighbor(e, m) \/ NewNeighbor(e, m)
    <3>1. /\ links' = links /\ state' = state /\ chan' = chan
          /\ thread[e] = "adds" /\ \A y \in End : y # e => thread'[y] = thread[y]
          /\ \A y \in End : y # e => now'[y] = now[y]
      BY <1>1, <2>3 DEF KnownNeighbor, NewNeighbor, Types
    <3>2. Pushed(x) => Pushed(x)'
      BY <3>1 DEF Pushed
    <3>3. x \in In(links) /\ x \in End /\ state[At(links, x)] = "up"
      BY <1>4, <3>1
    <3>. QED  BY <1>3, <3>1, <3>2, <3>3 DEF Read
  <2>4. CASE NeighborRefuses(e) \/ NeighborUnknown(e)
    BY <2>4 DEF NeighborRefuses, NeighborUnknown, ProcessEnds, Clean
  <2>5. CASE NeighborPushed(e)
    <3>0. /\ state' = state /\ links' = links /\ chan' = chan /\ thread[e] = "pushes"
          /\ now' = [now EXCEPT ![e] = NoName]
          /\ thread' = [thread EXCEPT ![e] = "adds",
                                      ![now[e]] = IF state[Owner(e)] = "up" THEN "reads" ELSE "ended"]
      BY <2>5 DEF NeighborPushed
    <3>1. now[e] \in End /\ At(links, now[e]) = Owner(e) /\ thread[now[e]] = "none"
      BY <1>1, <2>1, <3>0 DEF TypeInv, Pushing, Ground
    <3>2. /\ \A y \in End : y # e /\ y # now[e] => thread'[y] = thread[y]
          /\ \A y \in End : y # e => now'[y] = now[y]
          /\ state[Owner(e)] = "up" => thread'[now[e]] = "reads"
      BY <1>1, <2>1, <3>0, <3>1 DEF Types
    <3>3. x \in In(links) /\ x \in End /\ state[At(links, x)] = "up"
      BY <1>4, <3>0
    <3>4. Pushed(x) => Pushed(x)' \/ x = now[e]
      BY <3>0, <3>1, <3>2 DEF Pushed
    <3>. QED  BY <1>3, <3>0, <3>1, <3>2, <3>3, <3>4 DEF Read
  <2>6. CASE NeighborAnswers(e)
    <3>1. PICK out \in End : Answered(e, out)
      BY <2>6, AnswerEffect
    <3>. DEFINE in == Other(out)
    <3>2. /\ out \in End /\ in \in End /\ in # out /\ out \notin In(links) /\ in \notin In(links)
          /\ In(links') = In(links) \cup {out, in}
          /\ \A y \in In(links) : At(links', y) = At(links, y) /\ y # in /\ y # out /\ y \in End
      BY <1>1, <3>1 DEF Answered, Longer, Ground
    <3>3. /\ state' = state /\ now' = [now EXCEPT ![e] = out] /\ thread[e] = "connects"
          /\ thread' = [thread EXCEPT ![e] = "pushes", ![in] = "backlog"]
          /\ chan' = [chan EXCEPT ![in] = <<Msg("CONNECT", {Owner(e)})>>]
      BY <3>1 DEF Answered
    <3>. HIDE DEF in
    <3>4. /\ chan'[out] = <<>> /\ chan'[in] = <<Msg("CONNECT", {Owner(e)})>>
          /\ \A y \in In(links) : chan'[y] = chan[y]
          /\ \A y \in End : y # e /\ y # in => thread'[y] = thread[y] /\ now'[y] = now[y]
      BY <1>1, <2>1, <3>2, <3>3 DEF Types, Unmade
    <3>5. x \in In(links)
      BY <3>2, <3>4, NoOffers
    <3>6. Pushed(x) => Pushed(x)'
      BY <1>2, <3>2, <3>3, <3>4 DEF Pushed
    <3>. QED  BY <1>3, <3>2, <3>3, <3>4, <3>5, <3>6 DEF Read
  <2>. QED  BY <1>6, <2>2, <2>3, <2>4, <2>5, <2>6 DEF Listener
<1>7. ASSUME NEW n \in Node, MonitorFrees(n) \/ MonitorJoins(n) PROVE Read
  BY <1>5, <1>7 DEF MonitorFrees, MonitorJoins
<1>8. ASSUME NEW n \in Node, Leave(n) PROVE Read
  <2>1. ASSUME NEW e \in peers[n], LeaveChoosing(n, e) \/ LeaveTelling(n, e) PROVE Read
    <3>1. PICK msg \in Message : Parted(n, e, msg)
      BY <2>1, PartEffect
    <3>. DEFINE f == Other(e)
    <3>2. /\ state' = [state EXCEPT ![n] = "closing"] /\ now' = now /\ links' = links
          /\ thread' = [thread EXCEPT ![e] = IF @ = "reads" THEN "ended" ELSE @]
          /\ msg.type = "ADDNBRS" => state[n] = "leaving"
          /\ chan' = chan \/ chan' = [chan EXCEPT ![f] = Append(@, msg)]
      BY <3>1 DEF Parted
    <3>3. /\ e \in In(links) /\ e \in End /\ At(links, e) = n /\ f \in In(links) /\ f \in End /\ Other(f) = e
          /\ x \in In(links) /\ x \in End /\ At(links, x) \in Node
      BY <1>1, <3>2 DEF Ground
    <3>. HIDE DEF f
    <3>4. At(links, x) # n /\ x # e /\ state[At(links, x)] = "up"
      BY <1>1, <3>2, <3>3 DEF Types
    <3>5. \A y \in End : y # e \/ thread[y] # "reads" => thread'[y] = thread[y]
      BY <1>1, <3>2, <3>3 DEF Types
    <3>6. Pushed(x) => Pushed(x)'
      BY <3>2, <3>5 DEF Pushed
    <3>7. CASE TellsNames(chan[x])
      BY <1>3, <3>3, <3>4, <3>5, <3>6, <3>7 DEF Read
    <3>8. CASE ~TellsNames(chan[x])
      <4>1. x = f /\ chan'[x] = Append(chan[f], msg)
        BY <1>1, <3>2, <3>3, <3>8 DEF Types
      <4>2. msg.type = "ADDNBRS"
        BY <1>1, <3>3, <3>8, <4>1, AppendOffers DEF Types
      <4>3. state[n] = "leaving" /\ HasEnd(x)
        BY <1>1, <3>2, <3>3, <3>4, <4>1, <4>2 DEF Has, Alive
      <4>4. x \in peers[At(links, x)] => thread[x] = "reads"
        BY <1>1, <3>3, <3>4, <4>1, <4>3 DEF Standing, ListenedTo, Talk, GoodbyeSent, Ending
      <4>. QED  BY <3>3, <3>4, <3>5, <3>6, <4>3, <4>4 DEF HasEnd, Read
    <3>. QED  BY <3>7, <3>8
  <2>2. CASE LeaveEnds(n)
    <3>1. /\ state' = [state EXCEPT ![n] = "gone"] /\ links' = links
          /\ thread' = [e \in End |-> IF e \in EndsOf(n) THEN "ended" ELSE thread[e]]
          /\ chan' = [e \in End |-> IF e \in EndsOf(n) THEN <<>> ELSE chan[e]]
          /\ now' = [e \in End |-> IF e \in EndsOf(n) THEN NoName ELSE now[e]]
      BY <2>2 DEF LeaveEnds, ProcessEnds
    <3>2. x \in In(links) /\ x \in End /\ At(links, x) \in Node
      BY <1>1, <3>1 DEF Ground
    <3>3. At(links, x) # n /\ state[At(links, x)] = "up"
      BY <1>1, <3>1, <3>2 DEF Types
    <3>4. \A y \in End : y \in In(links) /\ At(links, y) = At(links, x) =>
              thread'[y] = thread[y] /\ now'[y] = now[y] /\ chan'[y] = chan[y]
      BY <1>1, <3>1, <3>3, EndsOfFacts
    <3>5. Pushed(x) => Pushed(x)'
      BY <1>2, <3>4 DEF Pushed
    <3>. QED  BY <1>3, <3>2, <3>3, <3>4, <3>5 DEF Read
  <2>. QED  BY <1>8, <2>1, <2>2 DEF Leave
<1>9. ASSUME NEW n \in Node, NEW m \in Joins[n], Start(n, m) \/ StartRefused(n, m) PROVE Read
  <2>1. CASE Start(n, m)
    <3>1. PICK out \in End : Started(n, m, out)
      BY <2>1, StartEffect
    <3>. DEFINE in == Other(out)
    <3>2. /\ out \in End /\ in \in End /\ in # out /\ out \notin In(links) /\ in \notin In(links)
          /\ In(links') = In(links) \cup {out, in}
          /\ \A y \in In(links) : At(links', y) = At(links, y) /\ y # in /\ y # out /\ y \in End
      BY <1>1, <3>1 DEF Started, Longer, Ground
    <3>3. /\ state' = [state EXCEPT ![n] = "up"] /\ state[n] = "down" /\ now' = now
          /\ thread' = [thread EXCEPT ![out] = "reads", ![in] = "backlog"]
          /\ chan' = [chan EXCEPT ![in] = <<Msg("CONNECT", {n})>>]
      BY <3>1 DEF Started
    <3>. HIDE DEF in
    <3>4. /\ chan'[out] = <<>> /\ chan'[in] = <<Msg("CONNECT", {n})>>
          /\ \A y \in In(links) : chan'[y] = chan[y]
          /\ \A y \in End : y # out /\ y # in => thread'[y] = thread[y]
      BY <1>1, <3>2, <3>3 DEF Types, Unmade
    <3>5. x \in In(links)
      BY <3>2, <3>4, NoOffers
    <3>6. Pushed(x) => Pushed(x)'
      BY <1>2, <3>2, <3>3, <3>4 DEF Pushed
    <3>7. state[At(links, x)] = "up"
      <4>1. At(links, x) # n /\ At(links, x) \in Node
        BY <1>1, <3>3, <3>5 DEF Standing, Owned, Ground
      <4>. QED  BY <1>1, <3>2, <3>3, <3>5, <4>1 DEF Types
    <3>. QED  BY <1>3, <3>2, <3>3, <3>4, <3>5, <3>6, <3>7 DEF Read
  <2>2. CASE StartRefused(n, m)
    <3>1. x \in In(links) /\ state[At(links, x)] = "up"
      BY <1>1, <2>2 DEF StartRefused, Types, Ground
    <3>. QED  BY <1>3, <2>2, <3>1 DEF StartRefused, Read, Pushed
  <2>. QED  BY <1>9, <2>1, <2>2
<1>10. ASSUME NEW n \in leavers, Terminate(n) PROVE Read
  <2>1. PICK reset \in SUBSET Backlog(n) :
           /\ thread' = [e \in End |-> IF e \in reset THEN "none" ELSE thread[e]]
           /\ events' = events \cup {"reset" : e \in reset}
    BY <1>10 DEF Terminate
  <2>2. reset = {}
    BY <2>1 DEF Clean
  <2>3. \A y \in End : thread'[y] = thread[y]
    BY <2>1, <2>2
  <2>4. now' = now /\ links' = links /\ chan' = chan /\ state' = [state EXCEPT ![n] = "leaving"]
    BY <1>10 DEF Terminate
  <2>5. x \in In(links) /\ x \in End /\ state[At(links, x)] = "up"
    BY <1>1, <2>4 DEF Types, Ground
  <2>6. Pushed(x) => Pushed(x)'
    BY <2>3, <2>4 DEF Pushed
  <2>. QED  BY <1>3, <2>3, <2>4, <2>5, <2>6 DEF Read
<1>11. ASSUME UNCHANGED vars PROVE Read
  BY <1>5, <1>11 DEF vars
<1>12. Read
  BY <1>6, <1>7, <1>8, <1>9, <1>10, <1>11 DEF Next, Threads, World
<1>. QED  BY <1>12 DEF Read

LEMMA KeepsOffers ==
    ASSUME NEW q \in Seq(Message), NEW msg \in Message
    PROVE  /\ \A m : Offers(q, m) => Offers(Append(q, msg), m)
           /\ msg.type = "ADDNBRS" => \A m \in msg.names : Offers(Append(q, msg), m)
           /\ q # <<>> => \A m : Offers(q, m) =>
                  Offers(Tail(q), m) \/ (Head(q).type = "ADDNBRS" /\ m \in Head(q).names)
<1>. DEFINE r == Append(q, msg)
<1>1. /\ Len(r) = Len(q) + 1 /\ Len(q) \in Nat /\ r[Len(q) + 1] = msg
      /\ \A i \in 1..Len(q) : r[i] = q[i]
  OBVIOUS
<1>. HIDE DEF r
<1>2. Len(q) + 1 \in 1..Len(r) /\ \A i \in 1..Len(q) : i \in 1..Len(r)
  BY <1>1
<1>3. \A m : Offers(q, m) => Offers(r, m)
  BY <1>1, <1>2 DEF Offers
<1>4. msg.type = "ADDNBRS" => \A m \in msg.names : Offers(r, m)
  BY <1>1, <1>2 DEF Offers
<1>5. ASSUME q # <<>>, NEW m, NEW i \in 1..Len(q), q[i].type = "ADDNBRS", m \in q[i].names
      PROVE  Offers(Tail(q), m) \/ (Head(q).type = "ADDNBRS" /\ m \in Head(q).names)
  <2>1. Len(Tail(q)) = Len(q) - 1 /\ Head(q) = q[1] /\ Len(q) \in Nat
    BY <1>5
  <2>2. i = 1 \/ (i - 1 \in 1..Len(Tail(q)) /\ Tail(q)[i - 1] = q[i])
    BY <1>5, <2>1
  <2>. QED  BY <1>5, <2>1, <2>2 DEF Offers
<1>. QED  BY <1>3, <1>4, <1>5 DEF r, Offers

\* What add_neighbors has to do is done: the listener goes on until there is a
\* connection, and does not get further while its server is joining another.
WorkKept(x) ==
    /\ Adding(x) => Adding(x)' \/ MutexFree(At(links, x))
    /\ \A m \in Node \cup {NoName} : Wanted(x, m) =>
          \/ Wanted(x, m)'
          \/ /\ m \in Node /\ Meets(links', At(links, x), m)
             /\ MutexFree(At(links, x)) \/ Adding(x)'

LEMMA WorkSame ==
    ASSUME NEW x \in In(links),
           thread[x] \in AddThreads => /\ thread'[x] = thread[x]
                                       /\ todo'[x] = todo[x] /\ now'[x] = now[x],
           \A m \in Node \cup {NoName} : Offers(chan[x], m) => Offers(chan'[x], m)
    PROVE  WorkKept(x)
BY DEF WorkKept, Adding, Wanted, AddThreads

\* disconnect_peer takes nothing from what its own and other listeners have to do.
LEMMA PartKeeps ==
    ASSUME TypeInv, NEW n \in Node, NEW e \in peers[n], NEW msg \in Message, Parted(n, e, msg),
           NEW x \in In(links)
    PROVE  /\ Adding(x) => Adding(x)'
           /\ \A m : Wanted(x, m) => Wanted(x, m)'
<1>1. Types /\ Ground /\ x \in End /\ chan[x] \in Seq(Message)
  BY GroundHolds DEF TypeInv, Types, Ground
<1>. DEFINE f == Other(e)
<1>2. /\ now' = now /\ todo' = todo
      /\ thread' = [thread EXCEPT ![e] = IF @ = "reads" THEN "ended" ELSE @]
      /\ chan' = chan \/ chan' = [chan EXCEPT ![f] = Append(@, msg)]
  BY DEF Parted
<1>3. e \in End /\ f \in End
  BY <1>1 DEF Ground
<1>. HIDE DEF f
<1>4. thread[x] # "reads" => thread'[x] = thread[x]
  BY <1>1, <1>2, <1>3 DEF Types
<1>5. \A m : Offers(chan[x], m) => Offers(chan'[x], m)
  <2>1. CASE chan'[x] = chan[x]
    BY <2>1
  <2>2. CASE chan'[x] = Append(chan[x], msg)
    BY <1>1, <2>2, KeepsOffers
  <2>. QED  BY <1>1, <1>2, <1>3, <2>1, <2>2 DEF Types
<1>. QED  BY <1>2, <1>4, <1>5 DEF Adding, Wanted, AddThreads

\* A server ends when its listeners have nothing to do, unless it leaves a message unread.
LEMMA EndsIdle ==
    ASSUME TypeInv, Standing, NEW n \in Node, LeaveEnds(n), Clean',
           NEW x \in In(links), At(links, x) = n
    PROVE  ~Adding(x) /\ \A m : ~Wanted(x, m)
<1>1. x \in EndsOf(n)
  BY GroundHolds, EndsOfFacts DEF TypeInv, Ground
<1>2. /\ peers[n] = {} /\ (state[n] = "leaving" \/ (state[n] = "closing" /\ ~Adding(joining[n])))
      /\ ~Unread(n)
  BY DEF LeaveEnds, ProcessEnds, Joinable, Clean
<1>3. ~Adding(x)
  BY <1>2 DEF Standing, AddersListed
<1>4. \A m : ~Offers(chan[x], m)
  BY <1>1, <1>2 DEF Unread, Offers
<1>. QED  BY <1>3, <1>4 DEF Wanted, Adding, AddThreads

LEMMA WorkStays ==
    ASSUME TypeInv, Standing, NamesTrue, [Next]_vars, Clean', NEW x \in In(links)
    PROVE  WorkKept(x)
<1>1. Types /\ Ground /\ Unmade /\ x \in End /\ chan[x] \in Seq(Message) /\ At(links, x) \in Node
  BY GroundHolds DEF TypeInv, Types, Ground
<1>2. CASE chan' = chan /\ thread' = thread /\ todo' = todo /\ now' = now
  BY <1>2, WorkSame
<1>3. ASSUME NEW e \in Ends, Accept(e) \/ Listener(e) \/ HearSearch(e) PROVE WorkKept(x)
  <2>1. e \in In(links) /\ e \in End /\ Owner(e) = At(links, e) /\ Owner(e) \in Node
    BY <1>1, OwnerFacts
  <2>2. CASE Accept(e) \/ HearSearch(e)
    <3>1. /\ chan' = chan /\ todo' = todo /\ now' = now /\ thread[e] \in {"backlog", "reads"}
          /\ \E does : thread' = [thread EXCEPT ![e] = does]
      BY <2>2 DEF Accept, HearSearch
    <3>. QED  BY <1>1, <3>1, WorkSame DEF Types, AddThreads
  <2>3. CASE HearConnect(e) \/ HearDisconnect(e)
    <3>1. /\ chan' = [chan EXCEPT ![e] = Tail(@)] /\ todo' = todo /\ now' = now /\ thread[e] = "reads"
          /\ \E does : thread' = [thread EXCEPT ![e] = does]
          /\ chan[e] # <<>> /\ Head(chan[e]).type # "ADDNBRS"
      BY <2>3 DEF HearConnect, HearDisconnect, Hears, Loops
    <3>2. \A m : Offers(chan[x], m) => Offers(chan'[x], m)
      <4>1. CASE x = e
        BY <1>1, <3>1, <4>1, KeepsOffers DEF Types
      <4>2. CASE x # e
        BY <1>1, <3>1, <4>2 DEF Types
      <4>. QED  BY <4>1, <4>2
    <3>3. thread[x] \in AddThreads => thread'[x] = thread[x]
      BY <1>1, <3>1 DEF Types, AddThreads
    <3>. QED  BY <3>1, <3>2, <3>3, WorkSame
  <2>4. CASE HearAddNeighbors(e)
    <3>1. /\ chan' = [chan EXCEPT ![e] = Tail(@)] /\ todo' = [todo EXCEPT ![e] = Head(chan[e]).names]
          /\ now' = now /\ thread[e] = "reads" /\ thread' = [thread EXCEPT ![e] = "adds"]
          /\ chan[e] # <<>>
      BY <2>4 DEF HearAddNeighbors, Hears
    <3>2. CASE x # e
      BY <1>1, <3>1, <3>2, WorkSame DEF Types
    <3>3. CASE x = e
      <4>1. /\ thread'[e] = "adds" /\ todo'[e] = Head(chan[e]).names /\ chan'[e] = Tail(chan[e])
            /\ ~Adding(e)
        BY <1>1, <2>1, <3>1 DEF Types, Adding
      <4>2. \A m : Wanted(e, m) => Offers(chan[e], m)
        BY <3>1 DEF Wanted, AddThreads
      <4>3. \A m : Offers(chan[e], m) => Offers(chan'[e], m) \/ m \in todo'[e]
        BY <1>1, <3>1, <3>3, <4>1, KeepsOffers
      <4>4. \A m : Wanted(e, m) => Wanted(e, m)'
        BY <4>1, <4>2, <4>3 DEF Wanted, AddThreads
      <4>. QED  BY <3>3, <4>1, <4>4 DEF WorkKept
    <3>. QED  BY <3>2, <3>3
  <2>5. ASSUME NEW m \in todo[e], KnownNeighbor(e, m) PROVE WorkKept(x)
    <3>1. /\ chan' = chan /\ todo' = [todo EXCEPT ![e] = @ \ {m}] /\ now' = now /\ thread' = thread
          /\ links' = links /\ thread[e] = "adds" /\ joining[Owner(e)] = NoEnd /\ ConnectedTo(Owner(e), m)
          /\ m # NoName
      BY <2>5 DEF KnownNeighbor, MutexFree, Clean
    <3>2. CASE x # e
      BY <1>1, <3>1, <3>2, WorkSame DEF Types
    <3>3. CASE x = e
      <4>1. m \in Node /\ Meets(links, At(links, e), m)
        <5>1. PICK y \in peers[At(links, e)] : name[y] = m
          BY <2>1, <3>1 DEF ConnectedTo
        <5>2. y \in In(links) /\ y \in End /\ At(links, y) = At(links, e) /\ At(links, Other(y)) \in Node
          BY <1>1, <2>1, <5>1 DEF Ground
        <5>. QED  BY <3>1, <5>1, <5>2 DEF NamesTrue, Meets
      <4>2. MutexFree(At(links, e))
        BY <2>1, <3>1 DEF MutexFree
      <4>3. todo'[e] = todo[e] \ {m}
        BY <1>1, <2>1, <3>1 DEF Types
      <4>4. \A k : Wanted(e, k) => Wanted(e, k)' \/ k = m
        BY <3>1, <4>3 DEF Wanted
      <4>. QED  BY <3>1, <3>3, <4>1, <4>2, <4>4 DEF WorkKept
    <3>. QED  BY <3>2, <3>3
  <2>6. ASSUME NEW m \in todo[e], NewNeighbor(e, m) PROVE WorkKept(x)
    <3>1. /\ chan' = chan /\ todo' = [todo EXCEPT ![e] = @ \ {m}] /\ now' = [now EXCEPT ![e] = m]
          /\ thread' = [thread EXCEPT ![e] = "connects"] /\ thread[e] = "adds"
      BY <2>6 DEF NewNeighbor
    <3>2. CASE x # e
      BY <1>1, <3>1, <3>2, WorkSame DEF Types
    <3>3. CASE x = e
      <4>1. todo'[e] = todo[e] \ {m} /\ now'[e] = m /\ thread'[e] = "connects"
        BY <1>1, <2>1, <3>1 DEF Types
      <4>2. \A k : Wanted(e, k) => Wanted(e, k)'
        BY <3>1, <4>1 DEF Wanted, AddThreads
      <4>3. Adding(e)'
        BY <4>1 DEF Adding
      <4>. QED  BY <3>3, <4>2, <4>3 DEF WorkKept
    <3>. QED  BY <3>2, <3>3
  <2>7. CASE NeighborRefuses(e) \/ NeighborUnknown(e)
    BY <2>7 DEF NeighborRefuses, NeighborUnknown, ProcessEnds, Clean
  <2>8. CASE NeighborPushed(e)
    <3>0. /\ chan' = chan /\ todo' = todo /\ thread[e] = "pushes" /\ joining[Owner(e)] = NoEnd
          /\ now' = [now EXCEPT ![e] = NoName]
          /\ \E does : thread' = [thread EXCEPT ![e] = "adds", ![now[e]] = does]
      BY <2>8 DEF NeighborPushed, MutexFree
    <3>1. now[e] \in End /\ thread[now[e]] = "none" /\ now[e] # e
      BY <1>1, <2>1, <3>0 DEF TypeInv, Pushing, Ground
    <3>2. CASE x # e
      <4>1. thread[x] \in AddThreads => thread'[x] = thread[x] /\ now'[x] = now[x]
        BY <1>1, <3>0, <3>1, <3>2 DEF Types, AddThreads
      <4>. QED  BY <3>0, <4>1, WorkSame
    <3>3. CASE x = e
      <4>1. thread'[e] = "adds" /\ MutexFree(At(links, e))
        BY <1>1, <2>1, <3>0, <3>1 DEF Types, MutexFree
      <4>2. \A k : Wanted(e, k) => Wanted(e, k)'
        BY <3>0, <4>1 DEF Wanted, AddThreads
      <4>. QED  BY <3>3, <4>1, <4>2 DEF WorkKept
    <3>. QED  BY <3>2, <3>3
  <2>9. CASE NeighborAnswers(e)
    <3>1. PICK out \in End : Answered(e, out)
      BY <2>9, AnswerEffect
    <3>. DEFINE in == Other(out)
    <3>2. /\ out \in End /\ in \in End /\ in # out /\ out \notin In(links) /\ in \notin In(links)
          /\ out \in In(links') /\ At(links', out) = Owner(e) /\ At(links', in) = now[e] /\ x # in
      BY <1>1, <3>1 DEF Answered, Longer, Ground
    <3>3. /\ now' = [now EXCEPT ![e] = out] /\ thread[e] = "connects" /\ todo' = todo /\ now[e] \in Node
          /\ thread' = [thread EXCEPT ![e] = "pushes", ![in] = "backlog"]
          /\ chan' = [chan EXCEPT ![in] = <<Msg("CONNECT", {Owner(e)})>>]
      BY <3>1 DEF Answered
    <3>4. Meets(links', Owner(e), now[e])
      BY <3>2 DEF Meets
    <3>. HIDE DEF in
    <3>5. chan'[x] = chan[x]
      BY <1>1, <3>2, <3>3 DEF Types
    <3>6. CASE x # e
      <4>1. thread'[x] = thread[x] /\ now'[x] = now[x]
        BY <1>1, <3>2, <3>3, <3>6 DEF Types
      <4>. QED  BY <3>3, <3>5, <4>1, WorkSame
    <3>7. CASE x = e
      <4>1. thread'[e] = "pushes"
        BY <1>1, <2>1, <3>2, <3>3, <3>7 DEF Types
      <4>2. Adding(e)'
        BY <4>1 DEF Adding
      <4>3. \A k : Wanted(e, k) => Wanted(e, k)' \/ k = now[e]
        BY <3>3, <3>5, <3>7, <4>1 DEF Wanted, AddThreads
      <4>. QED  BY <2>1, <3>3, <3>4, <3>7, <4>2, <4>3 DEF WorkKept
    <3>. QED  BY <3>6, <3>7
  <2>. QED  BY <1>3, <2>2, <2>3, <2>4, <2>5, <2>6, <2>7, <2>8, <2>9 DEF Listener
<1>4. ASSUME NEW n \in Node, MonitorFrees(n) \/ MonitorJoins(n) PROVE WorkKept(x)
  BY <1>2, <1>4 DEF MonitorFrees, MonitorJoins
<1>5. ASSUME NEW n \in Node, Leave(n) PROVE WorkKept(x)
  <2>1. ASSUME NEW e \in peers[n], LeaveChoosing(n, e) \/ LeaveTelling(n, e) PROVE WorkKept(x)
    <3>1. PICK msg \in Message : Parted(n, e, msg)
      BY <2>1, PartEffect
    <3>. QED  BY <3>1, PartKeeps DEF WorkKept
  <2>2. CASE LeaveEnds(n)
    <3>1. /\ todo' = [e \in End |-> IF e \in EndsOf(n) THEN {} ELSE todo[e]]
          /\ thread' = [e \in End |-> IF e \in EndsOf(n) THEN "ended" ELSE thread[e]]
          /\ chan' = [e \in End |-> IF e \in EndsOf(n) THEN <<>> ELSE chan[e]]
          /\ now' = [e \in End |-> IF e \in EndsOf(n) THEN NoName ELSE now[e]]
      BY <2>2 DEF LeaveEnds, ProcessEnds
    <3>2. x \in EndsOf(n) <=> At(links, x) = n
      BY <1>1, EndsOfFacts
    <3>3. CASE At(links, x) # n
      BY <1>1, <3>1, <3>2, <3>3, WorkSame
    <3>4. CASE At(links, x) = n
      BY <2>2, <3>4, EndsIdle DEF WorkKept
    <3>. QED  BY <3>3, <3>4
  <2>. QED  BY <1>5, <2>1, <2>2 DEF Leave
<1>6. ASSUME NEW n \in Node, NEW m \in Joins[n], Start(n, m) \/ StartRefused(n, m) PROVE WorkKept(x)
  <2>1. CASE Start(n, m)
    <3>1. PICK out \in End : Started(n, m, out)
      BY <2>1, StartEffect
    <3>. DEFINE in == Other(out)
    <3>2. out \in End /\ in \in End /\ x # out /\ x # in
      BY <1>1, <3>1 DEF Started, Longer
    <3>3. /\ now' = now /\ todo' = todo
          /\ thread' = [thread EXCEPT ![out] = "reads", ![in] = "backlog"]
          /\ chan' = [chan EXCEPT ![in] = <<Msg("CONNECT", {n})>>]
      BY <3>1 DEF Started
    <3>. HIDE DEF in
    <3>4. thread'[x] = thread[x] /\ chan'[x] = chan[x]
      BY <1>1, <3>2, <3>3 DEF Types
    <3>. QED  BY <3>3, <3>4, WorkSame
  <2>2. CASE StartRefused(n, m)
    BY <1>2, <2>2 DEF StartRefused
  <2>. QED  BY <1>6, <2>1, <2>2
<1>7. ASSUME NEW n \in leavers, Terminate(n) PROVE WorkKept(x)
  <2>1. PICK reset \in SUBSET Backlog(n) :
           thread' = [e \in End |-> IF e \in reset THEN "none" ELSE thread[e]]
    BY <1>7 DEF Terminate
  <2>2. thread[x] \in AddThreads => thread'[x] = thread[x]
    BY <1>1, <2>1 DEF Backlog, AddThreads
  <2>3. now' = now /\ todo' = todo /\ chan' = chan
    BY <1>7 DEF Terminate
  <2>. QED  BY <2>2, <2>3, WorkSame
<1>8. CASE UNCHANGED vars
  BY <1>2, <1>8 DEF vars
<1>. QED  BY <1>3, <1>4, <1>5, <1>6, <1>7, <1>8 DEF Next, Threads, World

\* Who meets whom, from one step to the next.
LEMMA MeetsBoth ==
    ASSUME NEW L \in Seq(Node \X Node)
    PROVE  \A i, k : Meets(L, i, k) => Meets(L, k, i)
BY LinkFacts, EndFacts DEF Meets

LEMMA MeetsStep ==
    ASSUME TypeInv, [Next]_vars
    PROVE  /\ \A x \in In(links) : /\ x \in In(links') /\ At(links', x) = At(links, x)
                                   /\ At(links', Other(x)) = At(links, Other(x))
           /\ \A i, k : Meets(links, i, k) => Meets(links', i, k)
           /\ \A i, k : Meets(links', i, k) =>
                  \/ Meets(links, i, k)
                  \/ \E n \in Node, m \in Node, out \in End :
                        Started(n, m, out) /\ ((i = n /\ k = m) \/ (i = m /\ k = n))
                  \/ \E e \in Ends, out \in End :
                        Answered(e, out) /\ ((i = Owner(e) /\ k = now[e]) \/ (i = now[e] /\ k = Owner(e)))
<1>1. Types /\ Ground
  BY GroundHolds DEF TypeInv
<1>2. ASSUME NEW n, NEW m, NEW out \in End, Longer(links, links', n, m, out)
      PROVE  /\ \A x \in In(links) : /\ x \in In(links') /\ At(links', x) = At(links, x)
                                     /\ At(links', Other(x)) = At(links, Other(x))
             /\ \A i, k : Meets(links, i, k) => Meets(links', i, k)
             /\ \A i, k : Meets(links', i, k) =>
                    Meets(links, i, k) \/ (i = n /\ k = m) \/ (i = m /\ k = n)
  <2>. DEFINE in == Other(out)
  <2>1. /\ In(links') = In(links) \cup {out, in} /\ Other(in) = out
        /\ At(links', out) = n /\ At(links', in) = m
        /\ \A x \in In(links) : At(links', x) = At(links, x) /\ At(links', Other(x)) = At(links, Other(x))
    BY <1>1, <1>2, EndFacts DEF Longer, Ground
  <2>2. Other(out) = in
    OBVIOUS
  <2>. HIDE DEF in
  <2>. QED  BY <2>1, <2>2 DEF Meets
<1>3. CASE links' = links
  BY <1>3
<1>4. ASSUME NEW n \in Node, NEW m \in Node, NEW out \in End, Started(n, m, out)
      PROVE  Longer(links, links', n, m, out)
  BY <1>4 DEF Started
<1>5. ASSUME NEW e \in Ends, NEW out \in End, Answered(e, out)
      PROVE  Longer(links, links', Owner(e), now[e], out)
  BY <1>5 DEF Answered
<1>6. CASE \E n \in Node, m \in Node, out \in End : Started(n, m, out)
  <2>1. PICK n \in Node, m \in Node, out \in End : Started(n, m, out)
    BY <1>6
  <2>. QED  BY <1>2, <1>4, <2>1
<1>7. CASE \E e \in Ends, out \in End : Answered(e, out)
  <2>1. PICK e \in Ends, out \in End : Answered(e, out)
    BY <1>7
  <2>. QED  BY <1>2, <1>5, <2>1
<1>. QED  BY <1>3, <1>6, <1>7, Growth

\* Something will go wrong: a name that is nobody's, an errand of a server that is
\* leaving, the name of one that is leaving and has not been met.
Doomed == \E e \in In(links) :
    \/ Wanted(e, NoName)
    \/ state[At(links, e)] = "closing" /\ (Adding(e) \/ \E m \in Node : Wanted(e, m))
    \/ \E m \in Node : Wanted(e, m) /\ Ending(m) /\ ~Meets(links, At(links, e), m)

LEMMA DoomedStays ==
    ASSUME TypeInv, Standing, Standing', NamesTrue, Calm, Calm', [Next]_vars, Clean', Doomed
    PROVE  Doomed'
<1>1. Types /\ Ground
  BY GroundHolds DEF TypeInv
<1>2. PICK e \in In(links) :
         \/ Wanted(e, NoName)
         \/ state[At(links, e)] = "closing" /\ (Adding(e) \/ \E m \in Node : Wanted(e, m))
         \/ \E m \in Node : Wanted(e, m) /\ Ending(m) /\ ~Meets(links, At(links, e), m)
  BY DEF Doomed
<1>3. WorkKept(e)
  BY WorkStays
<1>4. e \in In(links') /\ At(links', e) = At(links, e) /\ At(links, e) \in Node
  BY <1>1, MeetsStep DEF Ground
<1>5. CASE Wanted(e, NoName)
  <2>1. Wanted(e, NoName)'
    BY <1>3, <1>5, OverlayAssumption DEF WorkKept
  <2>. QED  BY <1>4, <2>1 DEF Doomed
<1>6. CASE state[At(links, e)] = "closing" /\ (Adding(e) \/ \E m \in Node : Wanted(e, m))
  <2>1. ~MutexFree(At(links, e))
    BY <1>4, <1>6 DEF Calm, ClosingLocked, MutexFree
  <2>2. Adding(e)' \/ \E m \in Node : Wanted(e, m)'
    BY <1>3, <1>6, <2>1 DEF WorkKept
  <2>3. state'[At(links, e)] # "gone"
    <3>1. ASSUME state'[At(links, e)] = "gone" PROVE FALSE
      <4>1. thread'[e] = "ended" /\ chan'[e] = <<>>
        BY <1>4, <3>1 DEF Standing, GoneEnded, Calm, GoneSilent
      <4>2. ~Adding(e)' /\ \A m : ~Wanted(e, m)'
        BY <4>1, NoOffers DEF Adding, Wanted, AddThreads
      <4>. QED  BY <2>2, <4>2
    <3>. QED  BY <3>1
  <2>4. state'[At(links, e)] = "closing"
    BY <1>4, <1>6, <2>3, NobodyReturns
  <2>. QED  BY <1>4, <2>2, <2>4 DEF Doomed
<1>7. ASSUME NEW m \in Node, Wanted(e, m), Ending(m), ~Meets(links, At(links, e), m)
      PROVE  Doomed'
  <2>1. Ending(m)'
    BY <1>7, NobodyReturns DEF Ending
  <2>2. CASE ~Meets(links', At(links, e), m)
    <3>1. Wanted(e, m)'
      BY <1>3, <1>7, <2>2 DEF WorkKept
    <3>. QED  BY <1>4, <2>1, <2>2, <3>1 DEF Doomed
  <2>3. CASE Meets(links', At(links, e), m)
    <3>1. ASSUME NEW i \in Node, NEW k \in Node, NEW out \in End, Started(i, k, out),
                 (At(links, e) = i /\ m = k) \/ (At(links, e) = k /\ m = i)
          PROVE  FALSE
      BY <1>7, <3>1 DEF Started, Ending, Standing, Owned
    <3>2. PICK x \in Ends, out \in End :
             /\ Answered(x, out)
             /\ (At(links, e) = Owner(x) /\ m = now[x]) \/ (At(links, e) = now[x] /\ m = Owner(x))
      BY <1>7, <2>3, <3>1, MeetsStep
    <3>3. /\ state' = state /\ state[now[x]] = "up" /\ state[Owner(x)] # "gone"
          /\ \E in \in End : x # in /\ thread' = [thread EXCEPT ![x] = "pushes", ![in] = "backlog"]
      <4>1. x # Other(out) /\ Other(out) \in End
        BY <1>1, <3>2, OwnerFacts DEF Answered, Longer
      <4>. QED  BY <3>2, <4>1 DEF Answered
    <3>4. m = Owner(x) /\ state'[m] = "closing"
      BY <1>7, <3>2, <3>3 DEF Ending
    <3>5. x \in In(links) /\ x \in End /\ At(links, x) = m
      BY <1>1, <3>4, OwnerFacts
    <3>6. Adding(x)'
      BY <1>1, <3>3, <3>5 DEF Adding, Types
    <3>7. x \in In(links') /\ At(links', x) = m
      BY <3>5, MeetsStep
    <3>. QED  BY <3>4, <3>6, <3>7 DEF Doomed
  <2>. QED  BY <2>2, <2>3
<1>. QED  BY <1>2, <1>5, <1>6, <1>7

\* Two servers are connected, or one is to connect to the other.
Edge(n, m) ==
    \/ Meets(links, n, m)
    \/ \E e \in In(links) : (At(links, e) = n /\ Wanted(e, m)) \/ (At(links, e) = m /\ Wanted(e, n))

\* No part of those that still take part is cut off from the rest.
Conn == \A part \in SUBSET Alive :
    part # {} /\ part # Alive => \E n \in part, m \in Alive \ part : Edge(n, m)

ConnInv == Clean => Doomed \/ Conn

LEMMA EdgeBoth == TypeInv => \A n, m : Edge(n, m) => Edge(m, n)
BY MeetsBoth DEF Edge, TypeInv, Types

LEMMA EdgeStays ==
    ASSUME TypeInv, TypeInv', Standing, NamesTrue, [Next]_vars, Clean',
           NEW n \in Node, NEW m \in Node, Edge(n, m)
    PROVE  Edge(n, m)'
<1>1. ASSUME NEW x \in In(links), NEW k \in Node, Wanted(x, k)
      PROVE  /\ x \in In(links') /\ At(links', x) = At(links, x)
             /\ Wanted(x, k)' \/ Meets(links', At(links, x), k)
  BY <1>1, WorkStays, MeetsStep DEF WorkKept
<1>2. \A i, k : Meets(links', i, k) => Meets(links', k, i)
  BY MeetsBoth DEF TypeInv, Types
<1>. QED  BY <1>1, <1>2, MeetsStep DEF Edge

\* A server that has accepted and connected what there is lists whom it meets.
LEMMA OldPeer ==
    ASSUME TypeInv, Has, Clean, NEW h \in Alive, NEW v \in Alive, Meets(links, h, v),
           \A x \in In(links) : At(links, x) = h => ~Adding(x) /\ thread[x] # "backlog"
    PROVE  \E y \in peers[h] : At(links, Other(y)) = v
<1>1. PICK y \in In(links) : At(links, y) = h /\ At(links, Other(y)) = v
  BY DEF Meets
<1>2. HasEnd(y)
  BY <1>1 DEF Has
<1>3. ~Pushed(y)
  <2>1. ASSUME NEW x \in End, thread[x] = "pushes", now[x] = y PROVE FALSE
    <3>1. x \in In(links) /\ At(links, x) = h
      BY <1>1, <2>1 DEF TypeInv, Pushing, Unmade
    <3>. QED  BY <2>1, <3>1 DEF Adding
  <2>. QED  BY <2>1 DEF Pushed
<1>. QED  BY <1>1, <1>2, <1>3 DEF HasEnd

\* The names handed over: whom the server that leaves was connected to, the peer it
\* has chosen is or will be, or it is that peer.
LEMMA HandsOver ==
    ASSUME TypeInv, Standing, NamesTrue, Has, [Next]_vars, Clean', ~Doomed',
           NEW h \in Alive, NEW v \in Alive, v # h, Edge(h, v), state[h] = "leaving",
           NEW e \in peers[h], NEW msg \in Message, Parted(h, e, msg), NEW c, c = At(links, Other(e))
    PROVE  v = c \/ (c \in Alive' /\ Edge(c, v)')
<1>. DEFINE f == Other(e)
<1>1. Types /\ Ground /\ Clean /\ h \in Node /\ v \in Node
  BY GroundHolds, CleanStays DEF TypeInv, Alive
<1>2. /\ links' = links /\ name' = name /\ state' = [state EXCEPT ![h] = "closing"]
      /\ Backlog(h) = {} /\ (peers[h] # {e} => msg.type = "ADDNBRS")
      /\ msg.type = "ADDNBRS" => msg = Msg("ADDNBRS", NamesOfOthers(h, e))
      /\ msg.type = "ADDNBRS" => chan' = [chan EXCEPT ![f] = Append(@, msg)] /\ state[Owner(f)] # "gone"
  BY DEF Parted, Clean
<1>3. /\ e \in In(links) /\ At(links, e) = h /\ f \in In(links) /\ f \in End /\ c \in Node
      /\ Owner(f) = c
  BY <1>1 DEF Ground, Owner, At
<1>4. state'[h] = "closing" /\ Ending(h)' /\ \A k \in Node : k # h => state'[k] = state[k]
  BY <1>1, <1>2 DEF Types, Ending
<1>5. ASSUME NEW x \in In(links)
      PROVE  /\ Adding(x) => Adding(x)'
             /\ \A m : Wanted(x, m) => Wanted(x, m)'
             /\ ~Wanted(x, NoName)'
             /\ state'[At(links, x)] = "closing" => ~Adding(x)' /\ \A m \in Node : ~Wanted(x, m)'
             /\ \A m \in Node : Wanted(x, m)' /\ Ending(m)' => Meets(links, At(links, x), m)
  <2>1. (Adding(x) => Adding(x)') /\ \A m : Wanted(x, m) => Wanted(x, m)'
    BY <1>1, PartKeeps
  <2>2. ~Wanted(x, NoName)'
    BY <1>2 DEF Doomed
  <2>3. state'[At(links, x)] = "closing" => ~Adding(x)' /\ \A m \in Node : ~Wanted(x, m)'
    BY <1>2 DEF Doomed
  <2>4. \A m \in Node : Wanted(x, m)' /\ Ending(m)' => Meets(links, At(links, x), m)
    BY <1>2 DEF Doomed
  <2>. QED  BY <2>1, <2>2, <2>3, <2>4
<1>6. Meets(links, h, v)
  <2>1. \A x \in In(links) : At(links, x) = h => ~Wanted(x, v)
    BY <1>1, <1>4, <1>5
  <2>2. \A x \in In(links) : At(links, x) = v /\ Wanted(x, h) => Meets(links, v, h)
    BY <1>1, <1>4, <1>5
  <2>3. Meets(links, v, h) => Meets(links, h, v)
    BY <1>1, MeetsBoth DEF Types
  <2>. QED  BY <2>1, <2>2, <2>3 DEF Edge
<1>7. \A x \in In(links) : At(links, x) = h => ~Adding(x) /\ thread[x] # "backlog"
  <2>1. \A x \in In(links) : x \in End /\ (x \in EndsOf(h) <=> At(links, x) = h)
    BY <1>1, EndsOfFacts DEF Ground
  <2>. QED  BY <1>2, <1>4, <1>5, <2>1 DEF Backlog
<1>8. PICK y \in peers[h] : At(links, Other(y)) = v
  BY <1>1, <1>6, <1>7, OldPeer
<1>9. CASE y = e
  BY <1>8, <1>9
<1>10. CASE y # e
  <2>1. /\ msg.type = "ADDNBRS" /\ msg = Msg("ADDNBRS", NamesOfOthers(h, e))
        /\ chan'[f] = Append(chan[f], msg) /\ state[c] # "gone"
    BY <1>1, <1>2, <1>3, <1>10 DEF Types
  <2>2. name[y] \in msg.names
    BY <1>10, <2>1 DEF Msg, NamesOfOthers
  <2>3. PICK w \in Node \cup {NoName} : w = name[y]
    BY <1>1, <1>8 DEF Ground, Types
  <2>4. Wanted(f, w)'
    <3>1. Offers(chan'[f], w)
      BY <1>1, <1>3, <2>1, <2>2, <2>3, KeepsOffers DEF Types
    <3>. QED  BY <3>1 DEF Wanted
  <2>5. w = v
    BY <1>1, <1>3, <1>5, <1>8, <2>3, <2>4 DEF NamesTrue, Ground
  <2>6. state'[c] # "closing"
    BY <1>1, <1>3, <1>5, <2>4, <2>5
  <2>7. c # h /\ state[c] # "down"
    BY <1>3, <1>4, <2>6 DEF Standing, Owned
  <2>8. c \in Alive'
    BY <1>1, <1>3, <1>4, <2>1, <2>6, <2>7 DEF Alive, Types
  <2>9. Edge(c, v)'
    BY <1>2, <1>3, <2>4, <2>5 DEF Edge
  <2>. QED  BY <2>8, <2>9
<1>. QED  BY <1>9, <1>10

LEMMA PartConn ==
    ASSUME TypeInv, TypeInv', Standing, NamesTrue, Has, [Next]_vars, Clean', Conn, ~Doomed',
           NEW h \in Node, state[h] = "leaving",
           NEW e \in peers[h], NEW msg \in Message, Parted(h, e, msg)
    PROVE  Conn'
<1>1. Types /\ Ground /\ h \in Alive
  BY GroundHolds DEF TypeInv, Alive
<1>2. PICK c \in Node : c = At(links, Other(e))
  BY <1>1 DEF Ground
<1>3. Alive' = Alive \ {h}
  <2>1. state' = [state EXCEPT ![h] = "closing"]
    BY DEF Parted
  <2>. QED  BY <1>1, <2>1 DEF Alive, Types
<1>4. ASSUME NEW v \in Alive, v # h, Edge(h, v)
      PROVE  v = c \/ (c \in Alive' /\ Edge(c, v)')
  BY <1>1, <1>4, <1>2, HandsOver
<1>5. \A n, m : (Edge(n, m) => Edge(m, n)) /\ (Edge(n, m)' => Edge(m, n)')
  <2>1. \A i, k : Meets(links', i, k) => Meets(links', k, i)
    BY MeetsBoth DEF TypeInv, Types
  <2>. QED  BY <2>1, EdgeBoth DEF Edge
<1>. SUFFICES ASSUME NEW part \in SUBSET Alive', part # {}, part # Alive'
              PROVE  \E n \in part, m \in Alive' \ part : Edge(n, m)'
  BY DEF Conn
<1>. DEFINE P == IF c \in part THEN part \cup {h} ELSE part
<1>6. P \in SUBSET Alive /\ P # {} /\ P # Alive
  BY <1>1, <1>3
<1>7. PICK n \in P, m \in Alive \ P : Edge(n, m)
  BY <1>6 DEF Conn
<1>8. n \in Alive /\ m \in Alive /\ n \in Node /\ m \in Node
  BY <1>6, <1>7 DEF Alive
<1>9. CASE n # h /\ m # h
  <2>1. n \in part /\ m \in Alive' \ part
    BY <1>3, <1>7, <1>8, <1>9
  <2>2. Edge(n, m)'
    BY <1>7, <1>8, EdgeStays
  <2>. QED  BY <2>1, <2>2
<1>10. CASE n = h
  <2>1. c \in part
    BY <1>3, <1>7, <1>10
  <2>2. m # h /\ m \in Alive' \ part /\ m # c
    BY <1>3, <1>7, <1>8, <1>10, <2>1
  <2>3. Edge(c, m)'
    BY <1>4, <1>7, <1>8, <1>10, <2>2
  <2>. QED  BY <2>1, <2>2, <2>3
<1>11. CASE m = h
  <2>1. c \notin part /\ n \in part /\ n # h
    BY <1>3, <1>7, <1>11
  <2>2. c \in Alive' /\ Edge(c, n)'
    BY <1>4, <1>5, <1>7, <1>8, <1>11, <2>1
  <2>3. Edge(n, c)'
    BY <1>5, <2>2
  <2>. QED  BY <2>1, <2>2, <2>3
<1>. QED  BY <1>9, <1>10, <1>11

\* A server that ends without saying goodbye has no peer.
LEMMA EndConn ==
    ASSUME TypeInv, Standing, NamesTrue, Has, [Next]_vars, Clean', Conn, ~Doomed',
           NEW h \in Node, state[h] = "leaving", LeaveEnds(h)
    PROVE  Conn'
<1>1. Types /\ Ground /\ h \in Alive /\ Clean
  BY GroundHolds, CleanStays DEF TypeInv, Alive
<1>2. /\ peers[h] = {} /\ Backlog(h) = {} /\ links' = links /\ state' = [state EXCEPT ![h] = "gone"]
  BY DEF LeaveEnds, ProcessEnds
<1>3. Alive' = Alive \ {h} /\ Ending(h)'
  BY <1>1, <1>2 DEF Alive, Types, Ending
<1>4. ASSUME NEW x \in In(links), At(links, x) = h
      PROVE  ~Adding(x) /\ thread[x] # "backlog" /\ \A m : ~Wanted(x, m)
  <2>1. x \in EndsOf(h)
    BY <1>1, <1>4, EndsOfFacts DEF Ground
  <2>. QED  BY <1>2, <1>4, <2>1, EndsIdle DEF Backlog
<1>5. ASSUME NEW v \in Alive, v # h PROVE ~Edge(h, v)
  <2>1. ~Meets(links, h, v)
    BY <1>1, <1>2, <1>4, <1>5, OldPeer
  <2>2. ~Meets(links, v, h)
    BY <1>1, <2>1, MeetsBoth DEF Types
  <2>3. ASSUME NEW x \in In(links), At(links, x) = v, Wanted(x, h) PROVE FALSE
    <3>1. WorkKept(x)
      BY WorkStays
    <3>2. Wanted(x, h)'
      BY <1>2, <2>2, <2>3, <3>1 DEF WorkKept
    <3>. QED  BY <1>2, <1>3, <2>2, <2>3, <3>2 DEF Doomed
  <2>. QED  BY <1>4, <2>1, <2>3 DEF Edge
<1>6. {h} = Alive
  <2>1. {h} \in SUBSET Alive /\ {h} # {}
    BY <1>1
  <2>2. ~\E n \in {h}, m \in Alive \ {h} : Edge(n, m)
    BY <1>5
  <2>. QED  BY <2>1, <2>2 DEF Conn
<1>7. Alive' = {}
  BY <1>3, <1>6
<1>. QED  BY <1>7 DEF Conn

\* A server joins next to the one it connects to.
LEMMA StartConn ==
    ASSUME TypeInv, TypeInv', Standing, NamesTrue, [Next]_vars, Clean', Conn,
           NEW n \in Node, NEW m \in Node, NEW out \in End, Started(n, m, out)
    PROVE  Conn'
<1>1. Types /\ Ground /\ Types'
  BY GroundHolds DEF TypeInv
<1>2. Alive' = Alive \cup {n} /\ n \notin Alive /\ m \in Alive
  <2>1. state' = [state EXCEPT ![n] = "up"] /\ state[n] = "down" /\ state[m] = "up"
    BY DEF Started
  <2>. QED  BY <1>1, <2>1 DEF Alive, Types
<1>3. Meets(links', n, m) /\ Meets(links', m, n)
  <2>1. Longer(links, links', n, m, out)
    BY DEF Started
  <2>2. Meets(links', n, m)
    BY <2>1 DEF Longer, Meets
  <2>. QED  BY <1>1, <2>2, MeetsBoth DEF Types
<1>. SUFFICES ASSUME NEW part \in SUBSET Alive', part # {}, part # Alive'
              PROVE  \E i \in part, k \in Alive' \ part : Edge(i, k)'
  BY DEF Conn
<1>. DEFINE Q == part \ {n}
<1>4. Q \in SUBSET Alive
  BY <1>2
<1>5. CASE Q # {} /\ Q # Alive
  <2>1. PICK i \in Q, k \in Alive \ Q : Edge(i, k)
    BY <1>4, <1>5 DEF Conn
  <2>2. i \in part /\ k \in Alive' \ part /\ i \in Node /\ k \in Node
    BY <1>2, <1>4, <2>1 DEF Alive
  <2>. QED  BY <2>1, <2>2, EdgeStays
<1>6. CASE Q = {}
  <2>1. n \in part /\ m \in Alive' \ part
    BY <1>2, <1>6
  <2>. QED  BY <1>3, <2>1 DEF Edge
<1>7. CASE Q = Alive
  <2>1. m \in part /\ n \in Alive' \ part
    BY <1>2, <1>7
  <2>. QED  BY <1>3, <2>1 DEF Edge
<1>. QED  BY <1>5, <1>6, <1>7

\* Who takes part changes when a server joins, and when it begins to say goodbye.
LEMMA AliveStep ==
    ASSUME TypeInv, Standing, [Next]_vars, Clean'
    PROVE  \/ Alive' = Alive
           \/ \E n \in Node, m \in Node, out \in End : Started(n, m, out)
           \/ \E n \in Node : state[n] = "leaving" /\ (\/ LeaveEnds(n)
                                                      \/ \E e \in peers[n], msg \in Message : Parted(n, e, msg))
<1>1. Types
  BY DEF TypeInv
<1>2. CASE state' = state
  BY <1>2 DEF Alive
<1>3. ASSUME NEW e \in Ends, Accept(e) \/ Listener(e) \/ HearSearch(e) PROVE state' = state
  <2>1. ~NeighborUnknown(e)
    BY DEF NeighborUnknown, ProcessEnds, Clean
  <2>. QED  BY <1>3, <2>1 DEF Accept, Listener, HearSearch, HearConnect, HearDisconnect, HearAddNeighbors,
           KnownNeighbor, NewNeighbor, NeighborAnswers, NeighborRefuses, NeighborPushed
<1>4. ASSUME NEW n \in Node, MonitorFrees(n) \/ MonitorJoins(n) PROVE state' = state
  BY <1>4 DEF MonitorFrees, MonitorJoins
<1>5. ASSUME NEW n \in Node, Leave(n), state[n] # "leaving" PROVE Alive' = Alive
  <2>1. ASSUME NEW e \in peers[n], NEW msg \in Message, Parted(n, e, msg) PROVE Alive' = Alive
    BY <1>1, <1>5, <2>1 DEF Parted, Alive, Types
  <2>2. CASE LeaveEnds(n)
    BY <1>1, <1>5, <2>2 DEF LeaveEnds, ProcessEnds, Alive, Types
  <2>. QED  BY <1>5, <2>1, <2>2, PartEffect DEF Leave
<1>6. ASSUME NEW n \in Node, NEW m \in Joins[n], StartRefused(n, m) PROVE Alive' = Alive
  BY <1>1, <1>6 DEF StartRefused, Alive, Types
<1>7. ASSUME NEW n \in Node, NEW m \in Joins[n], Start(n, m)
      PROVE  \E k \in Node, out \in End : Started(n, k, out)
  <2>1. PICK out \in End : Started(n, m, out)
    BY <1>7, StartEffect
  <2>. QED  BY <2>1 DEF Started
<1>8. ASSUME NEW n \in leavers, Terminate(n) PROVE Alive' = Alive
  BY <1>1, <1>8 DEF Terminate, Alive, Types
<1>9. ASSUME NEW n \in Node, Leave(n)
      PROVE  LeaveEnds(n) \/ \E e \in peers[n], msg \in Message : Parted(n, e, msg)
  BY <1>9, PartEffect DEF Leave
<1>. QED  BY <1>2, <1>3, <1>4, <1>5, <1>6, <1>7, <1>8, <1>9 DEF Next, Threads, World, vars

LEMMA ConnStep ==
    ASSUME TypeInv, TypeInv', Standing, Standing', NamesTrue, Calm, Calm', Has, ConnInv, [Next]_vars
    PROVE  ConnInv'
<1>. SUFFICES ASSUME Clean', ~Doomed' PROVE Conn'
  BY DEF ConnInv
<1>1. Conn
  BY CleanStays, DoomedStays DEF ConnInv
<1>2. CASE Alive' = Alive
  <2>. SUFFICES ASSUME NEW part \in SUBSET Alive, part # {}, part # Alive
                PROVE  \E n \in part, m \in Alive \ part : Edge(n, m)'
    BY <1>2 DEF Conn
  <2>1. PICK n \in part, m \in Alive \ part : Edge(n, m)
    BY <1>1 DEF Conn
  <2>2. n \in Node /\ m \in Node
    BY DEF Alive
  <2>. QED  BY <2>1, <2>2, EdgeStays
<1>3. ASSUME NEW n \in Node, NEW m \in Node, NEW out \in End, Started(n, m, out) PROVE Conn'
  BY <1>1, <1>3, StartConn
<1>4. ASSUME NEW n \in Node, state[n] = "leaving", LeaveEnds(n) PROVE Conn'
  BY <1>1, <1>4, EndConn
<1>5. ASSUME NEW n \in Node, state[n] = "leaving", NEW e \in peers[n], NEW msg \in Message, Parted(n, e, msg)
      PROVE  Conn'
  BY <1>1, <1>5, PartConn
<1>. QED  BY <1>2, <1>3, <1>4, <1>5, AliveStep

LEMMA HasWillReadInit == Init => Has /\ WillRead
<1>. SUFFICES ASSUME Init PROVE Has /\ WillRead
  OBVIOUS
<1>1. Ground /\ Types
  BY TypeInvInit, GroundHolds DEF TypeInv
<1>2. ASSUME NEW e \in In(links) PROVE e \in peers[At(links, e)] /\ chan[e] = <<>>
  <2>1. e \in End /\ At(links, e) \in Node
    BY <1>1 DEF Ground
  <2>. QED  BY <1>1, <2>1, EndsOfFacts DEF Init
<1>. QED  BY <1>2, NoOffers DEF Has, HasEnd, WillRead

LEMMA ConnInit == Init => ConnInv
<1>. SUFFICES ASSUME Init PROVE Conn
  BY DEF ConnInv
<1>1. Ground /\ Types
  BY TypeInvInit, GroundHolds DEF TypeInv
<1>3. PICK o \in Overlays :
         links = o.links /\ state = [n \in Node |-> IF n \in o.up THEN "up" ELSE "down"]
  BY DEF Init
<1>. DEFINE all == o.up
<1>2. Alive = all
  BY <1>3, OverlayAssumption DEF Alive
<1>4. /\ \A l \in 1..Len(links) : links[l][1] \in all /\ links[l][2] \in all
      /\ \A part \in SUBSET all :
            \/ part = {} \/ part = all
            \/ \E l \in 1..Len(links) : links[l][1] \in part <=> links[l][2] \notin part
  <2>1. /\ \A l \in 1..Len(o.links) : o.links[l][1] \in all /\ o.links[l][2] \in all
        /\ \A part \in SUBSET all :
              \/ part = {} \/ part = all
              \/ \E l \in 1..Len(o.links) : o.links[l][1] \in part <=> o.links[l][2] \notin part
    BY StartAssumption
  <2>2. \A l \in 1..Len(links) : links[l][1] \in Node /\ links[l][2] \in Node
    BY <1>1 DEF Types
  <2>. QED  BY <1>3, <2>1, <2>2
<1>5. ASSUME NEW l \in 1..Len(links)
      PROVE  Meets(links, links[l][1], links[l][2]) /\ Meets(links, links[l][2], links[l][1])
  <2>1. <<l, "out">> \in In(links) /\ Other(<<l, "out">>) = <<l, "in">>
    BY <1>1, OverlayAssumption DEF In, End, Other, Types
  <2>2. Meets(links, links[l][1], links[l][2])
    BY <2>1 DEF Meets, At
  <2>. QED  BY <1>1, <2>2, MeetsBoth DEF Types
<1>. SUFFICES ASSUME NEW part \in SUBSET Alive, part # {}, part # Alive
              PROVE  \E n \in part, m \in Alive \ part : Edge(n, m)
  BY DEF Conn
<1>6. PICK l \in 1..Len(links) : links[l][1] \in part <=> links[l][2] \notin part
  BY <1>2, <1>4
<1>7. links[l][1] \in Alive /\ links[l][2] \in Alive
  BY <1>2, <1>4
<1>. QED  BY <1>5, <1>6, <1>7 DEF Edge

\* What makes the overlay stay connected, in one invariant.
Joined == Calm /\ Has /\ WillRead /\ ConnInv

LEMMA JoinedStep ==
    /\ TypeInv /\ TypeInv' /\ Standing /\ Standing' /\ Talk /\ Spareness /\ Joined /\ [Next]_vars
    => Joined'
BY CalmStep, HasStep, WillReadStep, ConnStep DEF Joined, Spareness

LEMMA JoinedHolds == Spec => []Joined
<1>1. Init => Joined
  BY CalmInit, HasWillReadInit, ConnInit DEF Joined
<1>. QED  BY <1>1, JoinedStep, TypeInvHolds, StandingHolds, TalkHolds, SparenessHolds, PTL DEF Spec

\* When nobody is leaving and nothing is left to do, no name is wanted by anybody.
LEMMA NothingWanted ==
    ASSUME TypeInv, Standing, Calm, WillRead, Quiet, Clean, NEW e \in In(links)
    PROVE  \A m : ~Wanted(e, m)
<1>1. Ground /\ Types /\ e \in End /\ At(links, e) \in Node
  BY GroundHolds DEF TypeInv, Ground
<1>2. state[At(links, e)] \in {"up", "gone"}
  BY <1>1 DEF Quiet, Standing, Owned
<1>3. CASE state[At(links, e)] = "gone"
  <2>1. chan[e] = <<>> /\ thread[e] = "ended"
    BY <1>1, <1>3 DEF Calm, GoneSilent, Standing, GoneEnded
  <2>. QED  BY <2>1, NoOffers DEF Wanted, AddThreads
<1>4. CASE state[At(links, e)] = "up"
  <2>1. \A x \in In(links) : At(links, x) = At(links, e) => ~Adding(x) /\ thread[x] # "backlog"
    BY <1>1, <1>4, EndsOfFacts DEF Quiet, Up, Ground
  <2>2. thread[e] = "reads" => chan[e] = <<>>
    BY <1>1, <1>4, EndsOfFacts DEF Quiet, Up
  <2>3. ~Pushed(e)
    <3>1. ASSUME NEW x \in End, thread[x] = "pushes", now[x] = e PROVE FALSE
      <4>1. x \in In(links) /\ At(links, x) = At(links, e)
        BY <3>1 DEF TypeInv, Pushing, Unmade
      <4>. QED  BY <2>1, <3>1, <4>1 DEF Adding
    <3>. QED  BY <3>1 DEF Pushed
  <2>4. ~TellsNames(chan[e])
    BY <1>4, <2>1, <2>2, <2>3, NoOffers DEF WillRead
  <2>. QED  BY <2>1, <2>4 DEF Wanted, AddThreads, Adding, TellsNames, Offers
<1>. QED  BY <1>2, <1>3, <1>4

LEMMA JoinedStays == TypeInv /\ Standing /\ Joined => StaysConnected
<1>. SUFFICES ASSUME TypeInv, Standing, Joined, Quiet, Clean PROVE OnePart
  BY DEF StaysConnected
<1>1. Ground /\ Types
  BY GroundHolds DEF TypeInv
<1>2. Alive = Up
  BY DEF Alive, Up, Quiet
<1>3. \A e \in In(links) : \A m : ~Wanted(e, m)
  BY NothingWanted DEF Joined
<1>4. ~Doomed
  <2>1. \A e \in In(links) : state[At(links, e)] # "closing"
    BY <1>1 DEF Quiet, Ground
  <2>. QED  BY <1>3, <2>1 DEF Doomed
<1>5. Conn
  BY <1>4 DEF Joined, ConnInv
<1>6. ASSUME NEW n \in Up, NEW y \in In(links), At(links, y) = n, At(links, Other(y)) \in Up
      PROVE  y \in peers[n]
  <2>1. n \in Node /\ y \in End
    BY <1>1 DEF Up, Ground
  <2>2. HasEnd(y)
    BY <1>2, <1>6 DEF Joined, Has
  <2>3. \A x \in In(links) : At(links, x) = n => ~Adding(x) /\ thread[x] # "backlog"
    BY <1>1, <2>1, EndsOfFacts DEF Quiet, Ground
  <2>4. ~Pushed(y)
    <3>1. ASSUME NEW x \in End, thread[x] = "pushes", now[x] = y PROVE FALSE
      <4>1. x \in In(links) /\ At(links, x) = n
        BY <1>6, <3>1 DEF TypeInv, Pushing, Unmade
      <4>. QED  BY <2>3, <3>1, <4>1 DEF Adding
    <3>. QED  BY <3>1 DEF Pushed
  <2>. QED  BY <1>6, <2>2, <2>3, <2>4 DEF HasEnd
<1>7. ASSUME NEW n \in Up, NEW m \in Up, Edge(n, m) PROVE Linked(n, m)
  <2>1. PICK y \in In(links) : At(links, y) = n /\ At(links, Other(y)) = m
    BY <1>3, <1>7 DEF Edge, Meets
  <2>2. /\ Other(y) \in In(links) /\ Other(Other(y)) = y
        /\ Owner(Other(y)) = m
    BY <1>1, <2>1 DEF Ground, Owner, At
  <2>3. y \in peers[n] /\ Other(y) \in peers[m]
    BY <1>6, <2>1, <2>2
  <2>. QED  BY <2>2, <2>3 DEF Linked
<1>. SUFFICES ASSUME NEW part \in SUBSET Up, part # {},
                     \A n \in part, m \in Up : Linked(n, m) => m \in part
              PROVE  part = Up
  BY DEF OnePart
<1>. QED  BY <1>2, <1>5, <1>7 DEF Conn

\* Peers may join and leave at the same time: when nobody is leaving any more, nothing
\* is left to read or to connect, and none of the six events happened, the servers
\* that remain are one connected overlay, each connection listed by both its ends
\* (terminate_server, disconnect_all_peers, add_neighbors: p2p-server.cpp:187-204, 402-437).
THEOREM OverlayStaysConnected == Spec => []StaysConnected
BY TypeInvHolds, StandingHolds, JoinedHolds, JoinedStays, PTL

=============================================================================
