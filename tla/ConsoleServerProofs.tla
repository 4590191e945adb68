------------------------ MODULE ConsoleServerProofs -------------------------
(***************************************************************************)
(* What TLAPS proves of ConsoleServer, for every value of its constants.    *)
(***************************************************************************)
EXTENDS ConsoleServer, TLAPS

USE DEF world, engine, cache, tally, tunnels, history, vars

ConnSet == [to : Nat \cup {Stream}, tunnel : Nat, via : Nat]
UrlSet  == [subscriber : BOOLEAN, tunnel : Nat]

Ats   == {"idle", "readUrl", "forwardUrl", "lookup", "forward", "drain", "take", "remake"}
Kinds == {"none", "urls", "query", "change"}
Jobs  == [at : Ats, kind : Kinds, branch : Branches, got : Nat,
          waited : BOOLEAN]

TypeOK ==
  /\ streaming \in BOOLEAN /\ canTunnel \in BOOLEAN /\ missed \in BOOLEAN
  /\ clone \in [Branches -> Nat]
  /\ made \in Nat
  /\ conns \in [Branches -> ConnSet \cup {NoConn}]
  /\ urls \in UrlSet \cup {Unset}
  /\ opened \in Nat
  /\ alive \subseteq 1 .. opened
  /\ streamTunnels \subseteq 1 .. opened
  /\ strays \subseteq 1 .. opened
  /\ phase \in {"up", "closing", "stopping", "closed"}
  /\ job \in [Actors -> Jobs]
  /\ crowded \subseteq Branches

LEMMA IdleTyped == Idle \in Jobs
  BY ConsoleConstantsOK DEF Idle, Jobs, Ats, Kinds

LEMMA GotoTyped ==
  ASSUME TypeOK, NEW a \in Actors, NEW label \in Ats, Goto(a, label)
  PROVE  job' \in [Actors -> Jobs]
  BY DEF TypeOK, Jobs, Goto

LEMMA DoneTyped ==
  ASSUME TypeOK, NEW a \in Actors, Done(a)
  PROVE  job' \in [Actors -> Jobs]
  BY IdleTyped DEF TypeOK, Done

LEMMA StartTyped ==
  ASSUME TypeOK, NEW a \in Actors, NEW waited \in BOOLEAN, NEW label \in Ats,
         NEW kind \in Kinds, NEW b \in Branches, NEW got \in Nat,
         Starts(a, waited, label, kind, b, got)
  PROVE  job' \in [Actors -> Jobs]
<1>1. [at |-> label, kind |-> kind, branch |-> b, got |-> got, waited |-> waited]
        \in Jobs
  BY DEF Jobs
<1> QED
  BY <1>1 DEF TypeOK, Starts

LEMMA JobsStep ==
  ASSUME TypeOK, [Next]_vars
  PROVE  job' \in [Actors -> Jobs]
<1>1. ASSUME NEW a \in Actors, NEW known, Resolved(a, known)
      PROVE  job' \in [Actors -> Jobs]
  BY <1>1, GotoTyped, DoneTyped DEF Resolved, ToStream, Ats
<1>2. ASSUME NEW a \in Actors, ReadUrl(a) \/ ForwardUrl(a)
      PROVE  job' \in [Actors -> Jobs]
  BY <1>1, <1>2, GotoTyped DEF ReadUrl, ForwardUrl, Ats
<1>3. ASSUME NEW a \in Actors, FindClone(a) PROVE job' \in [Actors -> Jobs]
  <2>1. clone[job[a].branch] \in Nat
    BY DEF TypeOK, Jobs
  <2>2. [job[a] EXCEPT !.at = "forward", !.got = clone[job[a].branch]] \in Jobs
    BY <2>1 DEF TypeOK, Jobs, Ats
  <2>3. CASE job' = [job EXCEPT ![a].at = "forward", ![a].got = clone[job[a].branch]]
    BY <2>2, <2>3 DEF TypeOK
  <2> QED
    BY <1>3, <2>3, DoneTyped DEF FindClone
<1>4. ASSUME NEW a \in Actors, Forward(a) PROVE job' \in [Actors -> Jobs]
  BY <1>4, DoneTyped DEF Forward
<1>5. ASSUME NEW a \in Actors, Drain(a) PROVE job' \in [Actors -> Jobs]
  <2>1. [job[a] EXCEPT !.at = "take", !.got = 0] \in Jobs
    BY DEF TypeOK, Jobs, Ats
  <2> QED
    BY <1>5, <2>1 DEF Drain, TypeOK
<1>6. ASSUME NEW a \in Actors, Take(a) \/ Remake(a) PROVE job' \in [Actors -> Jobs]
  BY <1>6, GotoTyped, DoneTyped DEF Take, Remake, Ats
<1>7. ASSUME NEW a \in Actors, HangUp(a) PROVE job' \in [Actors -> Jobs]
  BY <1>7 DEF HangUp, TypeOK, Jobs
<1>8. ASSUME NEW a \in Actors, LookupUrls(a) PROVE job' \in [Actors -> Jobs]
  <2>1. /\ Serving \in BOOLEAN /\ 0 \in Nat /\ Live \in Branches
        /\ "readUrl" \in Ats /\ "urls" \in Kinds
    BY ConsoleConstantsOK DEF Serving, Ats, Kinds
  <2> QED
    BY <1>8, <2>1, StartTyped DEF LookupUrls
<1>9. ASSUME NEW a \in Actors, NEW b \in Branches, Query(a, b)
      PROVE  job' \in [Actors -> Jobs]
  <2>1. /\ {"readUrl", "lookup"} \subseteq Ats /\ "query" \in Kinds
        /\ 0 \in Nat /\ TRUE \in BOOLEAN
    BY DEF Ats, Kinds
  <2>2. \/ Starts(a, TRUE, "readUrl", "query", b, 0)
        \/ Starts(a, TRUE, "lookup", "query", b, 0)
        \/ Done(a)
    BY <1>9 DEF Query, ToStream
  <2> QED
    BY <2>1, <2>2, StartTyped, DoneTyped
<1>10. ASSUME NEW a \in Actors, NEW b \in Branches, Change(a, b)
       PROVE  job' \in [Actors -> Jobs]
  <2>1. /\ {"take", "drain"} \subseteq Ats /\ 0 \in Nat
        /\ "change" \in Kinds /\ TRUE \in BOOLEAN
    BY DEF Ats, Kinds
  <2>2. conns[b] # NoConn => conns[b].tunnel \in Nat
    BY DEF TypeOK, ConnSet
  <2>3. \/ Starts(a, TRUE, "take", "change", b, 0)
        \/ conns[b] # NoConn /\ Starts(a, TRUE, "drain", "change", b, conns[b].tunnel)
    BY <1>10 DEF Change
  <2> QED
    BY <2>1, <2>2, <2>3, StartTyped
<1>11. CASE \/ \E b \in Branches : Elsewhere(b)
            \/ \E t \in alive : Dies(t)
            \/ Close \/ Clear \/ CloseSession \/ UNCHANGED vars
  BY <1>11 DEF Elsewhere, Dies, Close, Clear, CloseSession, TypeOK
<1> QED
  BY <1>2, <1>3, <1>4, <1>5, <1>6, <1>7, <1>8, <1>9, <1>10, <1>11 DEF Next, Step

USE DEF Goto, Done, Starts

LEMMA InitTyped == Init => TypeOK
<1> SUFFICES ASSUME Init PROVE TypeOK
  OBVIOUS
<1>1. job \in [Actors -> Jobs]
  BY IdleTyped DEF Init
<1>2. /\ conns \in [Branches -> ConnSet \cup {NoConn}]
      /\ clone \in [Branches -> Nat]
  BY DEF Init
<1> QED
  BY <1>1, <1>2 DEF Init, TypeOK

LEMMA Resolving ==
  ASSUME TypeOK, NEW a \in Actors, NEW known \in UrlSet, Resolved(a, known)
  PROVE  /\ urls' \in UrlSet \cup {Unset}
         /\ conns' \in [Branches -> ConnSet \cup {NoConn}]
<1>1. Conn(Stream, 0, known.tunnel) \in ConnSet
  BY DEF Conn, ConnSet, UrlSet
<1> QED
  BY <1>1 DEF Resolved, ToStream, TypeOK

LEMMA Opening ==
  ASSUME TypeOK, NEW a \in Actors, OpensTunnel(a)
  PROVE  /\ opened' = opened + 1 /\ opened' \in Nat
         /\ alive' = alive \cup {opened'}
         /\ alive' \subseteq 1 .. opened'
         /\ streamTunnels \cup {opened'} \subseteq 1 .. opened'
         /\ strays' \subseteq 1 .. opened'
         /\ opened' \notin alive /\ opened' \notin streamTunnels /\ opened' # 0
<1>1. 1 .. opened \subseteq 1 .. opened + 1 /\ opened + 1 \in 1 .. opened + 1
  BY DEF TypeOK
<1> QED
  BY <1>1 DEF TypeOK, OpensTunnel

LEMMA TypedStep == TypeOK /\ [Next]_vars => TypeOK'
<1> SUFFICES ASSUME TypeOK, [Next]_vars PROVE TypeOK'
  OBVIOUS
<1>0. job' \in [Actors -> Jobs]
  BY JobsStep
<1> USE <1>0, ConsoleConstantsOK DEF TypeOK
<1>1. ASSUME NEW a \in Actors, ReadUrl(a) PROVE TypeOK'
  <2>1. NoStream \in UrlSet /\ [subscriber |-> streaming, tunnel |-> 0] \in UrlSet
    BY DEF NoStream, UrlSet
  <2>2. missed' \in BOOLEAN
    BY <1>1 DEF ReadUrl
  <2>3. /\ urls' \in UrlSet \cup {Unset}
        /\ conns' \in [Branches -> ConnSet \cup {NoConn}]
    BY <1>1, <2>1, Resolving DEF ReadUrl
  <2> QED
    BY <1>1, <2>2, <2>3 DEF ReadUrl
<1>2. ASSUME NEW a \in Actors, ForwardUrl(a) PROVE TypeOK'
  <2>1. CASE OpensTunnel(a)
    <3>1. [subscriber |-> TRUE, tunnel |-> opened'] \in UrlSet
      BY <2>1, Opening DEF UrlSet
    <3>2. streamTunnels' \subseteq 1 .. opened'
      BY <1>2, <2>1, Opening DEF ForwardUrl
    <3> QED
      BY <1>2, <2>1, <3>1, <3>2, Opening, Resolving DEF ForwardUrl
  <2>2. CASE UNCHANGED tunnels
    <3>1. [subscriber |-> TRUE, tunnel |-> 0] \in UrlSet
      BY DEF UrlSet
    <3> QED
      BY <1>2, <2>2, <3>1, Resolving, Opening DEF ForwardUrl
  <2> QED
    BY <1>2, <2>1, <2>2 DEF ForwardUrl
<1>3. ASSUME NEW a \in Actors, FindClone(a) PROVE TypeOK'
  <2>1. job[a].branch \in Branches
    BY DEF Jobs
  <2>2. Conn(clone[job[a].branch], 0, 0) \in ConnSet
    BY <2>1 DEF Conn, ConnSet
  <2>3. conns' \in [Branches -> ConnSet \cup {NoConn}]
    BY <1>3, <2>2 DEF FindClone
  <2> QED
    BY <1>3, <2>3 DEF FindClone
<1>4. ASSUME NEW a \in Actors, Forward(a) PROVE TypeOK'
  <2>1. CASE OpensTunnel(a)
    <3>1. job[a].got \in Nat
      BY DEF Jobs
    <3>2. Conn(job[a].got, opened', opened') \in ConnSet
      BY <2>1, <3>1, Opening DEF Conn, ConnSet
    <3> QED
      BY <1>4, <2>1, <3>2, Opening DEF Forward
  <2>2. CASE UNCHANGED <<conns, alive, opened, strays>>
    BY <1>4, <2>2 DEF Forward
  <2> QED
    BY <1>4, <2>1, <2>2 DEF Forward
<1>5. ASSUME NEW a \in Actors, Drain(a) PROVE TypeOK'
  BY <1>5 DEF Drain
<1>6. ASSUME NEW a \in Actors, Take(a) PROVE TypeOK'
  <2>1. job[a].branch \in Branches
    BY DEF Jobs
  <2> QED
    BY <1>6, <2>1 DEF Take, Crowds
<1>7. ASSUME NEW a \in Actors, Remake(a) PROVE TypeOK'
  BY <1>7 DEF Remake
<1>8. ASSUME NEW a \in Actors, LookupUrls(a) PROVE TypeOK'
  BY <1>8 DEF LookupUrls
<1>9. ASSUME NEW a \in Actors, NEW b \in Branches, Query(a, b) PROVE TypeOK'
  BY <1>9 DEF Query, ToStream, Conn, ConnSet, UrlSet
<1>10. ASSUME NEW a \in Actors, NEW b \in Branches, Change(a, b) PROVE TypeOK'
  BY <1>10 DEF Change
<1>11. ASSUME NEW b \in Branches, Elsewhere(b) PROVE TypeOK'
  BY <1>11 DEF Elsewhere, Crowds
<1>12. ASSUME NEW t \in alive, Dies(t) PROVE TypeOK'
  BY <1>12 DEF Dies
<1>13. CASE Close \/ Clear \/ CloseSession \/ UNCHANGED vars
  BY <1>13 DEF Close, Clear, CloseSession
<1>14. ASSUME NEW a \in Actors, HangUp(a) PROVE TypeOK'
  BY <1>14 DEF HangUp
<1> QED
  BY <1>1, <1>2, <1>3, <1>4, <1>5, <1>6, <1>7, <1>8, <1>9, <1>10, <1>11, <1>12,
     <1>13, <1>14 DEF Next, Step

\* The actions, one by one.
LEMMA NextCases ==
  ASSUME [Next]_vars
  PROVE  \/ \E a \in Actors : \/ ReadUrl(a) \/ ForwardUrl(a) \/ FindClone(a)
                              \/ Forward(a) \/ Drain(a) \/ Take(a) \/ Remake(a)
                              \/ HangUp(a)
         \/ \E a \in Actors : LookupUrls(a)
         \/ \E a \in Actors, b \in Branches : Query(a, b) \/ Change(a, b)
         \/ \E b \in Branches : Elsewhere(b)
         \/ \E t \in alive : Dies(t)
         \/ Close \/ Clear \/ CloseSession \/ UNCHANGED vars
  BY DEF Next, Step

LEMMA Typed == Spec => []TypeOK
  BY InitTyped, TypedStep, PTL DEF Spec

-----------------------------------------------------------------------------
(* The clones that connections reach *)

\* A connection, or a request that is about to make one, has the present clone
\* of its branch unless the clone was changed beside it; clone 0 is never found.
CloneInv ==
  /\ \A b \in Branches :
       conns[b] # NoConn /\ conns[b].to # Stream =>
         conns[b].to # 0 /\ (b \notin crowded => conns[b].to = clone[b])
  /\ \A a \in Actors :
       job[a].at = "forward" =>
         job[a].got # 0 /\ (job[a].branch \notin crowded => job[a].got = clone[job[a].branch])

LEMMA CloneInvStep ==
  ASSUME TypeOK, CloneInv, [Next]_vars
  PROVE  CloneInv'
<1> USE ConsoleConstantsOK DEF TypeOK, CloneInv, Jobs, Idle
<1>1. ASSUME NEW a \in Actors, ReadUrl(a) \/ ForwardUrl(a) PROVE CloneInv'
  BY <1>1 DEF ReadUrl, ForwardUrl, Resolved, ToStream, Conn
<1>2. ASSUME NEW a \in Actors, FindClone(a) PROVE CloneInv'
  BY <1>2 DEF FindClone, Conn
<1>3. ASSUME NEW a \in Actors, Forward(a) PROVE CloneInv'
  BY <1>3 DEF Forward, Conn
<1>4. ASSUME NEW a \in Actors, Drain(a) PROVE CloneInv'
  BY <1>4 DEF Drain
<1>5. ASSUME NEW a \in Actors, Take(a) PROVE CloneInv'
  BY <1>5 DEF Take, Crowds, LookedUp
<1>6. ASSUME NEW a \in Actors, Remake(a) PROVE CloneInv'
  BY <1>6 DEF Remake
<1>7. ASSUME NEW a \in Actors, LookupUrls(a) PROVE CloneInv'
  BY <1>7 DEF LookupUrls
<1>8. ASSUME NEW a \in Actors, NEW b \in Branches, Query(a, b) PROVE CloneInv'
  BY <1>8 DEF Query, ToStream, Conn
<1>9. ASSUME NEW a \in Actors, NEW b \in Branches, Change(a, b) PROVE CloneInv'
  BY <1>9 DEF Change, LookedUp
<1>10. ASSUME NEW b \in Branches, Elsewhere(b) PROVE CloneInv'
  BY <1>10 DEF Elsewhere, Crowds, LookedUp
<1>11. ASSUME NEW t \in alive, Dies(t) PROVE CloneInv'
  BY <1>11 DEF Dies
<1>12. CASE Close \/ Clear \/ CloseSession \/ UNCHANGED vars
  BY <1>12 DEF Close, Clear, CloseSession
<1>13. ASSUME NEW a \in Actors, HangUp(a) PROVE CloneInv'
  BY <1>13 DEF HangUp
<1> QED
  BY <1>1, <1>2, <1>3, <1>4, <1>5, <1>6, <1>7, <1>8, <1>9, <1>10, <1>11, <1>12,
     <1>13, NextCases

\* A cached connection reaches its branch's present clone, unless the clone was
\* changed elsewhere or beside another request's connection (server.ts:236-248,
\* 474-480).
THEOREM ConnectionsReachTheirClone == Spec => []ReachesItsClone
<1>1. Init => CloneInv
  BY DEF Init, CloneInv, Idle
<1>2. CloneInv => ReachesItsClone
  BY DEF CloneInv, ReachesItsClone
<1> QED
  BY <1>1, <1>2, CloneInvStep, Typed, PTL DEF Spec

-----------------------------------------------------------------------------
(* The live branch *)

\* Where the stream is configured and nothing failed, the URLs that are known
\* name it, and no request of the live branch is on its way to a clone.
LiveInv ==
  streaming /\ ~missed =>
    /\ conns[Live] = NoConn \/ conns[Live].to = Stream
    /\ urls = Unset \/ urls.subscriber
    /\ \A a \in Actors : job[a].at \in {"lookup", "forward"} => job[a].branch # Live

LEMMA LiveInvStep ==
  ASSUME TypeOK, LiveInv, [Next]_vars
  PROVE  LiveInv'
<1> USE ConsoleConstantsOK DEF TypeOK, LiveInv, Jobs, Idle
<1>1. ASSUME NEW a \in Actors, ReadUrl(a) PROVE LiveInv'
  BY <1>1 DEF ReadUrl, Resolved, ToStream, Conn
<1>2. ASSUME NEW a \in Actors, ForwardUrl(a) PROVE LiveInv'
  BY <1>2 DEF ForwardUrl, Resolved, ToStream, Conn
<1>3. ASSUME NEW a \in Actors, FindClone(a) PROVE LiveInv'
  BY <1>3 DEF FindClone, Conn
<1>11. ASSUME NEW a \in Actors, Forward(a) PROVE LiveInv'
  BY <1>11 DEF Forward, Conn
<1>4. ASSUME NEW a \in Actors, Drain(a) PROVE LiveInv'
  BY <1>4 DEF Drain
<1>13. ASSUME NEW a \in Actors, Remake(a) PROVE LiveInv'
  BY <1>13 DEF Remake
<1>12. ASSUME NEW a \in Actors, Take(a) PROVE LiveInv'
  BY <1>12 DEF Take
<1>5. ASSUME NEW a \in Actors, LookupUrls(a) PROVE LiveInv'
  BY <1>5 DEF LookupUrls
<1>6. ASSUME NEW a \in Actors, NEW b \in Branches, Query(a, b) PROVE LiveInv'
  BY <1>6 DEF Query, ToStream, Conn
<1>7. ASSUME NEW a \in Actors, NEW b \in Branches, Change(a, b) PROVE LiveInv'
  BY <1>7 DEF Change
<1>8. ASSUME NEW t \in alive, Dies(t) PROVE LiveInv'
  BY <1>8 DEF Dies
<1>9. ASSUME NEW b \in Branches, Elsewhere(b) PROVE LiveInv'
  BY <1>9 DEF Elsewhere
<1>10. CASE Close \/ Clear \/ CloseSession \/ UNCHANGED vars
  BY <1>10 DEF Close, Clear, CloseSession
<1>14. ASSUME NEW a \in Actors, HangUp(a) PROVE LiveInv'
  BY <1>14 DEF HangUp
<1> QED
  BY <1>1, <1>2, <1>3, <1>4, <1>5, <1>6, <1>7, <1>8, <1>9, <1>10, <1>11, <1>12,
     <1>13, <1>14, NextCases

\* Where the sync target is configured and no read has failed, queries of the
\* live branch go to it and never to a clone (server.ts:656-673).
THEOREM LiveStaysReadOnly == Spec => []LiveIsReadOnly
<1>1. Init => LiveInv
  BY ConsoleConstantsOK DEF Init, LiveInv, Idle
<1>2. LiveInv => LiveIsReadOnly
  BY DEF LiveInv, LiveIsReadOnly
<1> QED
  BY <1>1, <1>2, LiveInvStep, Typed, PTL DEF Spec

-----------------------------------------------------------------------------
(* Tunnels *)

\* A connection goes through a tunnel that is its own and nobody else's, but for
\* that of the live stream, which goes through one of the URLs; so do the URLs.
\* What a reset or delete is closing is in nobody's hands any more.
TunnelInv ==
  /\ \A b \in Branches : conns[b] # NoConn =>
       /\ \/ conns[b].via = conns[b].tunnel
          \/ b = Live /\ conns[b].tunnel = 0 /\ conns[b].via \in streamTunnels
       /\ conns[b].tunnel \in (0 .. opened) \ streamTunnels
  /\ \A b, d \in Branches :
       b # d /\ conns[b] # NoConn /\ conns[d] # NoConn /\ conns[b].tunnel # 0
         => conns[b].tunnel # conns[d].tunnel
  /\ \A a \in Actors : job[a].at = "drain" /\ job[a].got # 0 =>
       /\ job[a].got \in (1 .. opened) \ streamTunnels
       /\ \A b \in Branches : conns[b] # NoConn => conns[b].tunnel # job[a].got
  /\ urls # Unset => urls.tunnel \in streamTunnels \cup {0}

LEMMA TunnelInvStep ==
  ASSUME TypeOK, TunnelInv, [Next]_vars
  PROVE  TunnelInv'
<1> USE ConsoleConstantsOK DEF TypeOK, TunnelInv, Jobs, Idle, ConnSet
<1>1. ASSUME NEW a \in Actors, ReadUrl(a) PROVE TunnelInv'
  BY <1>1 DEF ReadUrl, Resolved, ToStream, Conn, NoStream
<1>2. ASSUME NEW a \in Actors, ForwardUrl(a) PROVE TunnelInv'
  <2>1. CASE OpensTunnel(a)
    <3> DEFINE known == [subscriber |-> TRUE, tunnel |-> opened']
    <3>1. /\ streamTunnels' = streamTunnels \cup {opened'} /\ Resolved(a, known)
          /\ opened' = opened + 1 /\ opened \in Nat
      BY <1>2, <2>1, Opening DEF ForwardUrl, Resolved
    <3>2. \/ UNCHANGED conns
          \/ conns' = [conns EXCEPT ![Live] = Conn(Stream, 0, opened')]
      BY <3>1 DEF Resolved, ToStream
    <3>3. \A d \in Actors : job'[d].at = "drain" => job[d] = job'[d]
      BY <3>1 DEF Resolved, ToStream
    <3>4. urls'.tunnel \in streamTunnels'
      BY <3>1 DEF Resolved
    <3> QED
      BY <3>1, <3>2, <3>3, <3>4, SMTT(30) DEF Conn
  <2>2. CASE UNCHANGED tunnels
    BY <1>2, <2>2, SMTT(30) DEF ForwardUrl, Resolved, ToStream, Conn
  <2> QED
    BY <1>2, <2>1, <2>2 DEF ForwardUrl
<1>3. ASSUME NEW a \in Actors, FindClone(a) PROVE TunnelInv'
  BY <1>3, SMTT(30) DEF FindClone, Conn
<1>4. ASSUME NEW a \in Actors, Forward(a) PROVE TunnelInv'
  BY <1>4, Opening, SMTT(30) DEF Forward, Conn
<1>5. ASSUME NEW a \in Actors, Drain(a) PROVE TunnelInv'
  BY <1>5 DEF Drain
<1>6. ASSUME NEW a \in Actors, Take(a) PROVE TunnelInv'
  BY <1>6 DEF Take
<1>7. ASSUME NEW a \in Actors, Remake(a) PROVE TunnelInv'
  BY <1>7 DEF Remake
<1>8. ASSUME NEW a \in Actors, LookupUrls(a) PROVE TunnelInv'
  BY <1>8 DEF LookupUrls
<1>9. ASSUME NEW a \in Actors, NEW b \in Branches, Query(a, b) PROVE TunnelInv'
  BY <1>9, SMTT(30) DEF Query, ToStream, Conn
<1>10. ASSUME NEW a \in Actors, NEW b \in Branches, Change(a, b) PROVE TunnelInv'
  BY <1>10, SMTT(30) DEF Change
<1>11. ASSUME NEW t \in alive, Dies(t) PROVE TunnelInv'
  BY <1>11 DEF Dies
<1>12. CASE Close \/ Clear \/ CloseSession \/ UNCHANGED vars
  BY <1>12 DEF Close, Clear, CloseSession
<1>13. ASSUME NEW b \in Branches, Elsewhere(b) PROVE TunnelInv'
  BY <1>13 DEF Elsewhere
<1>14. ASSUME NEW a \in Actors, HangUp(a) PROVE TunnelInv'
  BY <1>14 DEF HangUp
<1> QED
  BY <1>1, <1>2, <1>3, <1>4, <1>5, <1>6, <1>7, <1>8, <1>9, <1>10, <1>11, <1>12,
     <1>13, <1>14, NextCases

LEMMA DialableStep ==
  ASSUME TypeOK, TunnelInv, CachedIsDialable, [Next]_vars
  PROVE  CachedIsDialable'
<1> USE ConsoleConstantsOK
    DEF TypeOK, TunnelInv, CachedIsDialable, Runs, Jobs, Idle, ConnSet
<1>1. ASSUME NEW a \in Actors, ReadUrl(a) PROVE CachedIsDialable'
  BY <1>1 DEF ReadUrl, Resolved, ToStream, Conn, NoStream
<1>2. ASSUME NEW a \in Actors, ForwardUrl(a) PROVE CachedIsDialable'
  BY <1>2, Opening DEF ForwardUrl, Resolved, ToStream, Conn
<1>3. ASSUME NEW a \in Actors, FindClone(a) PROVE CachedIsDialable'
  BY <1>3 DEF FindClone, Conn
<1>4. ASSUME NEW a \in Actors, Forward(a) PROVE CachedIsDialable'
  BY <1>4, Opening DEF Forward, Conn
<1>5. ASSUME NEW a \in Actors, Drain(a) PROVE CachedIsDialable'
  BY <1>5 DEF Drain
<1>6. ASSUME NEW a \in Actors, Take(a) PROVE CachedIsDialable'
  BY <1>6 DEF Take
<1>7. ASSUME NEW a \in Actors, Remake(a) PROVE CachedIsDialable'
  BY <1>7 DEF Remake
<1>8. ASSUME NEW a \in Actors, LookupUrls(a) PROVE CachedIsDialable'
  BY <1>8 DEF LookupUrls
<1>9. ASSUME NEW a \in Actors, NEW b \in Branches, Query(a, b) PROVE CachedIsDialable'
  BY <1>9 DEF Query, ToStream, Conn
<1>10. ASSUME NEW a \in Actors, NEW b \in Branches, Change(a, b) PROVE CachedIsDialable'
  BY <1>10 DEF Change
<1>11. ASSUME NEW t \in alive, Dies(t) PROVE CachedIsDialable'
  <2>1. CASE t \in streamTunnels
    BY <1>11, <2>1 DEF Dies
  <2>2. CASE t \notin streamTunnels
    BY <1>11, <2>2 DEF Dies
  <2> QED
    BY <2>1, <2>2
<1>12. CASE Close \/ Clear \/ CloseSession \/ UNCHANGED vars
  BY <1>12 DEF Close, Clear, CloseSession
<1>13. ASSUME NEW b \in Branches, Elsewhere(b) PROVE CachedIsDialable'
  BY <1>13 DEF Elsewhere
<1>14. ASSUME NEW a \in Actors, HangUp(a) PROVE CachedIsDialable'
  BY <1>14 DEF HangUp
<1> QED
  BY <1>1, <1>2, <1>3, <1>4, <1>5, <1>6, <1>7, <1>8, <1>9, <1>10, <1>11, <1>12,
     <1>13, <1>14, NextCases

\* While the console is up the tunnel of every cached connection, and of the
\* cached URLs, runs (server.ts:279-291, 678-690).
THEOREM CachedStaysDialable == Spec => []CachedIsDialable
<1>1. Init => TunnelInv /\ CachedIsDialable
  BY DEF Init, TunnelInv, CachedIsDialable, Idle
<1>2. TypeOK /\ TunnelInv /\ CachedIsDialable /\ [Next]_vars
        => TunnelInv' /\ CachedIsDialable'
  BY TunnelInvStep, DialableStep
<1> QED
  BY <1>1, <1>2, Typed, PTL DEF Spec

\* A tunnel that ends takes no connection out of the cache but those that go
\* through it, and, where it was one of the URLs', Live's, which may work
\* (server.ts:284-287, 683-689).
THEOREM WorkingConnectionsStay == Spec => WorkingConnectionStays
<1>1. ASSUME TypeOK, TunnelInv, [Next]_vars, NEW b \in Branches
      PROVE  LeavesRightly(b)
  <2> DEFINE Ended == conns[b].via \notin alive' \cup {0}
             Excused == Ended \/ (b = Live /\ UrlTunnelEnds)
  <2> SUFFICES ASSUME conns[b] # NoConn, conns'[b] = NoConn
               PROVE  phase # "up" \/ Excused \/ Dropped(b)
    BY DEF LeavesRightly
  <2> USE <1>1, ConsoleConstantsOK DEF TypeOK, ConnSet, UrlSet
  <2>1. ASSUME NEW a \in Actors, ReadUrl(a) \/ ForwardUrl(a) PROVE FALSE
    <3>1. ASSUME NEW known \in UrlSet, Resolved(a, known) PROVE FALSE
      BY <3>1 DEF Resolved, ToStream, Conn
    <3>2. /\ NoStream \in UrlSet
          /\ \A has \in BOOLEAN, n \in Nat : [subscriber |-> has, tunnel |-> n] \in UrlSet
      BY DEF NoStream
    <3>3. ASSUME ReadUrl(a) PROVE FALSE
      BY <3>1, <3>2, <3>3 DEF ReadUrl
    <3>4. ASSUME ForwardUrl(a) PROVE FALSE
      BY <3>1, <3>2, <3>4, Opening DEF ForwardUrl
    <3> QED
      BY <2>1, <3>3, <3>4
  <2>2. ASSUME NEW a \in Actors, FindClone(a) PROVE FALSE
    BY <2>2 DEF FindClone, Conn
  <2>3. ASSUME NEW a \in Actors, Forward(a) PROVE FALSE
    <3>1. job[a].got \in Nat
      BY DEF Jobs
    <3> QED
      BY <2>3, <3>1, Opening DEF Forward, Conn
  <2>4. ASSUME NEW a \in Actors, Drain(a) \/ Take(a) \/ Remake(a) \/ HangUp(a)
        PROVE  FALSE
    BY <2>4 DEF Drain, Take, Remake, HangUp
  <2>5. ASSUME NEW a \in Actors, LookupUrls(a) PROVE FALSE
    BY <2>5 DEF LookupUrls
  <2>6. ASSUME NEW a \in Actors, NEW d \in Branches, Query(a, d) PROVE FALSE
    BY <2>6 DEF Query, ToStream
  <2>7. ASSUME NEW a \in Actors, NEW d \in Branches, Change(a, d) PROVE Dropped(b)
    BY <2>7 DEF Change, Dropped
  <2>8. ASSUME NEW t \in alive, Dies(t)
        PROVE  Excused
    <3>1. CASE t \in streamTunnels
      BY <2>8, <3>1 DEF Dies, UrlTunnelEnds
    <3>2. CASE t \notin streamTunnels
      <4>1. conns[b].tunnel = t /\ t # 0 /\ t \notin alive'
        BY <2>8, <3>2 DEF Dies
      <4>2. conns[b].via = t
        BY <4>1 DEF TunnelInv
      <4> QED
        BY <4>1, <4>2
    <3> QED
      BY <3>1, <3>2
  <2>9. ASSUME NEW d \in Branches, Elsewhere(d) PROVE FALSE
    BY <2>9 DEF Elsewhere
  <2>10. ASSUME Close \/ Clear \/ CloseSession \/ UNCHANGED vars PROVE phase # "up"
    BY <2>10 DEF Close, Clear, CloseSession
  <2> QED
    BY <2>1, <2>2, <2>3, <2>4, <2>5, <2>6, <2>7, <2>8, <2>9, <2>10, NextCases
<1>2. TypeOK /\ TunnelInv /\ [Next]_vars
        => [\A b \in Branches : LeavesRightly(b)]_vars
  BY <1>1
<1>3. Init => TunnelInv
  BY DEF Init, TunnelInv, Idle
<1> QED
  BY <1>2, <1>3, TunnelInvStep, Typed, PTL DEF Spec, WorkingConnectionStays

-----------------------------------------------------------------------------
(* The end of the session *)

\* When the session is closed no job is left that a client waits for, and what
\* still runs was opened since, for nobody.
QuietInv ==
  phase = "closed" => /\ \A a \in Actors : ~job[a].waited
                      /\ alive \subseteq strays

LEMMA QuietInvStep ==
  ASSUME TypeOK, QuietInv, [Next]_vars
  PROVE  QuietInv'
<1> USE ConsoleConstantsOK DEF TypeOK, QuietInv, Jobs, Idle
<1>1. ASSUME NEW a \in Actors, ReadUrl(a) PROVE QuietInv'
  BY <1>1 DEF ReadUrl, Resolved, ToStream
<1>2. ASSUME NEW a \in Actors, ForwardUrl(a) PROVE QuietInv'
  <2>1. ASSUME NEW known, Resolved(a, known), phase = "closed"
        PROVE  \A d \in Actors : ~job'[d].waited
    BY <2>1 DEF Resolved, ToStream
  <2>2. phase = "closed" => alive' \subseteq strays'
    BY <1>2 DEF ForwardUrl, OpensTunnel, Serving
  <2>3. phase = "closed" => \A d \in Actors : ~job'[d].waited
    BY <1>2, <2>1 DEF ForwardUrl
  <2>4. phase' = phase
    BY <1>2 DEF ForwardUrl
  <2> QED
    BY <2>2, <2>3, <2>4
<1>3. ASSUME NEW a \in Actors, FindClone(a) PROVE QuietInv'
  BY <1>3 DEF FindClone
<1>4. ASSUME NEW a \in Actors, Forward(a) PROVE QuietInv'
  <2>1. phase = "closed" => alive' \subseteq strays'
    BY <1>4 DEF Forward, OpensTunnel, Serving
  <2>2. phase = "closed" => \A d \in Actors : ~job'[d].waited
    BY <1>4 DEF Forward
  <2>3. phase' = phase
    BY <1>4 DEF Forward
  <2> QED
    BY <2>1, <2>2, <2>3
<1>5. ASSUME NEW a \in Actors, Drain(a) \/ HangUp(a) PROVE QuietInv'
  BY <1>5 DEF Drain, HangUp
<1>6. ASSUME NEW a \in Actors, Take(a) PROVE QuietInv'
  BY <1>6 DEF Take
<1>7. ASSUME NEW a \in Actors, Remake(a) PROVE QuietInv'
  BY <1>7 DEF Remake
<1>8. ASSUME NEW a \in Actors, LookupUrls(a) PROVE QuietInv'
  BY <1>8 DEF LookupUrls, Serving
<1>9. ASSUME NEW a \in Actors, NEW b \in Branches, Query(a, b) PROVE QuietInv'
  BY <1>9 DEF Query, ToStream, Serving
<1>10. ASSUME NEW a \in Actors, NEW b \in Branches, Change(a, b) PROVE QuietInv'
  BY <1>10 DEF Change, Serving
<1>11. ASSUME NEW t \in alive, Dies(t) PROVE QuietInv'
  BY <1>11 DEF Dies
<1>12. CASE Close \/ Clear \/ CloseSession \/ UNCHANGED vars
  BY <1>12 DEF Close, Clear, CloseSession
<1>13. ASSUME NEW b \in Branches, Elsewhere(b) PROVE QuietInv'
  BY <1>13 DEF Elsewhere
<1> QED
  BY <1>1, <1>2, <1>3, <1>4, <1>5, <1>6, <1>7, <1>8, <1>9, <1>10, <1>11, <1>12,
     <1>13, NextCases

\* When the session is closed, what still runs was opened since by a job that no
\* client waited for: an alert tick, or a request whose client had hung up
\* (server.ts:184-197, console.ts:23-30, context.ts:110-121).
THEOREM ClosedStaysQuiet == Spec => []ClosedIsQuiet
<1>1. Init => QuietInv
  BY DEF Init, QuietInv, Idle
<1>2. QuietInv => ClosedIsQuiet
  BY DEF QuietInv, ClosedIsQuiet
<1> QED
  BY <1>1, <1>2, QuietInvStep, Typed, PTL DEF Spec
=============================================================================
