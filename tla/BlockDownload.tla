--------------------------- MODULE BlockDownload ---------------------------
(***************************************************************************)
(* Which blocks the node is downloading from which peer                    *)
(* (net_processing.cpp): the table of blocks in flight, the handlers of    *)
(* headers, block and compact-block messages that fill and empty it, the   *)
(* choice of the next blocks to fetch, the stalling and timeout rules of   *)
(* SendMessages, and what a disconnection leaves behind.                   *)
(*                                                                         *)
(* One message-handler thread serves the peers in turn: ProcessMessages,   *)
(* then SendMessages, then the next peer.  It holds references on all of   *)
(* them for a whole pass, so a peer is finalised between two passes only.  *)
(* cs_main is released inside a handler only around ProcessNewBlock and    *)
(* ProcessNewBlockHeaders, and no other thread touches this state.         *)
(*                                                                         *)
(* Block validity, the chain and the mempool are reduced to what the       *)
(* download sees of them (ChainState has the rest): a block is known by    *)
(* its header, then stored, then connected or found invalid.  Witnesses    *)
(* are not active, and no peer is a one-shot or a light client.            *)
(***************************************************************************)
EXTENDS Integers, Sequences, FiniteSets

CONSTANTS
    N,                    \* peers are 1..N, in the order of vNodes
    Blocks, Genesis,
    Parent,               \* pprev, on Blocks \ {Genesis}
    Height,               \* nHeight; the work of a chain is its height
    Bad,                  \* blocks that ConnectBlock refuses
    TipOf,                \* the tip of the chain each peer has
    Slow,                 \* peers that may leave a request unanswered
    Outbound,             \* peers this node connected to
    WhitelistedRange,     \* peers whose address may be whitelisted
    Recent,               \* as a tip: within 20 block intervals of now
    Today,                \* as a tip or best header: less than a day old
    BLOCK_DOWNLOAD_WINDOW, MAX_BLOCKS_IN_TRANSIT_PER_PEER, MAX_HEADERS_RESULTS,
    MaxAnnouncements,     \* bound: unrequested announcements of one peer
    NoPeer, NoBlock

Peers == 1..N
Connected == {"connected", "ready"}
NoSource == [peer |-> NoPeer, punish |-> FALSE]

BoolToInt(x) == IF x THEN 1 ELSE 0
Least(a, b) == IF a <= b THEN a ELSE b
\* The i-th smallest of a set of numbers.
Nth(S, i) == CHOOSE x \in S : Cardinality({y \in S : y <= x}) = i

ASSUME BlockDownloadAssumption ==
    /\ N \in Nat /\ NoPeer \notin Peers /\ NoBlock \notin Blocks
    /\ IsFiniteSet(Blocks) /\ Genesis \in Blocks
    /\ Parent \in [Blocks \ {Genesis} -> Blocks]
    /\ Height \in [Blocks -> Nat] /\ Height[Genesis] = 0
    /\ \A b \in Blocks \ {Genesis} : Height[b] = Height[Parent[b]] + 1
    /\ Bad \subseteq Blocks \ {Genesis}
    /\ \A b \in Blocks \ {Genesis} : Parent[b] \notin Bad
    /\ TipOf \in [Peers -> Blocks]
    /\ Slow \subseteq Peers /\ Outbound \subseteq Peers
    /\ WhitelistedRange \subseteq Peers
    /\ Recent \subseteq Blocks /\ Today \subseteq Blocks
    /\ BLOCK_DOWNLOAD_WINDOW \in Nat /\ MAX_HEADERS_RESULTS \in Nat \ {0}
    /\ MAX_BLOCKS_IN_TRANSIT_PER_PEER \in Nat /\ MaxAnnouncements \in Nat

VARIABLES
    table,     \* the blocks in flight: what MarkBlockAs... maintain
    nodes,     \* the rest of every peer's CNodeState
    totals,    \* nPreferredDownload, nSyncStarted
    chain,     \* headers known, blocks stored and found invalid, the tip
    source,    \* mapBlockSource
    turn,      \* the handler: 0 between passes, 2p-1 and 2p at peer p
    todo,      \* blocks a running handler has still to mark as in flight
    owed,      \* what each peer has been asked for and has not answered
    announced, \* announcements each peer has made
    late,      \* peers that owed a message and sent none when last served
    waited,    \* history: peers whose oldest block in flight is overdue
    guilty     \* history: peers that have sent something punishable

vars == <<table, nodes, totals, chain, source, turn, todo, owed, announced,
          late, waited, guilty>>

-----------------------------------------------------------------------------
(* The tree of headers.                                                    *)

\* Every block's ancestors, itself included.
Branch[b \in Blocks] ==
    IF b = Genesis THEN {b} ELSE {b} \cup Branch[Parent[b]]

\* CBlockIndex::GetAncestor
GetAncestor(b, h) == CHOOSE a \in Branch[b] : Height[a] = h

LastCommonAncestor(a, b) ==
    CHOOSE c \in Branch[a] \cap Branch[b] :
        \A e \in Branch[a] \cap Branch[b] : Height[e] <= Height[c]

\* chainActive, and the blocks whose nChainTx is set.
Active == Branch[chain.tip]
Linked(have) == {b \in Blocks : Branch[b] \subseteq have}

IsInitialBlockDownload == chain.tip \notin Today
CanDirectFetch == chain.tip \in Recent

-----------------------------------------------------------------------------
(* The table of blocks in flight.  nDownloadingSince and nStallingSince    *)
(* are kept as what SendMessages asks of them: whether the time allowed    *)
(* since then has run out.  Both callers that insert know the header, so   *)
(* fValidatedHeaders is always true.                                       *)

Times == {"never", "recent", "overdue"}
Partial == {"none", "open", "spent"}
QueuedBlock == [hash : Blocks, partialBlock : Partial]

Erase(s, i) == [j \in 1..(Len(s) - 1) |-> IF j < i THEN s[j] ELSE s[j + 1]]

IndexOf(s, b) == CHOOSE i \in DOMAIN s : s[i].hash = b

\* b is taken off the list of p, and the counters follow.
Unlisted(t, p, b) ==
    [t EXCEPT !.mapBlocksInFlight[b] = NoPeer,
              !.vBlocksInFlight[p] = Erase(@, IndexOf(@, b)),
              !.nBlocksInFlight[p] = @ - 1,
              !.nBlocksInFlightValidHeaders[p] = @ - 1,
              !.nPeersWithValidatedDownloads =
                  IF t.nBlocksInFlightValidHeaders[p] = 1 THEN @ - 1 ELSE @]

\* The download timer of p starts again if b was the first on its list.
Since(t, p, b) ==
    IF Head(t.vBlocksInFlight[p]).hash = b THEN "recent" ELSE t.nDownloadingSince[p]

\* Mutant: the download timer goes on.
ReceivedSameTimer(t, b) ==
    LET p == t.mapBlocksInFlight[b]
    IN  IF p = NoPeer THEN t
        ELSE [Unlisted(t, p, b) EXCEPT !.nStallingSince[p] = "never"]

MarkBlockAsReceived(t, b) ==
    LET p == t.mapBlocksInFlight[b]
    IN  IF p = NoPeer THEN t
        ELSE [Unlisted(t, p, b) EXCEPT !.nDownloadingSince[p] = Since(t, p, b),
                                       !.nStallingSince[p] = "never"]

\* partial: the caller passed pit, and gets a PartiallyDownloadedBlock.
MarkBlockAsInFlight(t0, p, b, partial) ==
    LET t == MarkBlockAsReceived(t0, b)
    IN  IF t0.mapBlocksInFlight[b] = p THEN t0 ELSE
        [t EXCEPT !.mapBlocksInFlight[b] = p,
                  !.vBlocksInFlight[p] = Append(@, [hash |-> b, partialBlock |-> partial]),
                  !.nBlocksInFlight[p] = @ + 1,
                  !.nBlocksInFlightValidHeaders[p] = @ + 1,
                  !.nPeersWithValidatedDownloads =
                      IF t.nBlocksInFlightValidHeaders[p] = 0 THEN @ + 1 ELSE @,
                  !.nDownloadingSince[p] =
                      IF t.nBlocksInFlight[p] = 0 THEN "recent" ELSE @]

\* Mutant: mapBlocksInFlight keeps pointing into the list.
ForgetList(t, p) ==
    [t EXCEPT !.vBlocksInFlight[p] = <<>>,
              !.nBlocksInFlight[p] = 0,
              !.nBlocksInFlightValidHeaders[p] = 0,
              !.nPeersWithValidatedDownloads =
                  IF t.nBlocksInFlightValidHeaders[p] # 0 THEN @ - 1 ELSE @,
              !.nDownloadingSince[p] = "never",
              !.nStallingSince[p] = "never"]

\* The part of FinalizeNode that clears the table.
Forget(t, p) ==
    [ForgetList(t, p) EXCEPT !.mapBlocksInFlight =
        [b \in Blocks |-> IF \E i \in DOMAIN t.vBlocksInFlight[p] :
                                 t.vBlocksInFlight[p][i].hash = b
                          THEN NoPeer ELSE t.mapBlocksInFlight[b]]]

InFlight(b) == table.mapBlocksInFlight[b] # NoPeer

\* How many more blocks the peer may have in flight.
Room(p) == MAX_BLOCKS_IN_TRANSIT_PER_PEER - table.nBlocksInFlight[p]

PartialOf(t, p, b) ==
    t.vBlocksInFlight[p][IndexOf(t.vBlocksInFlight[p], b)].partialBlock

SetPartial(t, p, b, v) ==
    [t EXCEPT !.vBlocksInFlight[p] =
        [@ EXCEPT ![IndexOf(@, b)] = [hash |-> b, partialBlock |-> v]]]

-----------------------------------------------------------------------------
(* A peer's CNodeState, its CNode flags, and what it is known to have.     *)

NewNode ==
    [conn |-> "none", fWhitelisted |-> FALSE, fDisconnect |-> FALSE,
     fShouldBan |-> FALSE,
     pindexBestKnownBlock |-> NoBlock, hashLastUnknownBlock |-> NoBlock,
     pindexLastCommonBlock |-> NoBlock, fSyncStarted |-> FALSE,
     nHeadersSyncTimeout |-> "never", fPreferredDownload |-> FALSE,
     nPendingHeaderRequests |-> 0]

\* A better block was announced by this peer; ties go to the newer one.
Better(n, b) ==
    IF n.pindexBestKnownBlock = NoBlock \/ Height[b] >= Height[n.pindexBestKnownBlock]
    THEN [n EXCEPT !.pindexBestKnownBlock = b] ELSE n

ProcessBlockAvailability(n, known) ==
    IF n.hashLastUnknownBlock \in known
    THEN [Better(n, n.hashLastUnknownBlock) EXCEPT !.hashLastUnknownBlock = NoBlock]
    ELSE n

UpdateBlockAvailability(n0, known, b) ==
    LET n == ProcessBlockAvailability(n0, known)
    IN  IF b \in known THEN Better(n, b) ELSE [n EXCEPT !.hashLastUnknownBlock = b]

\* RequestHeadersFrom drops a request that is not forced while another one
\* is open.  Asks(n, from, force) is what the peer then owes.
Asks(n, from, force) ==
    IF n.nPendingHeaderRequests > 0 /\ ~force THEN <<>>
    ELSE <<[kind |-> "headers", block |-> from]>>

RequestHeadersFrom(n, from, force) ==
    [n EXCEPT !.nPendingHeaderRequests = @ + Len(Asks(n, from, force))]

Block(b) == [kind |-> "block", block |-> b]
CompactBlock(b) == [kind |-> "cmpctblock", block |-> b]
BlockTxn(b) == [kind |-> "blocktxn", block |-> b]

-----------------------------------------------------------------------------
(* What the download sees of validation.                                   *)

\* ProcessNewBlockHeaders: in order, up to the first header of a block
\* already found invalid.
AcceptHeaders(c, hs) ==
    LET n == CHOOSE m \in 0..Len(hs) :
                 /\ \A i \in 1..m : hs[i] \notin c.failed
                 /\ m = Len(hs) \/ hs[m + 1] \in c.failed
        new == {hs[i] : i \in 1..n} \ c.known
        top == {b \in new \cup {c.bestHeader} :
                    \A e \in new : Height[e] <= Height[b]}
    IN  [c EXCEPT !.known = @ \cup new,
                  !.bestHeader = IF @ \in top THEN @ ELSE CHOOSE b \in top : TRUE]

HeadersValid(c, hs) == \A i \in DOMAIN hs : hs[i] \notin c.failed

\* AcceptBlock stores the block, unless it has it, or it was not asked for
\* and has no more work than the tip.
AcceptBlock(c0, b, fRequested) ==
    LET c == AcceptHeaders(c0, <<b>>)
    IN  IF b \in c.have \/ (~fRequested /\ Height[b] <= Height[c.tip])
        THEN c ELSE [c EXCEPT !.have = @ \cup {b}]

\* ActivateBestChain: the outcomes.  Blocks it finds invalid are tried while
\* they have the most work, before or after a valid one of the same work.
ActivateBestChain(c) ==
    LET ready == {b \in Linked(c.have) \ c.failed : Height[b] > Height[c.tip]}
        top == {b \in (ready \ Bad) \cup {c.tip} :
                    \A e \in ready \ Bad : Height[e] <= Height[b]}
    IN  {[tip |-> o[1], refused |-> o[2]] :
            o \in {q \in top \X (SUBSET (ready \cap Bad)) :
                     /\ \A b \in q[2] : Height[b] >= Height[q[1]]
                     /\ \A b \in (ready \cap Bad) \ q[2] : Height[b] <= Height[q[1]]}}

\* BlockChecked of the blocks refused: the source of one is punished if it
\* sent the block in full and is still connected.
BlockChecked(ns, src, refused) ==
    [p \in Peers |->
        IF ns[p].conn \in Connected
           /\ \E b \in refused : src[b] = [peer |-> p, punish |-> TRUE]
        THEN [ns[p] EXCEPT !.fShouldBan = TRUE] ELSE ns[p]]

\* Mutant: the source is always one to punish.
EmplacePunished(src, b, p, punish) ==
    IF src[b] = NoSource THEN [src EXCEPT ![b] = [peer |-> p, punish |-> TRUE]] ELSE src

\* mapBlockSource.emplace keeps an entry that is there.
Emplace(src, b, p, punish) ==
    IF src[b] = NoSource THEN [src EXCEPT ![b] = [peer |-> p, punish |-> punish]] ELSE src

\* At the end of ProcessMessages, and at the start of SendMessages.
SendRejectsAndCheckIfBanned(n) ==
    IF ~n.fShouldBan THEN n
    ELSE [n EXCEPT !.fShouldBan = FALSE, !.fDisconnect = @ \/ ~n.fWhitelisted]

\* ProcessNewBlock(b) in a handler of peer p, whose own state is then n.  A
\* block found invalid before is refused again, without punishment.
ProcessNewBlock(p, n, src, b, fRequested) ==
    LET c == AcceptBlock(chain, b, fRequested)
    IN  IF b \in chain.failed
        THEN /\ chain' = chain
             /\ source' = [src EXCEPT ![b] = NoSource]
             /\ nodes' = [nodes EXCEPT ![p] = SendRejectsAndCheckIfBanned(n)]
        ELSE \E o \in ActivateBestChain(c) :
               /\ chain' = [c EXCEPT !.tip = o.tip, !.failed = @ \cup o.refused,
                                     !.connected = @ \cup Branch[o.tip]]
               /\ source' = [e \in Blocks |->
                               IF e \in o.refused \cup (Branch[o.tip] \ Active)
                               THEN NoSource ELSE src[e]]
               /\ nodes' = [BlockChecked([nodes EXCEPT ![p] = n], src, o.refused)
                            EXCEPT ![p] = SendRejectsAndCheckIfBanned(@)]

-----------------------------------------------------------------------------
(* The handler thread.                                                     *)

InitialTable ==
    [mapBlocksInFlight |-> [b \in Blocks |-> NoPeer],
     vBlocksInFlight |-> [p \in Peers |-> <<>>],
     nBlocksInFlight |-> [p \in Peers |-> 0],
     nBlocksInFlightValidHeaders |-> [p \in Peers |-> 0],
     nDownloadingSince |-> [p \in Peers |-> "never"],
     nStallingSince |-> [p \in Peers |-> "never"],
     nPeersWithValidatedDownloads |-> 0]

Init ==
    /\ table = InitialTable
    /\ nodes = [p \in Peers |-> NewNode]
    /\ totals = [nPreferredDownload |-> 0, nSyncStarted |-> 0]
    /\ chain = [known |-> {Genesis}, have |-> {Genesis}, failed |-> {},
                connected |-> {Genesis}, tip |-> Genesis, bestHeader |-> Genesis]
    /\ source = [b \in Blocks |-> NoSource]
    /\ turn = 0 /\ todo = <<>>
    /\ owed = [p \in Peers |-> <<>>]
    /\ announced = [p \in Peers |-> 0] /\ late = {}
    /\ waited = {} /\ guilty = {}

Front(t, p) ==
    IF t.vBlocksInFlight[p] = <<>> THEN NoBlock ELSE t.vBlocksInFlight[p][1].hash

\* History: how long the oldest block in flight of a peer has been that.
StillWaiting == waited' = {p \in waited : Front(table', p) = Front(table, p)}

Between == turn = 0 /\ todo = <<>>
Serves(p) == /\ turn = 2 * p - 1 /\ todo = <<>>
             /\ nodes[p].conn \in Connected /\ ~nodes[p].fDisconnect
Ready(p) == Serves(p) /\ nodes[p].conn = "ready"
Processed == turn' = turn + 1
Pass(p) == turn' = IF p = N THEN 0 ELSE 2 * p + 1

\* A connection is accepted or made.
InitializeNode(p) ==
    /\ todo = <<>> /\ nodes[p].conn = "none"
    /\ \E w \in BOOLEAN :
          /\ w => p \in WhitelistedRange
          /\ nodes' = [nodes EXCEPT ![p].conn = "connected", ![p].fWhitelisted = w]
    /\ UNCHANGED <<table, totals, chain, source, turn, todo, owed, announced, late, guilty>>
    /\ StillWaiting

\* The other side hangs up.
CloseSocket(p) ==
    /\ Between /\ p \in Slow
    /\ nodes[p].conn \in Connected /\ ~nodes[p].fDisconnect
    /\ nodes' = [nodes EXCEPT ![p].fDisconnect = TRUE]
    /\ UNCHANGED <<table, totals, chain, source, turn, todo, owed, announced, late, guilty>>
    /\ StillWaiting

FinalizeNode(p) ==
    /\ Between /\ nodes[p].conn \in Connected /\ nodes[p].fDisconnect
    /\ table' = Forget(table, p)
    /\ totals' = [nPreferredDownload |->
                      totals.nPreferredDownload - BoolToInt(nodes[p].fPreferredDownload),
                  nSyncStarted |-> totals.nSyncStarted - BoolToInt(nodes[p].fSyncStarted)]
    /\ nodes' = [nodes EXCEPT ![p] = [NewNode EXCEPT !.conn = "gone"]]
    /\ owed' = [owed EXCEPT ![p] = <<>>]
    /\ UNCHANGED <<chain, source, turn, todo, announced, late, guilty>>
    /\ StillWaiting

\* The times that a peer is given run out.  A peer that is not slow answers
\* every request within them.
Elapse(p) ==
    LET runOut(time, excused) == IF time = "recent" /\ (p \in Slow \/ excused)
                                 THEN "overdue" ELSE time
        idle == table.vBlocksInFlight[p] = <<>>
    IN  /\ todo = <<>> /\ nodes[p].conn = "ready" /\ ~nodes[p].fDisconnect
        /\ table' = [table EXCEPT !.nDownloadingSince[p] = runOut(@, idle),
                                  !.nStallingSince[p] = runOut(@, FALSE)]
        /\ nodes' = [nodes EXCEPT ![p].nHeadersSyncTimeout = runOut(@, owed[p] = <<>>)]
        /\ <<table, nodes>>' # <<table, nodes>>
        /\ waited' = waited \cup (IF idle \/ p \notin Slow THEN {} ELSE {p})
        /\ UNCHANGED <<totals, chain, source, turn, todo, owed, announced, late, guilty>>

StartPass ==
    /\ Between /\ turn' = 1
    /\ UNCHANGED <<table, nodes, totals, chain, source, todo, owed, announced, late, guilty>>
    /\ StillWaiting

\* A peer that is not connected, or marked for disconnection, is skipped.
Skip(p) ==
    /\ turn = 2 * p - 1 /\ todo = <<>> /\ ~Serves(p)
    /\ Pass(p)
    /\ UNCHANGED <<table, nodes, totals, chain, source, todo, owed, announced, late, guilty>>
    /\ StillWaiting

\* A peer that is not slow has sent what it owes by the second time.
NoMessage(p) ==
    /\ Serves(p) /\ Processed
    /\ p \in Slow \/ p \notin late
    /\ late' = IF nodes[p].conn = "connected" \/ owed[p] # <<>> THEN late \cup ({p} \ Slow)
               ELSE late
    /\ UNCHANGED <<table, nodes, totals, chain, source, todo, owed, announced, guilty>>
    /\ StillWaiting

\* version and verack, with UpdatePreferredDownload.
Version(p) ==
    /\ Serves(p) /\ nodes[p].conn = "connected"
    /\ LET preferred == p \in Outbound \/ nodes[p].fWhitelisted
       IN  /\ nodes' = [nodes EXCEPT ![p].conn = "ready",
                                     ![p].fPreferredDownload = preferred]
           /\ totals' = [totals EXCEPT !.nPreferredDownload = @ + BoolToInt(preferred)]
    /\ Processed /\ late' = late \ {p}
    /\ UNCHANGED <<table, chain, source, todo, owed, announced, guilty>>
    /\ StillWaiting

\* inv of a block: the availability, and a forced getheaders if it is new.
Inv(p, b) ==
    LET n == UpdateBlockAvailability(nodes[p], chain.known, b)
        new == b \notin chain.known /\ ~InFlight(b)
        n2 == IF new THEN RequestHeadersFrom(n, chain.bestHeader, TRUE) ELSE n
    IN  /\ nodes' = [nodes EXCEPT ![p] = SendRejectsAndCheckIfBanned(n2)]
        /\ owed' = IF new THEN [owed EXCEPT ![p] = @ \o Asks(n, chain.bestHeader, TRUE)]
                   ELSE owed
        /\ UNCHANGED <<table, chain, source, todo, guilty>>

\* The blocks a headers message makes the node fetch at once: those missing
\* on the way to pindexLast, lowest first, unless there are too many.
DirectFetch(p, pindexLast) ==
    LET fork == Height[LastCommonAncestor(chain.tip, pindexLast)]
        way == (fork + 1)..Height[pindexLast]
        missing == {h \in way : /\ GetAncestor(pindexLast, h) \notin chain.have
                                /\ ~InFlight(GetAncestor(pindexLast, h))}
        walked == {h \in way : Cardinality({k \in missing : k > h})
                                   <= MAX_BLOCKS_IN_TRANSIT_PER_PEER}
    IN  IF walked # way THEN <<>>
        ELSE [i \in 1..Least(Room(p), Cardinality(missing)) |->
                 GetAncestor(pindexLast, Nth(missing, i))]

\* Any headers message counts as the answer to an open request.
Answered(n) == [n EXCEPT !.nPendingHeaderRequests = IF @ > 0 THEN @ - 1 ELSE @]

\* headers: hs is a piece of the peer's chain; rest is what it owes after.
Headers(p, hs, rest) ==
    LET n == Answered(nodes[p])
        last == hs[Len(hs)]
        c == AcceptHeaders(chain, hs)
        upd == UpdateBlockAvailability(n, c.known, last)
        full == Len(hs) = MAX_HEADERS_RESULTS
        fetch == IF CanDirectFetch /\ Height[chain.tip] <= Height[last]
                 THEN DirectFetch(p, last) ELSE <<>>
        compact == /\ Len(fetch) = 1 /\ \A b \in Blocks : ~InFlight(b)
                   /\ Parent[last] \in chain.connected
        end(m, c2, asked, f) ==
            /\ nodes' = [nodes EXCEPT ![p] = SendRejectsAndCheckIfBanned(m)]
            /\ chain' = c2
            /\ owed' = [owed EXCEPT ![p] = rest \o asked]
            /\ todo' = [i \in DOMAIN f |->
                           [peer |-> p, ask |-> IF compact THEN CompactBlock(f[i])
                                                ELSE Block(f[i])]]
            /\ UNCHANGED <<table, source, guilty>>
    IN  CASE hs = <<>> -> end(n, chain, <<>>, <<>>)
          [] hs # <<>> /\ Parent[hs[1]] \notin chain.known ->
                LET m == UpdateBlockAvailability(n, chain.known, last)
                IN  end(RequestHeadersFrom(m, chain.bestHeader, TRUE), chain,
                        Asks(m, chain.bestHeader, TRUE), <<>>)
          [] hs # <<>> /\ Parent[hs[1]] \in chain.known /\ ~HeadersValid(chain, hs) ->
                end(n, c, <<>>, <<>>)
          [] OTHER ->
                end(IF full THEN RequestHeadersFrom(upd, last, FALSE) ELSE upd, c,
                    IF full THEN Asks(upd, last, FALSE) ELSE <<>>, fetch)

\* block: whoever it was asked from, the block is no longer in flight.
BlockMessage(p, b, rest) ==
    LET fRequested == InFlight(b) \/ (nodes[p].fWhitelisted /\ ~IsInitialBlockDownload)
    IN  /\ table' = MarkBlockAsReceived(table, b)
        /\ ProcessNewBlock(p, nodes[p], Emplace(source, b, p, TRUE), b, fRequested)
        /\ owed' = [owed EXCEPT ![p] = rest]
        /\ guilty' = guilty \cup (IF b \in Bad THEN {p} ELSE {})
        /\ UNCHANGED todo

\* blocktxn for a block in flight from this peer as a compact block, in a
\* state t of the table.  status is what FillBlock returns.
FillBlock(p, n, t, b, status, rest) ==
    \/ /\ status = "OK"
       /\ table' = MarkBlockAsReceived(t, b)
       /\ ProcessNewBlock(p, n, Emplace(source, b, p, FALSE), b, TRUE)
       /\ owed' = [owed EXCEPT ![p] = rest]
       /\ UNCHANGED <<todo, guilty>>
    \/ /\ status = "FAILED"
       /\ table' = SetPartial(t, p, b, "spent")
       /\ nodes' = [nodes EXCEPT ![p] = SendRejectsAndCheckIfBanned(n)]
       /\ chain' = AcceptHeaders(chain, <<b>>)
       /\ owed' = [owed EXCEPT ![p] = rest \o <<Block(b)>>]
       /\ UNCHANGED <<source, todo, guilty>>
    \/ /\ status = "INVALID"
       /\ table' = MarkBlockAsReceived(t, b)
       /\ nodes' = [nodes EXCEPT ![p] =
                       SendRejectsAndCheckIfBanned([n EXCEPT !.fShouldBan = TRUE])]
       /\ chain' = AcceptHeaders(chain, <<b>>)
       /\ owed' = [owed EXCEPT ![p] = rest]
       /\ guilty' = guilty \cup {p}
       /\ UNCHANGED <<source, todo>>

\* What FillBlock can return: a block already filled in is refused, and only
\* a slow peer sends what does not fit.
FillStatus(t, p, b) ==
    IF PartialOf(t, p, b) = "spent" THEN {"INVALID"}
    ELSE {"OK", "FAILED"} \cup (IF p \in Slow THEN {"INVALID"} ELSE {})

BlockTxnMessage(p, b, rest) ==
    \/ /\ table.mapBlocksInFlight[b] = p /\ PartialOf(table, p, b) # "none"
       /\ \E status \in FillStatus(table, p, b) :
              FillBlock(p, nodes[p], table, b, status, rest)
    \/ /\ ~(table.mapBlocksInFlight[b] = p /\ PartialOf(table, p, b) # "none")
       /\ nodes' = [nodes EXCEPT ![p] = SendRejectsAndCheckIfBanned(@)]
       /\ owed' = [owed EXCEPT ![p] = rest]
       /\ UNCHANGED <<table, chain, source, todo, guilty>>

\* cmpctblock.  The handler returns early, asks for the block in full, or
\* takes the compact block up, as its disjuncts say in the code's order.
CmpctBlock(p, b, rest) ==
    LET c == AcceptHeaders(chain, <<b>>)
        n == UpdateBlockAvailability(nodes[p], c.known, b)
        mine == table.mapBlocksInFlight[b] = p
        unknown == Parent[b] \notin chain.known
        refused == ~unknown /\ b \in chain.failed
        useless == Height[b] <= Height[chain.tip]
        near == Height[b] <= Height[chain.tip] + 2
        give_up == b \in chain.have \/ (~useless /\ ~InFlight(b) /\ ~CanDirectFetch)
        ours == mine \/ (~InFlight(b) /\ Room(p) > 0)
        known_partial == mine /\ PartialOf(table, p, b) # "none"
        taken == IF mine THEN SetPartial(table, p, b, "open")
                 ELSE MarkBlockAsInFlight(table, p, b, "open")
        end(t, m, c2, asked) ==
            /\ table' = t /\ chain' = c2
            /\ nodes' = [nodes EXCEPT ![p] = SendRejectsAndCheckIfBanned(m)]
            /\ owed' = [owed EXCEPT ![p] = rest \o asked]
            /\ UNCHANGED <<source, todo>>
        goes_on == ~unknown /\ ~refused /\ ~give_up
    IN  \/ /\ unknown
           /\ IF IsInitialBlockDownload THEN end(table, nodes[p], chain, <<>>)
              ELSE end(table, RequestHeadersFrom(nodes[p], chain.bestHeader, TRUE), chain,
                       Asks(nodes[p], chain.bestHeader, TRUE))
           /\ UNCHANGED guilty
        \/ /\ refused /\ end(table, nodes[p], chain, <<>>) /\ UNCHANGED guilty
        \/ /\ ~unknown /\ ~refused /\ give_up
           /\ end(table, n, c, <<>>) /\ UNCHANGED guilty
        \/ /\ goes_on /\ (useless \/ ~near) /\ (useless \/ InFlight(b))
           /\ end(table, n, c, IF InFlight(b) THEN <<Block(b)>> ELSE <<>>)
           /\ UNCHANGED guilty
        \/ /\ goes_on /\ ~useless /\ ~near /\ ~InFlight(b)
           /\ Headers(p, <<b>>, rest)
        \/ /\ goes_on /\ ~useless /\ near /\ ours /\ known_partial
           /\ end(table, n, c, <<>>) /\ UNCHANGED guilty
        \/ /\ goes_on /\ ~useless /\ near /\ ours /\ ~known_partial
           /\ \/ /\ p \in Slow           \* InitData: READ_STATUS_INVALID
                 /\ end(MarkBlockAsReceived(taken, b), [n EXCEPT !.fShouldBan = TRUE], c, <<>>)
                 /\ guilty' = guilty \cup {p}
              \/ /\ end(taken, n, c, <<Block(b)>>)      \* READ_STATUS_FAILED
                 /\ UNCHANGED guilty
              \/ /\ end(taken, n, c, <<BlockTxn(b)>>)   \* transactions missing
                 /\ UNCHANGED guilty
              \/ \E status \in {"OK", "FAILED"} :       \* nothing missing
                     FillBlock(p, n, taken, b, status, rest)
        \/ /\ goes_on /\ ~useless /\ near /\ ~ours
           /\ \/ /\ end(table, n, c, <<>>) /\ UNCHANGED guilty
              \/ /\ ProcessNewBlock(p, n, Emplace(source, b, p, FALSE), b, TRUE)
                 /\ table' = IF b \in chain'.have \ chain'.failed
                             THEN MarkBlockAsReceived(table, b) ELSE table
                 /\ owed' = [owed EXCEPT ![p] = rest]
                 /\ UNCHANGED <<todo, guilty>>

-----------------------------------------------------------------------------
(* What peers send: the answer to the oldest request, or an announcement   *)
(* of their tip, in any of the three forms.                                *)

\* The peer's chain after the last block it shares with a locator.
After(p, from) ==
    LET h == Height[LastCommonAncestor(from, TipOf[p])]
    IN  [i \in 1..Least(MAX_HEADERS_RESULTS, Height[TipOf[p]] - h) |->
            GetAncestor(TipOf[p], h + i)]

Reply(p) ==
    /\ Ready(p) /\ owed[p] # <<>>
    /\ LET ask == Head(owed[p])
           rest == Tail(owed[p])
       IN  \/ ask.kind = "headers" /\ Headers(p, After(p, ask.block), rest)
           \/ ask.kind = "block" /\ BlockMessage(p, ask.block, rest)
           \/ ask.kind = "blocktxn" /\ BlockTxnMessage(p, ask.block, rest)
           \/ ask.kind = "cmpctblock" /\ CmpctBlock(p, ask.block, rest)
    /\ Processed /\ late' = late \ {p}
    /\ UNCHANGED <<totals, announced>>
    /\ StillWaiting

Announce(p) ==
    /\ Ready(p) /\ announced[p] < MaxAnnouncements
    /\ announced' = [announced EXCEPT ![p] = @ + 1]
    /\ \/ Inv(p, TipOf[p])
       \/ Headers(p, <<TipOf[p]>>, owed[p])
       \/ CmpctBlock(p, TipOf[p], owed[p])
    /\ Processed
    /\ UNCHANGED <<totals, late>>
    /\ StillWaiting

-----------------------------------------------------------------------------
(* SendMessages.                                                           *)

\* Mutant: the transactions of the block itself are enough.
HasTx(b) == b \in chain.have
\* nChainTx of a block: it and all its ancestors are stored.
HasChainTx(b) == b \in Linked(chain.have)

\* What FindNextBlocksToDownload leaves in the node's state, asks to fetch,
\* and which peer it finds is holding up the window.
FindNextBlocksToDownload(p, n0) ==
    LET n == ProcessBlockAvailability(n0, chain.known)
        best == n.pindexBestKnownBlock
        guess == IF n.pindexLastCommonBlock # NoBlock THEN n.pindexLastCommonBlock
                 ELSE GetAncestor(chain.tip, Least(Height[best], Height[chain.tip]))
        common == LastCommonAncestor(guess, best)
        nWindowEnd == Height[common] + BLOCK_DOWNLOAD_WINDOW
        at(h) == GetAncestor(best, h)
        way == (Height[common] + 1)..Least(Height[best], nWindowEnd + 1)
        walked == {h \in way : \A k \in way : k <= h => at(k) \notin chain.failed}
        wanted == {h \in walked : at(h) \notin chain.have \cup Active}
        missing == {h \in wanted : ~InFlight(at(h))}
        inWindow == {h \in missing : h <= nWindowEnd}
        linked == {h \in walked \ wanted : HasChainTx(at(h))}
        reached == IF linked = {} THEN common
                   ELSE at(CHOOSE h \in linked : \A k \in linked : k <= h)
        waitingfor == IF wanted = missing THEN NoPeer
                      ELSE table.mapBlocksInFlight[at(Nth(wanted \ missing, 1))]
    IN  IF best = NoBlock \/ Height[best] < Height[chain.tip]
        THEN [node |-> n, blocks |-> <<>>, staller |-> NoPeer]
        ELSE [node |-> [n EXCEPT !.pindexLastCommonBlock = reached],
              blocks |-> [i \in 1..Least(Room(p), Cardinality(inWindow)) |->
                             at(Nth(inWindow, i))],
              staller |-> IF inWindow = {} /\ missing # {} /\ waitingfor # p
                          THEN waitingfor ELSE NoPeer]

\* Start block sync: with one peer, or with all once close to today.
StartSync(p) ==
    /\ ~nodes[p].fSyncStarted
    /\ \/ /\ totals.nSyncStarted = 0
          /\ nodes[p].fPreferredDownload \/ totals.nPreferredDownload = 0
       \/ chain.bestHeader \in Today

\* The block preceding the best header, if there is one.
SyncFrom == IF chain.bestHeader = Genesis THEN Genesis ELSE Parent[chain.bestHeader]

SendMessages(p) ==
    LET n0 == nodes[p]
        start == StartSync(p)
        n == IF start THEN RequestHeadersFrom([n0 EXCEPT !.fSyncStarted = TRUE,
                               !.nHeadersSyncTimeout = "recent"], SyncFrom, FALSE)
             ELSE n0
        asked == IF start THEN Asks(n0, SyncFrom, FALSE) ELSE <<>>
        nSync == totals.nSyncStarted + BoolToInt(start)
        fFetch == n.fPreferredDownload \/ totals.nPreferredDownload = 0
        stalls == table.nStallingSince[p] = "overdue"
        times_out == /\ table.vBlocksInFlight[p] # <<>>
                     /\ table.nDownloadingSince[p] = "overdue"
        sync_late == /\ n.fSyncStarted /\ chain.bestHeader \notin Today
                     /\ n.nHeadersSyncTimeout = "overdue" /\ nSync = 1
                     /\ totals.nPreferredDownload - BoolToInt(n.fPreferredDownload) >= 1
        dropped == stalls \/ times_out \/ (sync_late /\ ~n.fWhitelisted)
        n2 == CASE sync_late -> [n EXCEPT !.fSyncStarted = FALSE,
                                          !.nHeadersSyncTimeout = "never"]
                [] n.fSyncStarted /\ chain.bestHeader \in Today ->
                       [n EXCEPT !.nHeadersSyncTimeout = "off"]
                [] OTHER -> n
        found == FindNextBlocksToDownload(p, n2)
        fetches == (fFetch \/ ~IsInitialBlockDownload) /\ Room(p) > 0
    IN  /\ turn = 2 * p /\ todo = <<>>
        /\ Pass(p)
        /\ UNCHANGED <<chain, source, announced, late, guilty>>
        /\ CASE n0.conn # "ready" \/ n0.fDisconnect ->
                  UNCHANGED <<table, nodes, totals, todo, owed>>
             [] n0.conn = "ready" /\ ~n0.fDisconnect /\ n0.fShouldBan ->
                  /\ nodes' = [nodes EXCEPT ![p] = SendRejectsAndCheckIfBanned(@)]
                  /\ UNCHANGED <<table, totals, todo, owed>>
             [] OTHER ->
                  /\ owed' = [owed EXCEPT ![p] = @ \o asked]
                  /\ totals' = [totals EXCEPT !.nSyncStarted =
                                   IF sync_late /\ ~dropped THEN nSync - 1 ELSE nSync]
                  /\ IF dropped
                     THEN /\ nodes' = [nodes EXCEPT ![p] = [n EXCEPT !.fDisconnect = TRUE]]
                          /\ UNCHANGED <<table, todo>>
                     ELSE IF ~fetches
                     THEN /\ nodes' = [nodes EXCEPT ![p] = n2]
                          /\ UNCHANGED <<table, todo>>
                     ELSE /\ nodes' = [nodes EXCEPT ![p] = found.node]
                          /\ todo' = [i \in DOMAIN found.blocks |->
                                         [peer |-> p, ask |-> Block(found.blocks[i])]]
                          /\ table' = IF /\ found.staller # NoPeer
                                         /\ table.nBlocksInFlight[p] = 0
                                         /\ table.nStallingSince[found.staller] = "never"
                                      THEN [table EXCEPT !.nStallingSince[found.staller]
                                                             = "recent"]
                                      ELSE table
        /\ StillWaiting

\* The loop over the blocks to fetch, under the lock of the handler that
\* found them: one block is marked as in flight and asked for.
RequestNext ==
    /\ todo # <<>>
    /\ LET e == Head(todo)
       IN  /\ table' = MarkBlockAsInFlight(table, e.peer, e.ask.block, "none")
           /\ owed' = [owed EXCEPT ![e.peer] = Append(@, e.ask)]
    /\ todo' = Tail(todo)
    /\ UNCHANGED <<nodes, totals, chain, source, turn, announced, late, guilty>>
    /\ StillWaiting

Handler ==
    \/ StartPass \/ RequestNext
    \/ \E p \in Peers : \/ Skip(p) \/ NoMessage(p) \/ Version(p) \/ Reply(p)
                        \/ Announce(p) \/ SendMessages(p)

Next ==
    \/ Handler
    \/ \E p \in Peers : \/ InitializeNode(p) \/ CloseSocket(p)
                        \/ FinalizeNode(p) \/ Elapse(p)

\* The handler thread keeps running.  It can take a step in every state, so
\* weak fairness of Handler says that it passes over the peers for ever.
HandlerRuns == []<>(turn = 0) /\ []<>(turn # 0)

\* A peer that is not slow connects; the time given to a slow one runs out;
\* and the socket thread removes a peer that is marked for disconnection.
Spec ==
    /\ Init /\ [][Next]_vars
    /\ HandlerRuns
    /\ \A p \in Peers \ Slow : WF_vars(InitializeNode(p))
    /\ \A p \in Slow : WF_vars(Elapse(p)) /\ SF_vars(FinalizeNode(p))

-----------------------------------------------------------------------------
(* Properties.                                                             *)

TypeOK ==
    /\ table.mapBlocksInFlight \in [Blocks -> Peers \cup {NoPeer}]
    /\ \A p \in Peers : table.vBlocksInFlight[p] \in Seq(QueuedBlock)
    /\ table.nBlocksInFlight \in [Peers -> 0..MAX_BLOCKS_IN_TRANSIT_PER_PEER]
    /\ table.nDownloadingSince \in [Peers -> Times]
    /\ table.nStallingSince \in [Peers -> Times]
    /\ \A p \in Peers : /\ nodes[p].conn \in Connected \cup {"none", "gone"}
                        /\ nodes[p].nPendingHeaderRequests \in Nat
    /\ chain.tip \in chain.connected /\ chain.connected \subseteq chain.have
    /\ chain.have \subseteq chain.known /\ chain.failed \subseteq Bad
    /\ turn \in 0..(2 * N)

\* The table, the peers' lists and every counter say the same: a block is in
\* flight from one peer at most, is once in that peer's list, each counter
\* is the length it stands for, and the number of downloading peers is exact.
\* A peer that is gone has left nothing behind.  These are the iterators
\* that MarkBlockAsReceived follows, and the assertions of FinalizeNode.
\* The number of preferred peers and of peers being synchronised with, on
\* which fFetch and the single sync peer depend, are exact too.
InFlightExact ==
    /\ TypeOK
    /\ \A p \in Peers, b \in Blocks :
          table.mapBlocksInFlight[b] = p <=>
              \E i \in DOMAIN table.vBlocksInFlight[p] :
                  table.vBlocksInFlight[p][i].hash = b
    /\ \A p \in Peers : \A i, j \in DOMAIN table.vBlocksInFlight[p] :
          table.vBlocksInFlight[p][i].hash = table.vBlocksInFlight[p][j].hash => i = j
    /\ \A p \in Peers :
          /\ table.nBlocksInFlight[p] = Len(table.vBlocksInFlight[p])
          /\ table.nBlocksInFlightValidHeaders[p] = Len(table.vBlocksInFlight[p])
          /\ nodes[p].conn \notin Connected => table.vBlocksInFlight[p] = <<>>
    /\ table.nPeersWithValidatedDownloads =
          Cardinality({p \in Peers : table.vBlocksInFlight[p] # <<>>})
    /\ totals.nPreferredDownload =
          Cardinality({p \in Peers : nodes[p].fPreferredDownload})
    /\ totals.nSyncStarted = Cardinality({p \in Peers : nodes[p].fSyncStarted})

\* A peer is blamed for stalling only while it holds a block in flight: any
\* delivery that concerns it clears nStallingSince.  The download timeout of a
\* peer runs from the moment its oldest block in flight became the oldest,
\* however the blocks before it were delivered ("When the first entry in
\* vBlocksInFlight started downloading").
TimersExact ==
    \A p \in Peers :
        IF table.vBlocksInFlight[p] = <<>> THEN table.nStallingSince[p] = "never"
        ELSE table.nDownloadingSince[p] = "overdue" <=> p \in waited

\* A peer is marked for a ban only if it sent an invalid block in full or a
\* compact block that does not fit together: relaying the compact form of a
\* block that turns out invalid is not punished, whoever else sends it.
OnlySendersPunished == \A p \in Peers : nodes[p].fShouldBan => p \in guilty

\* Whatever the slow peers do or leave undone, the node ends up with the
\* best valid chain of the peers that answer: no block is passed over because
\* pindexLastCommonBlock moved beyond it or another peer has it in flight.
CatchesUp ==
    \A p \in Peers \ Slow :
        TipOf[p] \notin Bad => <>[](Height[chain.tip] >= Height[TipOf[p]])
=============================================================================
