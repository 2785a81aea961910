----------------------------- MODULE FrameView -----------------------------
(***************************************************************************)
(* The frame viewer of the page (components/FrameViewer.js) and the drags  *)
(* that end in it (utils/dragManager.js): the tree and the hex dump of the *)
(* stream under inspection.  They are drawn anew from the store whenever   *)
(* it announces a change, and patched in place by three others: a node     *)
(* opened or closed, a real frame that arrives, live values.  A handler    *)
(* runs to its end; only the answer of the backend to Refresh comes later. *)
(*                                                                         *)
(* Of the leaves of the tree, those under "Frame" keep no state and are    *)
(* left out.  Of the editable fields there are the priority, drawn from    *)
(* the store, and the name, drawn from the stream under inspection.        *)
(***************************************************************************)
EXTENDS SvFrame, FiniteSets

CONSTANTS
  Mus,          \* the streams of the panel, numbered from 1
  Name,         \* their names
  NewName,      \* the name a stream may be given
  Pool,         \* the channels of the store, in order
  Sample,       \* the value of each of them
  InitialList,  \* the channels every stream starts with
  Vlans,        \* values of config.vlanID
  Priorities,   \* values entered for the priority
  AsduCounts,   \* numbers of ASDUs offered
  Toggled,      \* the nodes a user opens and closes
  MaxFetches,   \* bound on requests in flight
  MaxActs       \* bound on what the user does

ASSUME MusAssumption == IsFiniteSet(Mus) /\ Mus \subseteq Nat \ {0}
ASSUME PoolAssumption ==   \* "none" is no channel
  /\ Pool \in Seq(ToSet(Pool)) /\ "none" \notin ToSet(Pool)
  /\ InitialList \in Seq(ToSet(Pool)) /\ IsInjective(InitialList)
ASSUME SvIdsAssumption ==
  /\ \A m \in Mus : Name[m] \in Seq(Nat)
  /\ NewName \in Seq(Nat)
ASSUME ChoicesAssumption ==
  /\ AsduCounts \subseteq Nat \ {0} /\ 1 \in AsduCounts
  /\ Priorities \subseteq Nat /\ Vlans \subseteq Nat
  /\ MaxFetches \in Nat /\ MaxActs \in Nat

VARIABLES
  pubs,      \* the streams that exist: [svId, list]
  active,    \* ui.activeMu: a copy of one of them, or NoMu
  config,    \* the part of store.config the viewer draws
  backend,   \* the stream with the lowest id of the backend
  view,      \* the viewer's module variables
  tree,      \* the tree as drawn
  hex,       \* the dump as drawn
  fetches,   \* requests for a real frame in flight
  own,       \* the drag of a row of the tree
  drag,      \* the drag of the drag manager
  acts
viewVars == <<pubs, active, config, backend, view, tree, hex, fetches, own, drag, acts>>

Fields == {"vlanPriority", "svID"}
NoMu == [id |-> 0, svId |-> <<>>, list |-> <<>>]
\* store.get('config.vlanPriority') || 4
Effective(prio) == IF prio = 0 THEN 4 ELSE prio

\* A frame is kept as what it was encoded from.
Frame(svId, list, cfg, asdu) ==
  [svId |-> svId, list |-> list, vlan |-> cfg.vlan, prio |-> Effective(cfg.prio), asdu |-> asdu]
NoFrame == [svId |-> <<>>, list |-> <<>>, vlan |-> 0, prio |-> 0, asdu |-> 0]
NoTree == [svId |-> <<>>, list |-> <<>>, prio |-> 0, asdu |-> 0, open |-> {},
           inputs |-> <<>>, cells |-> <<>>]
NoHex == [kind |-> "none", frame |-> NoFrame]
NoDrag == [data |-> "none", over |-> FALSE, ghosts |-> 0, zone |-> FALSE]
Free == [row |-> 0, stale |-> FALSE]

Stream(f) == [svId |-> f.svId, smpCnt |-> 0, vlan |-> f.vlan, prio |-> f.prio, asdu |-> f.asdu,
              samples |-> [i \in DOMAIN f.list |-> Sample[f.list[i]]]]
HexBytes(h) == CASE h.kind = "real" -> Encoded(Stream(h.frame))
                 [] h.kind = "calc" -> Calculated(Stream(h.frame))
                 [] OTHER -> <<>>

(***************************************************************************)
(* Drawing.                                                                 *)
(***************************************************************************)
Drawable(t) == t.asdu > 0
Rows(t) == {<<"channel", i, t.list[k]>> : i \in 0..(t.asdu - 1), k \in DOMAIN t.list}
Expandable(t) ==
  IF ~Drawable(t) THEN {}
  ELSE {<<"frame", 0, "">>, <<"sv-pdu", 0, "">>}
       \cup {<<n, i, "">> : n \in {"asdu", "seqdata"}, i \in 0..(t.asdu - 1)} \cup Rows(t)

\* Where the value of a channel comes from: computed, live, or a sample of the frame.
Computed == 0
Live == -1

TreeOf(mu, cfg, expanded) ==
  IF mu = NoMu THEN NoTree
  ELSE LET t == [NoTree EXCEPT !.svId = mu.svId, !.list = mu.list,
                               !.prio = Effective(cfg.prio), !.asdu = cfg.asdu,
                               !.cells = [i \in DOMAIN mu.list |-> Computed]]
       IN  [t EXCEPT !.open = expanded \cap Expandable(t)]

HexOf(mu, cfg, real) ==
  IF mu = NoMu THEN NoHex
  ELSE IF real # NoFrame THEN [kind |-> "real", frame |-> real]
  ELSE [kind |-> "calc", frame |-> Frame(mu.svId, mu.list, cfg, cfg.asdu)]

\* updateFrameViewer(), on the values the variables take.
Draw(mu, cfg, v) ==
  /\ tree' = TreeOf(mu, cfg, v.expanded)
  /\ hex' = HexOf(mu, cfg, v.real)
  /\ own' = [own EXCEPT !.stale = own.row # 0]

Redraw(v) ==
  /\ view' = v
  /\ Draw(active, config, v)

\* Mutant of Inspect: the tree is not told.
Inspect_Unannounced(mu) ==
  /\ active' = mu
  /\ UNCHANGED <<config, view, tree, hex, own>>

\* store.set('ui.activeMu'), with the viewer's subscription to it.
Inspect(mu) ==
  /\ active' = mu
  /\ Draw(mu, config, view)
  /\ UNCHANGED <<config, view>>

\* setConfig(), with the subscription to config.*: drawn on a change.
Configure(cfg) ==
  /\ config' = cfg
  /\ IF cfg = config THEN UNCHANGED <<tree, hex, own>> ELSE Draw(active, cfg, view)
  /\ UNCHANGED <<active, view>>

Acts == acts < MaxActs /\ acts' = acts + 1
PointerFree == own = Free /\ drag = NoDrag
PanelStays == UNCHANGED <<pubs, active, config>>

ViewInit ==
  /\ pubs = [m \in Mus |-> [svId |-> Name[m], list |-> InitialList]]
  /\ active = NoMu
  /\ config \in [vlan : Vlans, prio : {4}, svId : {Name[1]}, asdu : {1}, list : {InitialList}]
  /\ backend = NoFrame
  /\ view = [expanded |-> {<<"frame", 0, "">>, <<"sv-pdu", 0, "">>, <<"asdu", 0, "">>,
                           <<"seqdata", 0, "">>},
             real |-> NoFrame, editing |-> FALSE, source |-> "calculated", buttons |-> TRUE]
  /\ tree = NoTree
  /\ hex = NoHex
  /\ fetches = 0
  /\ own = Free
  /\ drag = NoDrag
  /\ acts = 0

(***************************************************************************)
(* Nodes.                                                                   *)
(***************************************************************************)

\* toggleNode(): the set, and the classes of the one node.
Toggle(n) ==
  LET expanded == IF n \in view.expanded THEN view.expanded \ {n} ELSE view.expanded \cup {n}
  IN  /\ view' = [view EXCEPT !.expanded = expanded]
      /\ tree' = [tree EXCEPT !.open = IF n \in expanded THEN @ \cup {n} ELSE @ \ {n}]

ClickNode(n) ==
  /\ Acts /\ PointerFree
  /\ n \in Expandable(tree)
  /\ Toggle(n)
  /\ PanelStays /\ UNCHANGED <<backend, hex, fetches, own, drag>>

ExpandAll ==
  /\ Acts /\ PointerFree
  /\ Redraw([view EXCEPT !.expanded = @ \cup Expandable(tree)])
  /\ PanelStays /\ UNCHANGED <<backend, fetches, drag>>

CollapseAll ==
  /\ Acts /\ PointerFree
  /\ Redraw([view EXCEPT !.expanded = {}])
  /\ PanelStays /\ UNCHANGED <<backend, fetches, drag>>

ChooseAsdu(n) ==
  /\ Acts /\ PointerFree
  /\ config' = [config EXCEPT !.asdu = n]
  /\ Draw(active, config', view)
  /\ UNCHANGED <<pubs, active, backend, view, fetches, drag>>

(***************************************************************************)
(* The edit mode.                                                           *)
(***************************************************************************)
EnterEdit ==
  /\ Acts /\ PointerFree
  /\ view.buttons /\ ~view.editing
  /\ view' = [view EXCEPT !.editing = TRUE]
  /\ tree' = IF Drawable(tree)
             THEN [tree EXCEPT !.inputs = [vlanPriority |-> config.prio, svID |-> config.svId]]
             ELSE tree
  /\ PanelStays /\ UNCHANGED <<backend, hex, fetches, own, drag>>

TypePriority(p) ==
  /\ Acts /\ PointerFree
  /\ "vlanPriority" \in DOMAIN tree.inputs
  /\ tree' = [tree EXCEPT !.inputs.vlanPriority = p]
  /\ PanelStays /\ UNCHANGED <<backend, view, hex, fetches, own, drag>>

TypeName(svId) ==
  /\ Acts /\ PointerFree
  /\ "svID" \in DOMAIN tree.inputs
  /\ tree' = [tree EXCEPT !.inputs.svID = svId]
  /\ PanelStays /\ UNCHANGED <<backend, view, hex, fetches, own, drag>>


\* What the inputs that are left hold.
Entered ==
  [config EXCEPT
     !.prio = IF "vlanPriority" \in DOMAIN tree.inputs THEN tree.inputs.vlanPriority ELSE @,
     !.svId = IF "svID" \in DOMAIN tree.inputs THEN tree.inputs.svID ELSE @]


SaveEdits ==
  /\ Acts /\ PointerFree
  /\ view.buttons /\ view.editing
  /\ config' = Entered
  /\ view' = [view EXCEPT !.editing = FALSE]
  /\ Draw(active, Entered, view)
  /\ UNCHANGED <<pubs, active, backend, fetches, drag>>

(***************************************************************************)
(* The real frame.                                                          *)
(***************************************************************************)
\* The loading message replaces all of the line, its two buttons included.
Refresh ==
  /\ Acts /\ PointerFree
  /\ fetches < MaxFetches
  /\ fetches' = fetches + 1
  /\ view' = [view EXCEPT !.source = "fetching", !.buttons = FALSE]
  /\ PanelStays /\ UNCHANGED <<backend, tree, hex, own, drag>>

\* updateTreeWithRealData(): sample i is shown at the i-th channel of the store.
Overlaid(t, frame) ==
  LET asdu == Parsed(Encoded(Stream(frame))).asdu
      Place(ch) == SelectInSeq(Pool, LAMBDA c : c = ch)
  IN  IF ~Drawable(t) THEN t
      ELSE [t EXCEPT !.svId = asdu.svId,
                     !.inputs = IF "vlanPriority" \in DOMAIN @
                                THEN [vlanPriority |-> @.vlanPriority] ELSE @,
                     !.cells = [k \in DOMAIN @ |->
                                  IF Place(t.list[k]) \in DOMAIN asdu.samples
                                  THEN Place(t.list[k]) ELSE @[k]]]

FrameAnswered ==
  /\ fetches > 0 /\ backend # NoFrame
  /\ fetches' = fetches - 1
  /\ view' = [view EXCEPT !.real = backend, !.source = "real"]
  /\ hex' = [kind |-> "real", frame |-> backend]
  /\ tree' = Overlaid(tree, backend)
  /\ PanelStays /\ UNCHANGED <<backend, own, drag, acts>>


\* No publisher, an error, a timeout or a connection that is gone.
FrameRefused ==
  /\ fetches > 0
  /\ fetches' = fetches - 1
  /\ Redraw([view EXCEPT !.real = NoFrame, !.source = "unavailable"])
  /\ PanelStays /\ UNCHANGED <<backend, drag, acts>>

\* updateChannelValues(), on every change of data.channels.
LiveValues ==
  /\ Acts /\ Drawable(tree)
  /\ tree' = [tree EXCEPT !.cells = [k \in DOMAIN @ |-> Live]]
  /\ PanelStays /\ UNCHANGED <<backend, view, hex, fetches, own, drag>>

(***************************************************************************)
(* The panel: streams picked, renamed, removed, sent to the backend.        *)
(***************************************************************************)
Copy(m, pub) == [id |-> m, svId |-> pub.svId, list |-> pub.list]

Pick(m) ==
  /\ Acts /\ PointerFree
  /\ m \in DOMAIN pubs
  /\ Inspect(Copy(m, pubs[m]))
  /\ UNCHANGED <<pubs, backend, fetches, drag>>

\* The configuration page edits the stream in place; no copy is renewed.
Rename(m) ==
  /\ Acts /\ PointerFree
  /\ m \in DOMAIN pubs
  /\ pubs' = [pubs EXCEPT ![m].svId = NewName]
  /\ UNCHANGED <<active, config, backend, view, tree, hex, fetches, own, drag>>

RemoveStream(m) ==
  /\ Acts /\ PointerFree
  /\ m \in DOMAIN pubs
  /\ pubs' = [k \in DOMAIN pubs \ {m} |-> pubs[k]]
  /\ IF m = active.id THEN Inspect(NoMu)
     ELSE UNCHANGED <<active, config, view, tree, hex, own>>
  /\ UNCHANGED <<backend, fetches, drag>>

Lowest == CHOOSE m \in DOMAIN pubs : \A k \in DOMAIN pubs : m <= k

\* A start configures the streams; the request for a frame is for the lowest.
StartStreams ==
  /\ Acts /\ PointerFree
  /\ pubs # <<>>
  /\ backend' = Frame(pubs[Lowest].svId, pubs[Lowest].list, config, 1)
  /\ PanelStays /\ UNCHANGED <<view, tree, hex, fetches, own, drag>>

(***************************************************************************)
(* The channels of the stream under inspection, or of the store without one.*)
(***************************************************************************)
EffectiveList == IF active = NoMu THEN config.list ELSE active.list

ListBecomes(list) ==
  IF active = NoMu
  THEN /\ Configure([config EXCEPT !.list = list])
       /\ UNCHANGED pubs
  ELSE /\ pubs' = [pubs EXCEPT ![active.id].list = list]
       /\ Inspect(Copy(active.id, pubs'[active.id]))

ListStays == PanelStays /\ UNCHANGED <<view, tree, hex, own>>

Unlisted == {k \in DOMAIN Pool : Pool[k] \notin ToSet(EffectiveList)}

AddChannel ==
  /\ Acts /\ PointerFree /\ Drawable(tree)
  /\ Unlisted # {}
  /\ ListBecomes(Append(EffectiveList, Pool[CHOOSE k \in Unlisted : \A j \in Unlisted : k <= j]))
  /\ UNCHANGED <<backend, fetches, drag>>

RemoveChannel(i) ==
  /\ Acts /\ PointerFree
  /\ i \in DOMAIN tree.list
  /\ ListBecomes(RemoveAt(EffectiveList, i))
  /\ UNCHANGED <<backend, fetches, drag>>

\* Mutant of Changed: written over.
Changed_Over(list, i, ch) == [list EXCEPT ![i] = ch]

\* A channel that is listed elsewhere changes places.
Changed(list, i, ch) ==
  [k \in DOMAIN list |-> IF k = i THEN ch ELSE IF list[k] = ch THEN list[i] ELSE list[k]]

ChangeChannel(i, ch) ==
  /\ Acts /\ PointerFree
  /\ i \in DOMAIN tree.list
  /\ ListBecomes(Changed(EffectiveList, i, ch))
  /\ UNCHANGED <<backend, fetches, drag>>

\* The mousedown handler fails after it has marked the row.
OwnDragStarts(i) ==
  /\ Acts /\ PointerFree
  /\ i \in DOMAIN tree.list
  /\ own' = [row |-> i, stale |-> FALSE]
  /\ PanelStays /\ UNCHANGED <<backend, view, tree, hex, fetches, drag>>

Moved(list, from, to) == InsertAt(RemoveAt(list, from), to, list[from])

\* Released over row i, or elsewhere (0).
OwnDragEnds(i) ==
  /\ own.row # 0
  /\ i \in DOMAIN tree.list \cup {0}
  /\ own' = Free
  /\ IF i # 0 /\ (i # own.row \/ own.stale) /\ own.row \in DOMAIN EffectiveList
     THEN /\ pubs' = [pubs EXCEPT ![active.id].list = Moved(@, own.row, i)]
          /\ active' = Copy(active.id, pubs'[active.id])
          /\ tree' = TreeOf(active', config, view.expanded)
          /\ hex' = HexOf(active', config, view.real)
     ELSE UNCHANGED <<pubs, active, tree, hex>>
  /\ UNCHANGED <<config, backend, view, fetches, drag, acts>>

(***************************************************************************)
(* The drag manager: a channel dragged from the table of channels.          *)
(***************************************************************************)
StartDrag(ch) ==
  /\ Acts /\ PointerFree
  /\ drag' = [data |-> ch, over |-> FALSE, ghosts |-> 1, zone |-> FALSE]
  /\ ListStays /\ UNCHANGED <<backend, fetches>>

\* The zone lights up when the pointer enters it and no longer when it leaves.
DragMoves(over) ==
  /\ drag # NoDrag
  /\ drag' = [drag EXCEPT !.over = over, !.zone = over]
  /\ ListStays /\ UNCHANGED <<backend, fetches, acts>>


\* endDrag()
Ended(d) ==
  [d EXCEPT !.data = "none", !.over = FALSE, !.zone = IF d.over THEN FALSE ELSE @,
            !.ghosts = @ - 1]

Refuses(ch) == ch \in ToSet(EffectiveList)

\* handleMouseUp(): only where the pointer is now counts.
DragDrops(over) ==
  /\ drag # NoDrag
  /\ drag' = Ended(drag)
  /\ IF over /\ ~Refuses(drag.data) THEN ListBecomes(Append(EffectiveList, drag.data))
                                    ELSE ListStays
  /\ UNCHANGED <<backend, fetches, acts>>

DragLeavesWindow ==
  /\ drag # NoDrag
  /\ drag' = Ended(drag)
  /\ ListStays /\ UNCHANGED <<backend, fetches, acts>>

ViewNext ==
  \/ \E n \in Toggled : ClickNode(n)
  \/ ExpandAll \/ CollapseAll
  \/ \E n \in AsduCounts : ChooseAsdu(n)
  \/ EnterEdit \/ SaveEdits
  \/ \E p \in Priorities : TypePriority(p)
  \/ TypeName(NewName)
  \/ Refresh \/ FrameAnswered \/ FrameRefused \/ LiveValues
  \/ \E m \in Mus : Pick(m) \/ Rename(m) \/ RemoveStream(m)
  \/ StartStreams
  \/ AddChannel
  \/ \E i \in 1..Len(Pool) : RemoveChannel(i) \/ OwnDragStarts(i)
  \/ \E i \in 1..Len(Pool), ch \in ToSet(Pool) : ChangeChannel(i, ch)
  \/ \E i \in 0..Len(Pool) : OwnDragEnds(i)
  \/ \E ch \in ToSet(Pool) : StartDrag(ch)
  \/ \E over \in BOOLEAN : DragMoves(over) \/ DragDrops(over)
  \/ DragLeavesWindow

ViewSpec == ViewInit /\ [][ViewNext]_viewVars

(***************************************************************************)
(* Properties.                                                              *)
(***************************************************************************)
Lists == UNION {[1..n -> ToSet(Pool)] : n \in 0..(Len(Pool) + 1)}

\* Every variable has its type.
ViewTypeOK ==
  /\ DOMAIN pubs \subseteq Mus
  /\ \A m \in DOMAIN pubs : pubs[m].list \in Lists
  /\ active.id \in Mus \cup {0} /\ active.list \in Lists
  /\ config.prio \in Priorities \cup {4} /\ config.asdu \in AsduCounts /\ config.list \in Lists
  /\ view.editing \in BOOLEAN /\ view.buttons \in BOOLEAN
  /\ view.source \in {"calculated", "fetching", "real", "unavailable"}
  /\ tree.list \in Lists /\ DOMAIN tree.inputs \subseteq Fields
  /\ DOMAIN tree.cells = DOMAIN tree.list
  /\ hex.kind \in {"none", "calc", "real"}
  /\ fetches \in 0..MaxFetches
  /\ own.row \in 0..Len(Pool)
  /\ drag.data \in ToSet(Pool) \cup {"none"} /\ drag.ghosts \in 0..1
  /\ acts \in 0..MaxActs

\* What is drawn is what would be drawn: the rows are the channels of the
\* stream under inspection, once each, and exactly the nodes recorded as
\* expanded are open, whether drawn anew or patched (createTreeNode(),
\* toggleNode(), the subscriptions of _subscribeToStore()).
TreeIsCurrent ==
  /\ Drawable(tree) <=> active # NoMu
  /\ Drawable(tree) => /\ tree.list = pubs[active.id].list
                       /\ tree.asdu = config.asdu
                       /\ tree.prio = Effective(config.prio)
  /\ tree.open = view.expanded \cap Expandable(tree)

\* No channel is in a frame twice, whichever of the button, the list of a row
\* and the two drags brought it there.
ChannelsOnce ==
  /\ IsInjective(config.list)
  /\ \A m \in DOMAIN pubs : IsInjective(pubs[m].list)

\* Between fetches the line over the tree tells whether a real frame is kept,
\* and the dump shows that frame, or the one computed from the stream
\* inspected now (refreshRealFrame(), generateHexDump()).
SourceIsTold ==
  /\ view.source = "real" => view.real # NoFrame
  /\ view.source \in {"calculated", "unavailable"} => view.real = NoFrame
  /\ active # NoMu => hex = HexOf(active, config, view.real)

\* There are inputs in the tree only while it is edited.
InputsMeanEditing == DOMAIN tree.inputs # {} => view.editing

\* Without a drag there is nothing of one: no ghost, no zone lit
\* (endDrag(), hideDropZoneFeedback()).
DragLeavesNothing ==
  /\ drag.data = "none" => drag = NoDrag
  /\ drag.zone => drag.over

\* Edits of the tree, drags of channels and answers for real frames may come in
\* any order: lists, sources, inputs and drags all stay as described above.
ViewConsistent ==
  ViewTypeOK /\ ChannelsOnce /\ SourceIsTold /\ InputsMeanEditing /\ DragLeavesNothing

\* The parser finds in the real frame what its stream was configured with: the
\* name, and the samples of its first eight channels at their places
\* (parseRealFrame() against sv_encoder_encode_packet()).
FrameIsParsed ==
  view.real # NoFrame =>
    LET p == Parsed(Encoded(Stream(view.real)))
        sent == Stream(view.real).samples
    IN  /\ p.asdu.svId = view.real.svId /\ p.appId = AppId /\ p.vlan = view.real.vlan
        /\ p.asdu.confRev = ConfRev /\ p.asdu.synch = Synch
        /\ sent # <<>> => p.asdu.samples = SubSeq(sent, 1, IF Len(sent) < 8 THEN Len(sent) ELSE 8)

(***************************************************************************)
(* The bytes a node of the tree stands for.                                 *)
(***************************************************************************)
Shape(t) == [sv |-> Len(active.svId), chs |-> Len(t.list), asdu |-> t.asdu]

\* highlightBytesForNode()
Highlighted(span, bytes) == Positions(span) \cap (0..(Len(bytes) - 1))

ShownAt(spans, bytes) ==
  \A n \in DOMAIN spans \ {"ethernet"} :
    BytesOf(bytes, n) # {} => Highlighted(spans[n], bytes) = BytesOf(bytes, n)

FieldsShownAt(bytes) == ShownAt(Header, bytes) /\ ShownAt(InAsdu(Shape(tree), 0), bytes)

\* The parts of the tree lie in their whole and apart from each other: the
\* fields in the ASDU, the ASDUs in the savPdu, that in the frame.
PartsNest ==
  Drawable(tree) =>
    LET sh == Shape(tree)
    IN  /\ Within(Apdu(sh), SvPdu(sh))
        /\ \A i \in 0..(sh.asdu - 1) :
             /\ Within(Asdu(sh, i), Apdu(sh))
             /\ Apart(Asdu(sh, i), Header["noasdu"])
             /\ \A j \in 0..(i - 1) : Apart(Asdu(sh, i), Asdu(sh, j))
             /\ \A n \in DOMAIN InAsdu(sh, i) :
                  /\ Within(InAsdu(sh, i)[n], Asdu(sh, i))
                  /\ \A k \in DOMAIN InAsdu(sh, i) \ {n} :
                       Apart(InAsdu(sh, i)[n], InAsdu(sh, i)[k])

\* Hovering over a node highlights its field in the dump the viewer makes up:
\* of a real frame the encoder writes longer lengths, and no tag without a VLAN,
\* so that there nodes and bytes part.
MadeUpBytesAligned ==
  Drawable(tree) /\ hex.kind = "calc" => FieldsShownAt(HexBytes(hex))

\* What the viewer says of bytes is so: the parser against the encoder, the
\* nodes of the tree among each other and against the dump.
BytesAgree == FrameIsParsed /\ PartsNest /\ MadeUpBytesAligned
=============================================================================
