---------------------- MODULE ContentPublicationProofs ----------------------
(***************************************************************************)
(* Proofs about the content publication, for any windows, widths, drawings, *)
(* requests, refusals and losses of the compositor: every release finds the *)
(* buffer it is for, no buffer is kept for ever, and no drawing is lost on  *)
(* its way to the screen.                                                   *)
(***************************************************************************)
EXTENDS ContentPublication, FiniteSetTheorems, SequenceTheorems, TLAPS

-----------------------------------------------------------------------------
(* The inductive invariant *)

Ids(buffers) == {buffers[w] : w \in Windows} \ {0}
Answered(reason) == {r.id : r \in {q \in releases : q.reason = reason}}
Nothing == [w \in Windows |-> 0]

\* gwcomp shows an operation whose client has left, and the presenter still
\* has the frame in flight: the rollback will stop the server, unless gwcomp
\* is lost before.
Undone == phase = "RollingBackPolicy" /\ inFlight

Snapshots == {s \in [Windows -> [width : AnyWidth, shown : BOOLEAN]] :
                 \A w \in Windows : s[w] \in WindowStates(w)}
Buffers == [Windows -> BufferIds]

Typed ==
    /\ TypeOK
    /\ committed \in Snapshots
    /\ memory \in Seq(Pixels)
    /\ frame \in [kind : {"None", "Lifecycle", "Content", "Replay"}, snapshot : Snapshots,
                  buffers : Buffers, damage : [Windows -> SUBSET AnyPlaces]]
    /\ replay \in [snapshot : Snapshots, buffers : Buffers]
    /\ gwcomp \in [scene : Snapshots, attached : Buffers, pending : Buffers,
                   mapped : SUBSET BufferIds]
    /\ screen \in [Windows -> Pixels]
    /\ forgotten \in [Windows -> SUBSET AnyPlaces]
    /\ DOMAIN child = Windows /\ DOMAIN bare = Windows
    /\ count \in [draws : 0..MaxDraws, requests : Nat, rejections : Nat, losses : Nat]
    /\ canceled \in BOOLEAN /\ inFlight \in BOOLEAN /\ attempted \in BOOLEAN /\ link \in BOOLEAN

\* Which frame each phase has in flight, and what it is a frame of.
Flow ==
    /\ frame.kind = "None" => frame = NoFrame
    /\ phase = "Idle" => canceled = FALSE /\ frame.kind # "Lifecycle"
    /\ phase = "RollingBackPolicy" => frame.kind = "None"
    /\ phase \in {"AwaitingCompositor", "RollingBackCompositor"} => frame.kind = "Lifecycle"
    /\ frame.kind # "None" /\ phase # "AwaitingCompositor" => frame.snapshot = committed
    /\ phase = "AwaitingCompositor" => frame.snapshot # committed
    /\ phase \in {"Idle", "AwaitingCompositor"} => replay.snapshot = committed
    /\ ~canceled => replay.snapshot = committed
    /\ Undone => link /\ Orphaned

\* What the presenter has in flight is what the frame carries, until gwcomp is
\* lost.
Carried ==
    /\ ~link \/ (frame.kind = "None" /\ ~Undone) =>
          inFlight = FALSE
    /\ ~inFlight => \A w \in Windows : content[w].buffer = 0 /\ content[w].inflight = {}
    /\ link /\ frame.kind # "None" =>
          \A w \in Windows : content[w].buffer = frame.buffers[w]
    /\ \A w \in Windows : frame.kind # "None" /\ frame.snapshot[w].shown =>
          content[w].inflight \subseteq frame.damage[w]
    /\ \A w \in Windows : w \notin Present(frame.snapshot) =>
          frame.buffers[w] = 0
    /\ phase = "Idle" /\ frame.kind # "Replay" => \A w \in Windows : content[w].storage = <<>>

\* The buffers fit their windows; those of a frame are new.
Fitting ==
    /\ \A w \in Windows : current[w] # 0 <=> w \in Present(committed)
    /\ \A w, v \in Windows : current[w] = current[v] => current[w] = 0 \/ w = v
    /\ \A w, v \in Windows : frame.buffers[w] = frame.buffers[v] => frame.buffers[w] = 0 \/ w = v
    /\ \A w \in Present(committed) : Len(memory[current[w]]) = committed[w].width
    /\ \A w \in Windows : replay.buffers[w] # 0 <=> w \in Present(replay.snapshot)
    /\ \A w \in Present(replay.snapshot) :
          Len(memory[replay.buffers[w]]) = replay.snapshot[w].width
    /\ frame.kind # "None" => \A w \in Present(frame.snapshot) :
          IF frame.buffers[w] # 0
          THEN Len(memory[frame.buffers[w]]) = frame.snapshot[w].width
          ELSE w \in Present(committed) /\ committed[w].width = frame.snapshot[w].width
    /\ frame.kind \in {"Lifecycle", "Replay"} => \A w \in Present(frame.snapshot) :
          Len(content[w].storage) = frame.snapshot[w].width
    /\ Ids(frame.buffers) \cap (Ids(current) \cup discarded \cup {r.id : r \in releases}) = {}

\* What gwcomp holds is what the server replays, and that is what the
\* presenter has, unless the client of what is shown has left.
Shared ==
    /\ link => gwcomp.attached = replay.buffers /\ gwcomp.scene = replay.snapshot
    /\ link /\ phase = "Idle" /\ frame.kind \in {"None", "Content"} =>
          gwcomp.pending = gwcomp.attached
    /\ ~Orphaned => replay.buffers = current
    /\ \A w \in Windows : \/ replay.buffers[w] = current[w]
                          \/ replay.buffers[w] \notin Ids(current)

\* Every buffer the presenter waits for is mapped by gwcomp or its release is
\* under way, and gwcomp maps no other.
Matching ==
    /\ ~link => releases = {} /\ retired = {} /\ discarded = {} /\ gwcomp = EmptyPeer
    /\ link /\ ~Orphaned =>
          /\ retired = {r \in releases : r.reason # "ConsumerDone"}
          /\ Answered("ConsumerDone") \subseteq discarded
          /\ discarded \subseteq gwcomp.mapped \cup Answered("ConsumerDone")
          /\ gwcomp.mapped \subseteq Ids(current) \cup discarded
          /\ gwcomp.mapped \cap {r.id : r \in releases} = {}
          /\ discarded \cap Ids(current) = {}
    /\ link /\ Orphaned /\ ~Undone =>
          /\ retired = {} /\ discarded = {}
          /\ Present(committed) \subseteq Present(replay.snapshot) => releases = {}
          /\ gwcomp.mapped \subseteq Ids(replay.buffers)
          /\ Ids(frame.buffers) = {}
          /\ Ids(replay.buffers) \subseteq Ids(current)
    /\ link /\ frame.kind # "None" /\ ~inFlight =>
          /\ releases = {} /\ retired = {} /\ discarded = {}
          /\ Ids(frame.buffers) = {}

\* The places of w that a narrower frame, in flight or shown, does not have.
Shape == IF phase = "AwaitingCompositor" THEN frame.snapshot ELSE replay.snapshot
Beyond(w) == IF w \in Present(Shape)
             THEN Places(committed[w].width) \ Places(Shape[w].width) ELSE {}
Owed(w) == content[w].pending \cup content[w].inflight \cup forgotten[w] \cup Beyond(w)

\* The buffer of a window holds what is composed but for what is still to be
\* copied, and for the places of a subwindow that a commit has laid bare.
Copied ==
    \A w \in Present(committed) : \A i \in Places(committed[w].width) \ Owed(w) :
        i \notin bare[w] => memory[current[w]][i] = Composed(w)[i]

\* What a frame shows of w with width n, whatever is staged.
Look(w, n) == IF n = Len(pixels[w]) THEN Composed(w) ELSE Resize(pixels[w], n)

\* The buffer a frame leads to holds what is composed for it.
Sent == frame.kind # "None" =>
    \A w \in Present(frame.snapshot) :
        \A i \in Places(frame.snapshot[w].width)
                 \ (content[w].pending \cup forgotten[w] \cup bare[w]) :
            memory[IF frame.buffers[w] # 0 THEN frame.buffers[w] ELSE current[w]][i]
                = Look(w, frame.snapshot[w].width)[i]

\* The storage a frame leads to is the window's, but for what was drawn since.
Stored ==
    \A w \in Windows :
        /\ \A i \in Places(Len(content[w].storage)) :
              i \notin content[w].pending \/ pixels[w] = <<>> =>
                  content[w].storage[i] = Resize(pixels[w], Len(content[w].storage))[i]
        /\ Len(content[w].storage) = Len(pixels[w]) => content[w].storage = pixels[w]

\* The screen shows the buffers but for what is still to be drawn.
Drawn == link /\ ~Undone =>
    \A w \in Windows : gwcomp.scene[w].shown =>
        /\ Len(screen[w]) = gwcomp.scene[w].width
        /\ \A i \in Places(gwcomp.scene[w].width) \ Owed(w) :
              screen[w][i] = memory[gwcomp.attached[w]][i]

Inductive == Running =>
    /\ Typed /\ Flow /\ Carried /\ Fitting /\ Shared /\ Matching
    /\ Copied /\ Sent /\ Stored /\ Drawn

-----------------------------------------------------------------------------
(* Data *)

\* A window's width is 0 when it is absent and one of its widths otherwise.
LEMMA WidthFacts ==
    /\ AnyWidth \subseteq Nat /\ 0 \in AnyWidth
    /\ \A s \in Snapshots, w \in Windows :
          /\ s[w].width \in AnyWidth /\ s[w].shown \in BOOLEAN
          /\ w \in Present(s) <=> s[w].width # 0
          /\ w \notin Present(s) => s[w] = Absent /\ ~s[w].shown
  <1>1. \A w \in Windows : Widths[w] \subseteq Nat \ {0}
    BY ContentAssumption
  <1>2. AnyWidth \subseteq Nat /\ 0 \in AnyWidth
    BY <1>1 DEF AnyWidth
  <1>3. ASSUME NEW s \in Snapshots, NEW w \in Windows
        PROVE  /\ s[w].width \in AnyWidth /\ s[w].shown \in BOOLEAN
               /\ w \in Present(s) <=> s[w].width # 0
               /\ w \notin Present(s) => s[w] = Absent /\ ~s[w].shown
    <2>1. s \in [Windows -> [width : AnyWidth, shown : BOOLEAN]] /\ s[w] \in WindowStates(w)
      BY DEF Snapshots
    <2>2. s[w].width \in AnyWidth /\ s[w].shown \in BOOLEAN /\ s[w].width \in Nat
      BY <2>1, <1>2
    <2>3. w \in Present(s) <=> s[w].width # 0
      BY <2>2 DEF Present
    <2>4. s[w].width = 0 => s[w] = Absent
      BY <2>1, <1>1 DEF WindowStates
    <2> QED
      BY <2>2, <2>3, <2>4 DEF Absent
  <1> QED
    BY <1>2, <1>3

\* A row of pixels is a sequence of one of the widths.
LEMMA PixelsFacts ==
    ASSUME NEW p \in Pixels
    PROVE  /\ p \in Seq(0..MaxDraws) /\ Len(p) \in AnyWidth /\ Len(p) \in Nat
           /\ DOMAIN p = 1..Len(p) /\ \A i \in 1..Len(p) : p[i] \in 0..MaxDraws
  <1>1. PICK n \in AnyWidth : p \in [1..n -> 0..MaxDraws]
    BY DEF Pixels, Places
  <1>2. n \in Nat
    BY <1>1, WidthFacts
  <1>3. p \in Seq(0..MaxDraws)
    BY <1>1, <1>2, SeqDef
  <1>4. Len(p) = n
    BY <1>1, <1>2, <1>3, LenProperties
  <1> QED
    BY <1>1, <1>2, <1>3, <1>4

LEMMA PixelsOf ==
    ASSUME NEW n \in AnyWidth, NEW p \in [1..n -> 0..MaxDraws]
    PROVE  p \in Pixels /\ Len(p) = n
  <1>1. p \in Pixels
    BY DEF Pixels, Places
  <1>2. Len(p) \in Nat /\ DOMAIN p = 1..Len(p)
    BY <1>1, PixelsFacts
  <1>3. n \in Nat
    BY WidthFacts
  <1> QED
    BY <1>1, <1>2, <1>3

LEMMA NoPixels == << >> \in Pixels /\ Len(<< >>) = 0
  <1>1. << >> \in [1..0 -> 0..MaxDraws]
    BY EmptySeq, LenProperties
  <1> QED
    BY <1>1, PixelsOf, WidthFacts

LEMMA ResizeFacts ==
    ASSUME NEW p \in Pixels, NEW n \in AnyWidth
    PROVE  /\ Resize(p, n) \in Pixels /\ Len(Resize(p, n)) = n
           /\ \A i \in 1..n : Resize(p, n)[i] = IF i <= Len(p) THEN p[i] ELSE 0
           /\ n = Len(p) => Resize(p, n) = p
  <1> DEFINE r == [i \in 1..n |-> IF i <= Len(p) THEN p[i] ELSE 0]
  <1>1. n \in Nat /\ MaxDraws \in Nat
    BY WidthFacts, ContentAssumption
  <1>2. r \in [1..n -> 0..MaxDraws]
    BY <1>1, PixelsFacts
  <1>3. r = Resize(p, n)
    BY DEF Resize, Places
  <1>4. n = Len(p) => r = p
    <2>1. SUFFICES ASSUME n = Len(p)
                   PROVE  r = p
      OBVIOUS
    <2>2. DOMAIN p = 1..n /\ p = [i \in DOMAIN p |-> p[i]]
      BY <2>1, PixelsFacts
    <2> QED
      BY <2>1, <2>2, <1>1
  <1> QED
    BY <1>2, <1>3, <1>4, PixelsOf

LEMMA CopyFacts ==
    ASSUME NEW to \in Pixels, NEW from \in Pixels, NEW places,
           places \cap (1..Len(to)) \subseteq 1..Len(from)
    PROVE  /\ Copy(to, from, places) \in Pixels
           /\ Len(Copy(to, from, places)) = Len(to)
           /\ \A i \in 1..Len(to) :
                 Copy(to, from, places)[i] = IF i \in places THEN from[i] ELSE to[i]
  <1>1. Copy(to, from, places) = [i \in 1..Len(to) |-> IF i \in places THEN from[i] ELSE to[i]]
    BY PixelsFacts DEF Copy
  <1>2. Copy(to, from, places) \in [1..Len(to) -> 0..MaxDraws]
    BY <1>1, PixelsFacts
  <1> QED
    BY <1>1, <1>2, PixelsOf, PixelsFacts

\* A window's pixels p under a subwindow at the places C with the pixels q.
Over(p, seen, C, q) == [i \in DOMAIN p |-> IF seen /\ i \in C THEN q[i] ELSE p[i]]
Children(w) == [mapped : BOOLEAN, pixels : [Covered[w] -> 0..MaxDraws]]

LEMMA OverFacts ==
    ASSUME NEW p \in Pixels, NEW seen \in BOOLEAN, NEW C, NEW q \in [C -> 0..MaxDraws]
    PROVE  /\ Over(p, seen, C, q) \in Pixels /\ Len(Over(p, seen, C, q)) = Len(p)
           /\ \A i \in 1..Len(p) :
                 Over(p, seen, C, q)[i] = IF seen /\ i \in C THEN q[i] ELSE p[i]
  <1>1. Over(p, seen, C, q) = [i \in 1..Len(p) |-> IF seen /\ i \in C THEN q[i] ELSE p[i]]
    BY PixelsFacts DEF Over
  <1>2. Over(p, seen, C, q) \in [1..Len(p) -> 0..MaxDraws]
    BY <1>1, PixelsFacts
  <1> QED
    BY <1>1, <1>2, PixelsOf, PixelsFacts

\* A finite set as a sequence has each of its elements at one place.
LEMMA SetToSeqFacts ==
    ASSUME NEW S, IsFiniteSet(S)
    PROVE  /\ SetToSeq(S) \in [1..Cardinality(S) -> S] /\ Cardinality(S) \in Nat
           /\ Len(SetToSeq(S)) = Cardinality(S)
           /\ DOMAIN SetToSeq(S) = 1..Cardinality(S)
           /\ \A i, j \in 1..Cardinality(S) : SetToSeq(S)[i] = SetToSeq(S)[j] => i = j
           /\ \A x \in S : \E i \in 1..Cardinality(S) : SetToSeq(S)[i] = x
  <1> DEFINE n == Cardinality(S)
             q == SetToSeq(S)
  <1>1. n \in Nat /\ ExistsBijection(1..n, S)
    BY FS_CardinalityType
  <1>2. \E f \in [1..n -> S] : IsInjective(f)
    BY <1>1 DEF ExistsBijection, Bijection, Injection
  <1>3. q \in [1..n -> S] /\ IsInjective(q)
    BY <1>2 DEF SetToSeq
  <1> DEFINE T == {q[i] : i \in 1..n}
  <1>4. T \in SUBSET S
    BY <1>3
  <1>5. q \in Bijection(1..n, T)
    BY <1>3 DEF Bijection, Injection, Surjection, IsInjective
  <1>6. ExistsBijection(1..n, T)
    BY <1>5 DEF ExistsBijection
  <1>7. Cardinality(T) = n
    BY <1>1, <1>6, FS_CountingElements
  <1>8. S = T
    BY <1>4, <1>7, FS_Subset
  <1>9. Len(q) = n
    <2>1. q \in Seq(S)
      BY <1>1, <1>3, SeqDef
    <2> QED
      BY <1>1, <1>3, <2>1, LenProperties
  <1> QED
    BY <1>1, <1>3, <1>8, <1>9 DEF IsInjective
-----------------------------------------------------------------------------
(* The presenter's operators *)

\* What the presenter remembers of the windows.
Entry == [pending : SUBSET AnyPlaces, inflight : SUBSET AnyPlaces,
          storage : Pixels, buffer : BufferIds]

\* What is composed and what is published of a window are rows of its width.
LEMMA ComposedFacts ==
    ASSUME Typed, NEW w \in Windows
    PROVE  /\ Composed(w) = Over(pixels[w], Viewable(w), Covered[w], child[w].pixels)
           /\ Composed(w) \in Pixels /\ Len(Composed(w)) = committed[w].width
           /\ \A i \in 1..committed[w].width : Composed(w)[i] =
                 IF Viewable(w) /\ i \in Covered[w] THEN child[w].pixels[i] ELSE pixels[w][i]
  <1>1. /\ pixels[w] \in Pixels /\ Len(pixels[w]) = committed[w].width
        /\ child[w] \in Children(w) /\ committed[w].shown \in BOOLEAN
    BY WidthFacts DEF Typed, TypeOK, Children
  <1>2. Viewable(w) \in BOOLEAN /\ child[w].pixels \in [Covered[w] -> 0..MaxDraws]
    BY <1>1 DEF Viewable, Children
  <1>3. Composed(w) = Over(pixels[w], Viewable(w), Covered[w], child[w].pixels)
    BY DEF Composed, Over
  <1> QED
    BY <1>1, <1>2, <1>3, OverFacts

LEMMA LookFacts ==
    ASSUME Typed, NEW w \in Windows, NEW n \in AnyWidth
    PROVE  /\ Look(w, n) \in Pixels /\ Len(Look(w, n)) = n
           /\ n = committed[w].width => Look(w, n) = Composed(w)
           /\ \A i \in 1..n : i \notin Covered[w] \/ ~Viewable(w) =>
                 Look(w, n)[i] = Resize(pixels[w], n)[i]
  <1>1. pixels[w] \in Pixels /\ Len(pixels[w]) = committed[w].width
    BY DEF Typed, TypeOK
  <1>2. /\ Resize(pixels[w], n) \in Pixels /\ Len(Resize(pixels[w], n)) = n
        /\ n = committed[w].width => Resize(pixels[w], n) = pixels[w]
    BY <1>1, ResizeFacts
  <1>3. /\ Composed(w) \in Pixels /\ Len(Composed(w)) = committed[w].width
        /\ \A i \in 1..committed[w].width : Composed(w)[i] =
              IF Viewable(w) /\ i \in Covered[w] THEN child[w].pixels[i] ELSE pixels[w][i]
    BY ComposedFacts
  <1> QED
    BY <1>1, <1>2, <1>3 DEF Look

LEMMA SourceFacts ==
    ASSUME Typed, NEW s \in Snapshots, NEW w \in Windows
    PROVE  /\ Source(w, s[w].width) \in Pixels /\ Len(Source(w, s[w].width)) = s[w].width
           /\ StagedStorage(w, s[w].width) \in Pixels
           /\ Len(StagedStorage(w, s[w].width)) = s[w].width
  <1>1. pixels[w] \in Pixels /\ content[w].storage \in Pixels /\ Len(pixels[w]) = committed[w].width
    BY DEF Typed, TypeOK
  <1>2. s[w].width \in AnyWidth
    BY WidthFacts
  <1>3. Resize(pixels[w], s[w].width) \in Pixels /\ Len(Resize(pixels[w], s[w].width)) = s[w].width
    BY <1>1, <1>2, ResizeFacts
  <1>4. Composed(w) \in Pixels /\ Len(Composed(w)) = committed[w].width
    BY ComposedFacts
  <1> QED
    BY <1>1, <1>3, <1>4 DEF Source, StagedStorage

\* What a new frame is made of: the frame is of snapshot s; the windows that
\* need a fresh buffer get one each, with all their pixels; the others keep
\* theirs, and their pending damage is copied into it.
Handed(kind, targets, s, force, from) ==
    LET fresh == Fresh(targets, s, force)
    IN  /\ memory' \in Seq(Pixels) /\ Len(memory) \in Nat /\ Len(memory') \in Nat
        /\ Len(memory) <= Len(memory')
        /\ \A i \in 1..Len(memory) : Len(memory'[i]) = Len(memory[i])
        /\ \A i \in 1..Len(memory) : (\A w \in targets \ fresh : current[w] # i)
              => memory'[i] = memory[i]
        /\ frame'.kind = kind /\ frame'.snapshot = s /\ inFlight' = TRUE
        /\ frame' \in [kind : {"None", "Lifecycle", "Content", "Replay"},
                       snapshot : Snapshots, buffers : [Windows -> BufferIds'],
                       damage : [Windows -> SUBSET AnyPlaces]]
        /\ content' \in [Windows -> Entry']
        /\ \A w \in Windows \ targets : content'[w] = from[w] /\ frame'.buffers[w] = 0
        /\ \A w \in targets :
              /\ content'[w].pending = {} /\ content'[w].buffer = frame'.buffers[w]
              /\ content'[w].storage = IF kind = "Content" THEN from[w].storage
                                       ELSE StagedStorage(w, s[w].width)
              /\ content'[w].inflight =
                    IF w \in fresh THEN Places(s[w].width)
                    ELSE from[w].pending \cap Places(s[w].width)
              /\ s[w].shown => frame'.damage[w] = content'[w].inflight
        /\ \A w \in fresh :
              /\ frame'.buffers[w] \in (Len(memory) + 1)..Len(memory')
              /\ memory'[frame'.buffers[w]] = Source(w, s[w].width)
        /\ \A w \in targets \ fresh :
              /\ frame'.buffers[w] = 0 /\ current[w] \in 1..Len(memory)
              /\ Len(memory[current[w]]) = s[w].width
              /\ \A i \in 1..s[w].width : memory'[current[w]][i] =
                    IF i \in from[w].pending THEN Source(w, s[w].width)[i]
                    ELSE memory[current[w]][i]
        /\ \A w, v \in Windows : frame'.buffers[w] = frame'.buffers[v]
                                 => frame'.buffers[w] = 0 \/ w = v
        /\ DOMAIN bare' = Windows
        /\ \A w \in Windows : bare'[w] = IF w \in targets THEN bare[w] \ content'[w].inflight
                                          ELSE bare[w]

LEMMA PublishFacts ==
    ASSUME Typed, Fitting,
           NEW kind \in {"Lifecycle", "Content", "Replay"}, NEW s \in Snapshots,
           NEW targets \in SUBSET Present(s), NEW force \in BOOLEAN,
           NEW from \in [Windows -> Entry],
           kind = "Content" => s = committed,
           Publish(kind, targets, s, force, from)
    PROVE  Handed(kind, targets, s, force, from)
  <1> DEFINE fresh == Fresh(targets, s, force)
             order == SetToSeq(fresh)
             n == Cardinality(fresh)
             m == Len(memory)
             place(w) == CHOOSE i \in DOMAIN order : order[i] = w
             id(w) == IF w \in fresh THEN m + place(w) ELSE 0
             dirty(w) == IF w \in fresh THEN Places(s[w].width)
                         ELSE from[w].pending \cap Places(s[w].width)
             source(w) == Source(w, s[w].width)
             taker(i) == CHOOSE w \in targets \ fresh : current[w] = i
             row(i) == IF i > m THEN source(order[i - m])
                       ELSE IF \E w \in targets \ fresh : current[w] = i
                       THEN Copy(memory[i], source(taker(i)), dirty(taker(i)))
                       ELSE memory[i]
  <1>1. /\ targets \subseteq Windows /\ fresh \subseteq targets
        /\ IsFiniteSet(fresh)
    BY ContentAssumption, FS_Subset DEF Fresh, Present
  <1>2. /\ order \in [1..n -> fresh] /\ n \in Nat /\ Len(order) = n /\ DOMAIN order = 1..n
        /\ \A i, j \in 1..n : order[i] = order[j] => i = j
        /\ \A w \in fresh : \E i \in 1..n : order[i] = w
    BY <1>1, SetToSeqFacts
  <1>3. m \in Nat /\ memory \in [1..m -> Pixels] /\ DOMAIN memory = 1..m
    BY LenProperties DEF Typed
  <1>4. /\ memory' = [i \in 1..(m + n) |-> row(i)]
        /\ content' = [w \in Windows |->
              IF w \in targets
              THEN [pending |-> {}, inflight |-> dirty(w), buffer |-> id(w),
                    storage |-> IF kind = "Content" THEN from[w].storage
                                ELSE StagedStorage(w, s[w].width)]
              ELSE from[w]]
        /\ frame' = [kind |-> kind, snapshot |-> s,
                     buffers |-> [w \in Windows |-> IF w \in targets THEN id(w) ELSE 0],
                     damage |-> [w \in Windows |->
                                    IF w \in targets /\ s[w].shown THEN dirty(w) ELSE {}]]
        /\ inFlight' = TRUE
        /\ bare' = [w \in Windows |-> IF w \in targets THEN bare[w] \ dirty(w) ELSE bare[w]]
    BY <1>2 DEF Publish
  <1>5. \A w \in fresh : place(w) \in 1..n /\ order[place(w)] = w
    BY <1>2
  <1>6. \A w \in Windows : source(w) \in Pixels /\ Len(source(w)) = s[w].width
                           /\ StagedStorage(w, s[w].width) \in Pixels
    BY SourceFacts
  <1>7. \A w \in targets \ fresh :
           /\ current[w] \in 1..m /\ Len(memory[current[w]]) = s[w].width
           /\ taker(current[w]) = w
    <2>1. TAKE w \in targets \ fresh
    <2>2. current[w] # 0 /\ Len(memory[current[w]]) = s[w].width
      BY DEF Fresh
    <2>3. current[w] \in 1..m
      BY <1>1, <1>3, <2>2 DEF Typed, TypeOK, BufferIds
    <2>4. \A v \in targets \ fresh : current[v] = current[w] => v = w
      BY <1>1, <2>2 DEF Fitting
    <2> QED
      BY <2>2, <2>3, <2>4
  <1>8. \A w \in Windows : s[w].width \in Nat /\ s[w].width \in AnyWidth
    BY WidthFacts
  <1>9. \A i \in 1..(m + n) : row(i) \in Pixels /\ (i <= m => Len(row(i)) = Len(memory[i]))
    <2>1. TAKE i \in 1..(m + n)
    <2>2. CASE i > m
      BY <2>2, <1>1, <1>2, <1>3, <1>6
    <2>3. CASE i <= m /\ \E w \in targets \ fresh : current[w] = i
      <3>1. PICK w \in targets \ fresh : current[w] = i
        BY <2>3
      <3>2. taker(i) = w /\ ~(i > m)
        BY <3>1, <2>3, <1>2, <1>3, <1>7
      <3>4. row(i) = Copy(memory[i], source(w), dirty(w))
        BY <3>1, <3>2
      <3>3. memory[i] \in Pixels /\ source(w) \in Pixels /\ Len(memory[i]) = Len(source(w))
        BY <3>1, <2>3, <1>1, <1>3, <1>6, <1>7
      <3> QED
        BY <2>3, <3>4, <3>3, CopyFacts
    <2>4. CASE i <= m /\ ~\E w \in targets \ fresh : current[w] = i
      BY <2>4, <1>3
    <2> QED
      BY <2>2, <2>3, <2>4, <1>2, <1>3
  <1>10. memory' \in [1..(m + n) -> Pixels] /\ memory' \in Seq(Pixels) /\ Len(memory') = m + n
    <2>1. memory' \in [1..(m + n) -> Pixels]
      BY <1>4, <1>9
    <2>2. memory' \in Seq(Pixels)
      BY <2>1, <1>2, <1>3, SeqDef
    <2> QED
      BY <2>1, <2>2, <1>2, <1>3, LenProperties
  <1>11. \A w \in Windows : dirty(w) \subseteq AnyPlaces
    BY <1>8 DEF AnyPlaces
  <1>12. \A w \in Windows : id(w) \in 0..(m + n)
    BY <1>2, <1>3, <1>5
  <1>13. content' \in [Windows -> Entry']
    BY <1>4, <1>6, <1>10, <1>11, <1>12, <1>3, <1>2 DEF Entry, BufferIds
  <1>14. frame' \in [kind : {"None", "Lifecycle", "Content", "Replay"},
                     snapshot : Snapshots, buffers : [Windows -> BufferIds'],
                     damage : [Windows -> SUBSET AnyPlaces]]
    <2>1. BufferIds' = 0..(m + n)
      BY <1>10 DEF BufferIds
    <2>2. [w \in Windows |-> IF w \in targets THEN id(w) ELSE 0] \in [Windows -> 0..(m + n)]
      <3> HIDE DEF id, m, n
      <3>1. 0 \in 0..(m + n)
        BY <1>2, <1>3
      <3> QED
        BY <1>12, <3>1
    <2>3. [w \in Windows |-> IF w \in targets /\ s[w].shown THEN dirty(w) ELSE {}]
             \in [Windows -> SUBSET AnyPlaces]
      BY <1>11
    <2> HIDE DEF id, dirty
    <2> QED
      BY <1>4, <2>1, <2>2, <2>3
  <1>15. \A i \in 1..m : (\A w \in targets \ fresh : current[w] # i) => memory'[i] = memory[i]
    BY <1>2, <1>3, <1>4
  <1>16. \A w \in Windows \ targets : content'[w] = from[w] /\ frame'.buffers[w] = 0
    BY <1>4
  <1>17. \A w \in targets :
            /\ content'[w].pending = {} /\ content'[w].buffer = frame'.buffers[w]
            /\ content'[w].storage = IF kind = "Content" THEN from[w].storage
                                     ELSE StagedStorage(w, s[w].width)
            /\ content'[w].inflight = IF w \in fresh THEN Places(s[w].width)
                                      ELSE from[w].pending \cap Places(s[w].width)
            /\ s[w].shown => frame'.damage[w] = content'[w].inflight
    <2>1. TAKE w \in targets
    <2>2. w \in Windows
      BY <1>1
    <2>3. dirty(w) = IF w \in fresh THEN Places(s[w].width)
                     ELSE from[w].pending \cap Places(s[w].width)
      OBVIOUS
    <2> HIDE DEF id, dirty, source, fresh
    <2>4. content'[w] = [pending |-> {}, inflight |-> dirty(w), buffer |-> id(w),
                         storage |-> IF kind = "Content" THEN from[w].storage
                                     ELSE StagedStorage(w, s[w].width)]
      BY <1>4, <2>2
    <2>5. frame'.buffers[w] = id(w) /\ (s[w].shown => frame'.damage[w] = dirty(w))
      BY <1>4, <2>2
    <2> QED
      BY <2>2, <2>3, <2>4, <2>5
  <1>18. \A w \in fresh : /\ frame'.buffers[w] \in (m + 1)..(m + n)
                          /\ memory'[frame'.buffers[w]] = Source(w, s[w].width)
    <2>1. TAKE w \in fresh
    <2>2. frame'.buffers[w] = m + place(w) /\ place(w) \in 1..n /\ order[place(w)] = w
      BY <1>1, <1>4, <1>5
    <2>3. row(m + place(w)) = source(w)
      BY <2>2, <1>2, <1>3
    <2>4. m + place(w) \in (m + 1)..(m + n) /\ m + place(w) \in 1..(m + n)
      BY <2>2, <1>2, <1>3
    <2> QED
      BY <2>2, <2>3, <2>4, <1>1, <1>4, <1>6
  <1>19. \A w \in targets \ fresh :
            /\ frame'.buffers[w] = 0 /\ current[w] \in 1..m
            /\ Len(memory[current[w]]) = s[w].width
            /\ \A i \in 1..s[w].width : memory'[current[w]][i] =
                  IF i \in from[w].pending THEN Source(w, s[w].width)[i]
                  ELSE memory[current[w]][i]
    <2>1. TAKE w \in targets \ fresh
    <2>2. /\ frame'.buffers[w] = 0 /\ current[w] \in 1..m
          /\ Len(memory[current[w]]) = s[w].width
      BY <1>1, <1>4, <1>7
    <2>3. memory'[current[w]] = Copy(memory[current[w]], source(w), dirty(w))
      <3>1. memory'[current[w]] = row(current[w])
        <4> HIDE DEF row, m, n
        <4> QED
          BY <2>2, <1>2, <1>3, <1>4
      <3>2. ~(current[w] > m) /\ taker(current[w]) = w
        BY <2>2, <1>3, <1>7
      <3> QED
        BY <3>1, <3>2
    <2>4. memory[current[w]] \in Pixels /\ Len(source(w)) = s[w].width /\ source(w) \in Pixels
          /\ source(w) = Source(w, s[w].width)
      BY <2>2, <1>1, <1>3, <1>6
    <2>5. dirty(w) = from[w].pending \cap (1..s[w].width)
      BY DEF Places
    <2>6. \A i \in 1..s[w].width : memory'[current[w]][i] =
             IF i \in dirty(w) THEN source(w)[i] ELSE memory[current[w]][i]
      BY <2>2, <2>3, <2>4, CopyFacts
    <2> QED
      BY <2>2, <2>4, <2>5, <2>6
  <1>20. \A w, v \in Windows : frame'.buffers[w] = frame'.buffers[v]
                               => frame'.buffers[w] = 0 \/ w = v
    <2>1. SUFFICES ASSUME NEW w \in Windows, NEW v \in Windows,
                          frame'.buffers[w] = frame'.buffers[v], frame'.buffers[w] # 0
                   PROVE  w = v
      OBVIOUS
    <2>2. w \in fresh /\ v \in fresh /\ m + place(w) = m + place(v)
      BY <2>1, <1>1, <1>4
    <2>3. place(w) = place(v)
      BY <2>2, <1>2, <1>3, <1>5
    <2> QED
      BY <2>2, <2>3, <1>5
  <1>21. \A i \in 1..m : Len(memory'[i]) = Len(memory[i])
    <2> HIDE DEF row, m, n
    <2>1. \A i \in 1..m : i \in 1..(m + n) /\ i <= m
      BY <1>2, <1>3
    <2> QED
      BY <2>1, <1>4, <1>9
  <1>22. Len(memory') \in Nat /\ m <= Len(memory') /\ Len(memory') = m + n
    BY <1>2, <1>3, <1>10
  <1>23. frame'.kind = kind /\ frame'.snapshot = s
    BY <1>4
  <1>24. /\ DOMAIN bare' = Windows
         /\ \A w \in Windows : bare'[w] = IF w \in targets THEN bare[w] \ content'[w].inflight
                                           ELSE bare[w]
    <2>1. \A w \in targets : content'[w].inflight = dirty(w)
      BY <1>1, <1>17
    <2> HIDE DEF dirty
    <2> QED
      BY <2>1, <1>4
  <1> HIDE DEF n, order, place, id, dirty, source, taker, row
  <1> QED
    BY <1>3, <1>4, <1>10, <1>13, <1>14, <1>15, <1>16, <1>17, <1>18, <1>19, <1>20, <1>21, <1>22,
       <1>23, <1>24 DEF Handed
-----------------------------------------------------------------------------
(* The compositor *)

\* A frame the compositor shows: the scene, the attachments and what is
\* replayed after a restart are those of the frame.
LEMMA ShownFacts ==
    ASSUME Typed, Flow, Carried, Fitting, Shared, link, frame.kind # "None",
           Presented(frame), Promote(frame)
    PROVE  /\ gwcomp'.attached = replay'.buffers /\ gwcomp'.scene = replay'.snapshot
           /\ gwcomp'.pending = gwcomp'.attached
           /\ replay'.snapshot = frame.snapshot
           /\ replay' \in [snapshot : Snapshots, buffers : [Windows -> BufferIds]]
           /\ \A w \in Windows : replay'.buffers[w] =
                 IF w \notin Present(frame.snapshot) THEN 0
                 ELSE IF frame.buffers[w] # 0 THEN frame.buffers[w] ELSE replay.buffers[w]
           /\ \A w \in Windows : replay'.buffers[w] # 0 <=> w \in Present(frame.snapshot)
           /\ \A w \in Present(frame.snapshot) :
                 Len(memory[replay'.buffers[w]]) = frame.snapshot[w].width
           /\ SceneOf(frame) = frame.snapshot /\ AttachmentsOf(frame) = replay'.buffers
  <1>1. /\ frame.snapshot \in Snapshots /\ frame.buffers \in Buffers
        /\ replay.snapshot \in Snapshots /\ replay.buffers \in Buffers
        /\ gwcomp.scene = replay.snapshot /\ gwcomp.attached = replay.buffers
        /\ frame.kind \in {"Lifecycle", "Content", "Replay"}
    BY DEF Typed, Shared
  <1>2. frame.kind = "Content" =>
           /\ gwcomp.pending = replay.buffers
           /\ frame.snapshot = committed /\ replay.snapshot = committed
    BY <1>1 DEF Typed, TypeOK, Flow, Shared
  <1>3. SceneOf(frame) = frame.snapshot
    BY <1>1, <1>2 DEF SceneOf
  <1> DEFINE A(w) == IF w \notin Present(frame.snapshot) THEN 0
                     ELSE IF frame.buffers[w] # 0 THEN frame.buffers[w]
                     ELSE replay.buffers[w]
  <1>4. \A w \in Windows : w \notin Present(frame.snapshot) => frame.buffers[w] = 0
    BY DEF Carried
  <1>5. \A w \in Windows : replay.buffers[w] # 0 <=> w \in Present(replay.snapshot)
    BY DEF Fitting
  <1>6. AttachmentsOf(frame) = [w \in Windows |-> A(w)]
    <2>1. ASSUME NEW w \in Windows
          PROVE  (IF frame.kind # "Content" /\ w \notin Present(frame.snapshot) THEN 0
                  ELSE IF frame.buffers[w] # 0 THEN frame.buffers[w]
                  ELSE IF frame.kind = "Content" THEN gwcomp.pending[w]
                  ELSE gwcomp.attached[w]) = A(w)
      <3>1. CASE frame.kind = "Content"
        BY <3>1, <1>2, <1>4, <1>5
      <3>2. CASE frame.kind # "Content" /\ w \notin Present(frame.snapshot)
        BY <3>2
      <3>3. CASE frame.kind # "Content" /\ w \in Present(frame.snapshot)
        BY <3>3, <1>1
      <3> QED
        BY <3>1, <3>2, <3>3
    <2> QED
      BY <2>1 DEF AttachmentsOf
  <1>7. replay'.buffers = [w \in Windows |-> A(w)] /\ replay'.snapshot = frame.snapshot
    <2>1. ASSUME NEW w \in Windows
          PROVE  (IF frame.kind # "Content" /\ w \notin Present(frame.snapshot) THEN 0
                  ELSE IF frame.buffers[w] # 0 THEN frame.buffers[w] ELSE replay.buffers[w])
                 = A(w)
      BY <1>2, <1>4, <1>5
    <2>2. replay'.snapshot = frame.snapshot
      BY <1>2 DEF Promote
    <2> QED
      BY <2>1, <2>2 DEF Promote
  <1>8. /\ gwcomp'.attached = [w \in Windows |-> A(w)] /\ gwcomp'.pending = gwcomp'.attached
        /\ gwcomp'.scene = frame.snapshot
    BY <1>3, <1>6 DEF Presented
  <1>9. /\ \A w \in Present(frame.snapshot) :
              /\ frame.snapshot[w].shown \/ replay.snapshot[w] = Absent => A(w) # 0
              /\ A(w) # 0 => Len(memory[A(w)]) = frame.snapshot[w].width
    <2>1. \A w \in Present(frame.snapshot) : AttachmentsOf(frame)[w] = A(w)
      BY <1>6 DEF Present
    <2> QED
      BY <1>1, <1>3, <2>1 DEF Presented, Valid
  <1>10. \A w \in Windows : A(w) # 0 <=> w \in Present(frame.snapshot)
    <2>1. TAKE w \in Windows
    <2>2. w \notin Present(replay.snapshot) => replay.snapshot[w] = Absent
      BY <1>1, WidthFacts
    <2> QED
      BY <1>5, <1>9, <2>2
  <1>11. \A w \in Windows : A(w) \in BufferIds
    <2>1. 0 \in BufferIds
      BY LenProperties DEF Typed, BufferIds
    <2> QED
      BY <2>1, <1>1 DEF Buffers
  <1>12. replay' = [snapshot |-> replay'.snapshot, buffers |-> replay'.buffers]
    BY DEF Promote
  <1>13. replay' \in [snapshot : Snapshots, buffers : [Windows -> BufferIds]]
    BY <1>1, <1>7, <1>11, <1>12
  <1>14. \A w \in Windows : replay'.buffers[w] = A(w)
    BY <1>7
  <1>15. \A w \in Present(frame.snapshot) : w \in Windows
    BY DEF Present
  <1> HIDE DEF A
  <1>16. /\ \A w \in Windows : replay'.buffers[w] # 0 <=> w \in Present(frame.snapshot)
         /\ \A w \in Present(frame.snapshot) :
               Len(memory[replay'.buffers[w]]) = frame.snapshot[w].width
    BY <1>9, <1>10, <1>14, <1>15
  <1>17. AttachmentsOf(frame) = replay'.buffers /\ gwcomp'.attached = replay'.buffers
    BY <1>6, <1>7, <1>8
  <1> USE DEF A
  <1> QED
    BY <1>3, <1>7, <1>8, <1>13, <1>14, <1>16, <1>17

\* What an accepted frame gives back: the buffers that others replace, those
\* of removed windows, and those that were mapped in vain.
LEMMA RetirementFacts ==
    ASSUME Typed, Flow, Carried, Fitting, Shared, link, frame.kind # "None",
           Presented(frame), Promote(frame)
    PROVE  LET old == {w \in Windows : replay.buffers[w] \notin {0, replay'.buffers[w]}}
               vain == (gwcomp.mapped \cup Ids(frame.buffers))
                       \ ({replay'.buffers[w] : w \in Windows} \cup {replay.buffers[w] : w \in old})
               out == {[id |-> replay.buffers[w],
                        reason |-> IF w \in Present(frame.snapshot) THEN "Replaced"
                                   ELSE "SurfaceRemoved"] : w \in old}
                      \cup {[id |-> b, reason |-> "ConsumerDone"] : b \in vain}
           IN  /\ releases' = releases \cup out /\ releases' \subseteq Release
               /\ gwcomp'.mapped = (gwcomp.mapped \cup Ids(frame.buffers)) \ {r.id : r \in out}
               /\ gwcomp' \in [scene : Snapshots, attached : Buffers, pending : Buffers,
                               mapped : SUBSET BufferIds]
  <1> DEFINE old == {w \in Windows : replay.buffers[w] \notin {0, replay'.buffers[w]}}
             vain == (gwcomp.mapped \cup Ids(frame.buffers))
                     \ ({replay'.buffers[w] : w \in Windows} \cup {replay.buffers[w] : w \in old})
             reason(w) == IF w \in Present(frame.snapshot) THEN "Replaced" ELSE "SurfaceRemoved"
             out == {[id |-> replay.buffers[w], reason |-> reason(w)] : w \in old}
                    \cup {[id |-> b, reason |-> "ConsumerDone"] : b \in vain}
  <1>1. /\ AttachmentsOf(frame) = replay'.buffers /\ SceneOf(frame) = frame.snapshot
        /\ gwcomp.attached = replay.buffers
        /\ \A w \in Windows : replay'.buffers[w] # 0 <=> w \in Present(frame.snapshot)
        /\ replay'.buffers \in Buffers /\ frame.snapshot \in Snapshots
    BY ShownFacts DEF Shared, Typed, Buffers
  <1>2. Mapped(frame) = gwcomp.mapped \cup Ids(frame.buffers)
    BY DEF Mapped, Ids
  <1>3. \A w \in Windows :
           (IF replay'.buffers[w] # 0 THEN "Replaced"
            ELSE IF w \in Present(frame.snapshot) THEN "ConsumerDone" ELSE "SurfaceRemoved")
           = reason(w)
    BY <1>1
  <1>4. Retirements(frame) = out
    <2> DEFINE why(w) == IF replay'.buffers[w] # 0 THEN "Replaced"
                         ELSE IF w \in Present(frame.snapshot) THEN "ConsumerDone"
                         ELSE "SurfaceRemoved"
    <2>1. Retirements(frame) =
             {[id |-> replay.buffers[w], reason |-> why(w)] : w \in old}
             \cup {[id |-> b, reason |-> "ConsumerDone"] : b \in vain}
      BY <1>1, <1>2 DEF Retirements
    <2>2. \A w \in old : why(w) = reason(w)
      BY <1>3
    <2> HIDE DEF why, reason, old, vain
    <2> QED
      BY <2>1, <2>2
  <1>5. gwcomp.mapped \subseteq BufferIds /\ Ids(frame.buffers) \subseteq BufferIds
        /\ \A w \in Windows : replay.buffers[w] \in BufferIds
    BY DEF Typed, Ids, Buffers
  <1>6. \A r \in out : r \in Release
    BY <1>5 DEF Release, Reasons
  <1>7. releases' = releases \cup out
    BY <1>4 DEF Presented
  <1>8. releases' \subseteq Release
    BY <1>6, <1>7 DEF Typed, TypeOK
  <1>9. gwcomp' = [scene |-> frame.snapshot, attached |-> replay'.buffers,
                   pending |-> replay'.buffers,
                   mapped |-> (gwcomp.mapped \cup Ids(frame.buffers)) \ {r.id : r \in out}]
    BY <1>1, <1>2, <1>4 DEF Presented
  <1> QED
    BY <1>1, <1>5, <1>7, <1>8, <1>9

\* The screen after a frame: what has not been drawn from the buffers was there
\* before and is outside the damage.
LEMMA ScreenFacts ==
    ASSUME Typed, Flow, Carried, Fitting, Shared, Drawn, link, frame.kind # "None",
           Presented(frame), Promote(frame)
    PROVE  /\ screen' \in [Windows -> Pixels]
           /\ \A w \in Windows : frame.snapshot[w].shown =>
                 /\ Len(screen'[w]) = frame.snapshot[w].width
                 /\ \A i \in Places(frame.snapshot[w].width) :
                       \/ screen'[w][i] = memory[replay'.buffers[w]][i]
                       \/ /\ i \notin frame.damage[w] /\ screen'[w][i] = screen[w][i]
                          /\ replay.snapshot[w] = frame.snapshot[w]
                          /\ replay.buffers[w] = replay'.buffers[w]
  <1>1. /\ AttachmentsOf(frame) = replay'.buffers /\ SceneOf(frame) = frame.snapshot
        /\ gwcomp.attached = replay.buffers /\ gwcomp.scene = replay.snapshot
        /\ replay'.buffers \in Buffers /\ frame.snapshot \in Snapshots
        /\ \A w \in Windows : replay'.buffers[w] # 0 <=> w \in Present(frame.snapshot)
        /\ \A w \in Present(frame.snapshot) :
              Len(memory[replay'.buffers[w]]) = frame.snapshot[w].width
    BY ShownFacts DEF Shared, Typed, Buffers
  <1> DEFINE whole(w) == frame.snapshot[w] # replay.snapshot[w]
                         \/ replay'.buffers[w] # replay.buffers[w]
             row(w) == IF ~frame.snapshot[w].shown THEN << >>
                       ELSE IF whole(w) THEN memory[replay'.buffers[w]]
                       ELSE Copy(screen[w], memory[replay'.buffers[w]], frame.damage[w])
  <1>2. screen' = [w \in Windows |-> row(w)]
    BY <1>1 DEF Presented, Render
  <1>3. ~Undone
    BY DEF Undone, Flow
  <1>4. ASSUME NEW w \in Windows
        PROVE  /\ row(w) \in Pixels
               /\ frame.snapshot[w].shown =>
                    /\ Len(row(w)) = frame.snapshot[w].width
                    /\ \A i \in Places(frame.snapshot[w].width) :
                          \/ row(w)[i] = memory[replay'.buffers[w]][i]
                          \/ /\ i \notin frame.damage[w] /\ row(w)[i] = screen[w][i]
                             /\ replay.snapshot[w] = frame.snapshot[w]
                             /\ replay.buffers[w] = replay'.buffers[w]
    <2>1. CASE ~frame.snapshot[w].shown
      BY <2>1, NoPixels
    <2>2. CASE frame.snapshot[w].shown
      <3>1. w \in Present(frame.snapshot)
        BY <1>1, <2>2, WidthFacts
      <3>2. replay'.buffers[w] \in 1..Len(memory)
        BY <1>1, <3>1, LenProperties DEF Buffers, BufferIds, Typed
      <3>3. memory[replay'.buffers[w]] \in Pixels
            /\ Len(memory[replay'.buffers[w]]) = frame.snapshot[w].width
        BY <1>1, <3>1, <3>2, ElementOfSeq DEF Typed
      <3>4. CASE whole(w)
        BY <2>2, <3>3, <3>4
      <3>5. CASE ~whole(w)
        <4>1. /\ screen[w] \in Pixels /\ Len(screen[w]) = frame.snapshot[w].width
              /\ row(w) = Copy(screen[w], memory[replay'.buffers[w]], frame.damage[w])
          BY <1>1, <1>3, <2>2, <3>5 DEF Drawn, Typed
        <4>2. /\ row(w) \in Pixels /\ Len(row(w)) = frame.snapshot[w].width
              /\ \A i \in 1..frame.snapshot[w].width : row(w)[i] =
                    IF i \in frame.damage[w] THEN memory[replay'.buffers[w]][i]
                    ELSE screen[w][i]
          BY <3>3, <4>1, CopyFacts
        <4> QED
          BY <3>5, <4>2 DEF Places
      <3> QED
        BY <3>4, <3>5
    <2> QED
      BY <2>1, <2>2
  <1> HIDE DEF row
  <1> QED
    BY <1>2, <1>4
-----------------------------------------------------------------------------
(* The steps of the clients *)

Parts == /\ Typed /\ Flow /\ Carried /\ Fitting /\ Shared /\ Matching
         /\ Copied /\ Sent /\ Stored /\ Drawn

LEMMA InitInductive == Init => Inductive
  <1>1. SUFFICES ASSUME Init PROVE Parts
    BY DEF Inductive, Parts
  <1>2. /\ [w \in Windows |-> Absent] \in Snapshots
        /\ \A w \in Windows : ~Absent.shown /\ Absent.width = 0
        /\ Present([w \in Windows |-> Absent]) = {}
    BY WidthFacts DEF Snapshots, WindowStates, Absent, Present
  <1>3. memory = << >> /\ Len(memory) = 0 /\ BufferIds = {0} /\ memory \in Seq(Pixels)
    BY <1>1 DEF Init, BufferIds
  <1>4. NoBuffers \in Buffers /\ Ids(NoBuffers) = {} /\ \A w \in Windows : NoBuffers[w] = 0
    BY <1>3 DEF NoBuffers, Buffers, Ids
  <1>5. [w \in Windows |-> {}] \in [Windows -> SUBSET AnyPlaces]
    OBVIOUS
  <1>6. Typed
    <2>1. TypeOK
      <3>1. /\ \A w \in Windows : committed[w] \in WindowStates(w)
            /\ \A w \in Windows : Len(pixels[w]) = committed[w].width
            /\ pixels \in [Windows -> Pixels]
        BY <1>1, <1>2, NoPixels DEF Init, WindowStates
      <3>2. content \in [Windows -> Entry]
        BY <1>1, <1>3, NoPixels DEF Init, NoContent, Entry
      <3>3. current \in [Windows -> BufferIds]
        BY <1>1, <1>4 DEF Init, Buffers
      <3>4. \A w \in Windows : child[w] \in [mapped : BOOLEAN, pixels : [Covered[w] -> 0..MaxDraws]]
                              /\ bare[w] \subseteq Covered[w]
        BY <1>1, ContentAssumption DEF Init, NoChild
      <3> QED
        BY <3>1, <3>2, <3>3, <3>4, <1>1, <1>3 DEF Init, TypeOK, NoFrame, EmptyPeer, Entry
    <2>2. NoFrame \in [kind : {"None", "Lifecycle", "Content", "Replay"}, snapshot : Snapshots,
                  buffers : Buffers, damage : [Windows -> SUBSET AnyPlaces]]
      BY <1>2, <1>4, <1>5 DEF NoFrame
    <2>3. EmptyPeer \in [scene : Snapshots, attached : Buffers, pending : Buffers,
                   mapped : SUBSET BufferIds]
      BY <1>2, <1>4 DEF EmptyPeer
    <2>4. count \in [draws : 0..MaxDraws, requests : Nat, rejections : Nat, losses : Nat]
      BY <1>1, ContentAssumption DEF Init
    <2> QED
      BY <2>1, <2>2, <2>3, <2>4, <1>1, <1>2, <1>3, <1>4, <1>5, NoPixels DEF Init, Typed
  <1>7. Flow /\ Carried
    BY <1>1, <1>2 DEF Init, Flow, Carried, NoFrame, NoContent, Undone, Orphaned, NoBuffers
  <1>8. Fitting
    BY <1>1, <1>2, <1>4 DEF Init, Fitting, NoFrame
  <1>9. Shared /\ Matching
    BY <1>1, <1>4 DEF Init, Shared, Matching, EmptyPeer, NoFrame, Orphaned, Answered
  <1>10. Copied /\ Sent /\ Drawn
    BY <1>1, <1>2 DEF Init, Copied, Sent, Drawn, NoFrame, EmptyPeer
  <1>11. Stored
    BY <1>1, <1>2, NoPixels DEF Init, Stored, NoContent, Places
  <1> QED
    BY <1>6, <1>7, <1>8, <1>9, <1>10, <1>11 DEF Parts

LEMMA LeaveInductive ==
    ASSUME Parts, Leave PROVE Parts'
  <1>1. /\ phase = "AwaitingCompositor" /\ canceled' = TRUE /\ phase' = phase
        /\ UNCHANGED <<committed, pixels, child, content, current, retired, discarded, memory,
                       inFlight, bare, frame, replay, link, attempted, releases, gwcomp, screen,
                       fatal, forgotten, count>>
    BY DEF Leave, presenter, bridge, peer, outcome
  <1>2. ~Orphaned /\ ~Orphaned' /\ ~Undone /\ ~Undone'
    BY <1>1 DEF Parts, Flow, Orphaned, Undone
  <1>3. Typed'
    BY <1>1 DEF Parts, Typed, TypeOK, BufferIds, Release, Buffers
  <1>4. Flow'
    BY <1>1, <1>2 DEF Parts, Flow
  <1>5. Carried' /\ Fitting' /\ Shared'
    BY <1>1, <1>2 DEF Parts, Carried, Fitting, Shared
  <1>6. Matching'
    BY <1>1, <1>2 DEF Parts, Matching, Answered
  <1>7. \A w \in Windows : Owed(w)' = Owed(w)
    BY <1>1 DEF Owed, Beyond, Shape
  <1>8. \A w \in Windows : Composed(w)' = Composed(w) /\ \A n : Look(w, n)' = Look(w, n)
    BY <1>1 DEF Composed, Look, Viewable
  <1>9. Copied' /\ Sent' /\ Stored' /\ Drawn'
    BY <1>1, <1>2, <1>7, <1>8 DEF Parts, Copied, Sent, Stored, Drawn, Present
  <1> QED
    BY <1>3, <1>4, <1>5, <1>6, <1>9 DEF Parts

\* A drawing damages what it changes, in a staged storage too.
LEMMA DrawInductive ==
    ASSUME Parts, NEW x \in Windows, NEW places \in SUBSET Places(Len(pixels[x])),
           Draw(x, places)
    PROVE  Parts'
  <1> DEFINE new == [i \in Places(Len(pixels[x])) |-> count.draws + 1]
  <1>1. /\ x \in Present(committed) /\ count.draws < MaxDraws
        /\ count' = [count EXCEPT !["draws"] = @ + 1]
        /\ pixels' = [pixels EXCEPT ![x] = Copy(@, new, places)]
        /\ content' = [content EXCEPT
              ![x].pending = @ \cup places,
              ![x].storage = IF Len(@) = Len(pixels[x]) THEN Copy(@, new, places) ELSE @]
        /\ bare' = [bare EXCEPT ![x] = @ \ places]
        /\ UNCHANGED <<committed, phase, canceled, child, current, retired, discarded, memory,
                       inFlight, frame, replay, link, attempted, releases, gwcomp, screen, fatal,
                       forgotten>>
    BY DEF Draw, Bounded, bridge, peer, outcome
  <1>2. /\ pixels \in [Windows -> Pixels] /\ content \in [Windows -> Entry]
        /\ \A w \in Windows : Len(pixels[w]) = committed[w].width
        /\ committed \in Snapshots
        /\ count \in [draws : 0..MaxDraws, requests : Nat, rejections : Nat, losses : Nat]
    BY DEF Parts, Typed, TypeOK, Entry
  <1>3. /\ Len(pixels[x]) = committed[x].width /\ Len(pixels[x]) \in AnyWidth
        /\ Len(pixels[x]) \in Nat /\ Len(pixels[x]) > 0
    BY <1>1, <1>2, WidthFacts
  <1>4. new \in Pixels /\ Len(new) = Len(pixels[x])
    <2>1. count.draws + 1 \in 0..MaxDraws
      BY <1>1, <1>2, ContentAssumption
    <2> QED
      BY <2>1, <1>3, PixelsOf DEF Places
  <1>5. places \subseteq 1..Len(pixels[x]) /\ places \subseteq AnyPlaces
    BY <1>3 DEF Places, AnyPlaces
  <1>6. /\ pixels'[x] \in Pixels /\ Len(pixels'[x]) = Len(pixels[x])
        /\ \A i \in 1..Len(pixels[x]) : i \notin places => pixels'[x][i] = pixels[x][i]
        /\ pixels'[x] = Copy(pixels[x], new, places)
        /\ \A w \in Windows : w # x => pixels'[w] = pixels[w]
    <2>1. /\ Copy(pixels[x], new, places) \in Pixels
          /\ Len(Copy(pixels[x], new, places)) = Len(pixels[x])
          /\ \A i \in 1..Len(pixels[x]) :
                Copy(pixels[x], new, places)[i] = IF i \in places THEN new[i] ELSE pixels[x][i]
      <3>1. pixels[x] \in Pixels /\ places \cap (1..Len(pixels[x])) \subseteq 1..Len(new)
        BY <1>2, <1>4
      <3> HIDE DEF new
      <3> QED
        BY <3>1, <1>4, CopyFacts
    <2>2. pixels'[x] = Copy(pixels[x], new, places)
      BY <1>1, <1>2
    <2> QED
      BY <1>1, <1>2, <2>1, <2>2
  <1>7. /\ content'[x].storage \in Pixels
        /\ Len(content'[x].storage) = Len(content[x].storage)
        /\ Len(content[x].storage) = Len(pixels[x]) =>
              content'[x].storage = Copy(content[x].storage, new, places)
        /\ Len(content[x].storage) # Len(pixels[x]) => content'[x].storage = content[x].storage
    <2>1. content'[x].storage = IF Len(content[x].storage) = Len(pixels[x])
                                THEN Copy(content[x].storage, new, places)
                                ELSE content[x].storage
      BY <1>1, <1>2 DEF Entry
    <2>2. Len(content[x].storage) = Len(pixels[x]) =>
             /\ Copy(content[x].storage, new, places) \in Pixels
             /\ Len(Copy(content[x].storage, new, places)) = Len(content[x].storage)
      BY <1>2, <1>4, CopyFacts DEF Entry
    <2> QED
      BY <2>1, <2>2, <1>2 DEF Entry
  <1>8. /\ \A w \in Windows : w # x => content'[w] = content[w]
        /\ content'[x] = [pending |-> content[x].pending \cup places,
                          inflight |-> content[x].inflight,
                          storage |-> content'[x].storage, buffer |-> content[x].buffer]
    BY <1>1, <1>2 DEF Entry
  <1>9. /\ content' \in [Windows -> Entry] /\ pixels' \in [Windows -> Pixels]
        /\ \A w \in Windows : Len(pixels'[w]) = committed[w].width
    <2>1. content' = [w \in Windows |-> content'[w]]
      BY <1>1, <1>2
    <2>2. ASSUME NEW w \in Windows, w # x PROVE content'[w] \in Entry
      BY <1>2, <1>8, <2>2
    <2>3. content'[x] \in Entry
      BY <1>2, <1>5, <1>7, <1>8 DEF Entry
    <2>4. \A w \in Windows : content'[w] \in Entry
      BY <2>2, <2>3
    <2> QED
      BY <2>1, <2>4, <1>1, <1>2, <1>6
  <1>10. Typed'
    <2>1. count' \in [draws : 0..MaxDraws, requests : Nat, rejections : Nat, losses : Nat]
      BY <1>1, <1>2, ContentAssumption
    <2>2. BufferIds' = BufferIds /\ Release' = Release /\ Buffers' = Buffers
      BY <1>1 DEF BufferIds, Release, Buffers
    <2>3. DOMAIN bare' = Windows /\ \A w \in Windows : bare'[w] \subseteq Covered[w]
      BY <1>1 DEF Parts, Typed, TypeOK
    <2>4. TypeOK'
      BY <2>2, <2>3, <1>1, <1>9 DEF Parts, Typed, TypeOK, Entry
    <2> QED
      BY <2>1, <2>2, <2>3, <2>4, <1>1 DEF Parts, Typed
  <1>11. /\ \A w \in Windows : /\ content'[w].buffer = content[w].buffer
                               /\ content'[w].inflight = content[w].inflight
                               /\ content[w].pending \subseteq content'[w].pending
                               /\ Len(content'[w].storage) = Len(content[w].storage)
         /\ \A w \in Windows : content[w].storage = << >> => content'[w].storage = << >>
    BY <1>3, <1>7, <1>8, NoPixels
  <1>12. Flow' /\ Undone' = Undone /\ Orphaned' = Orphaned
    BY <1>1 DEF Parts, Flow, Undone, Orphaned
  <1>13. Carried' /\ Fitting'
    <2>1. Carried'
      BY <1>1, <1>11, <1>12 DEF Parts, Carried, Present
    <2>2. \A w \in Present(frame.snapshot) : w \in Windows
      BY DEF Present
    <2>3. Present(committed)' = Present(committed) /\ Present(replay.snapshot)' = Present(replay.snapshot)
          /\ Present(frame.snapshot)' = Present(frame.snapshot) /\ Ids(frame.buffers)' = Ids(frame.buffers)
          /\ Ids(current)' = Ids(current)
      BY <1>1 DEF Present, Ids
    <2>4. Fitting'
      BY <1>1, <1>11, <2>2, <2>3 DEF Parts, Fitting
    <2> QED
      BY <2>1, <2>4
  <1>14. Shared' /\ Matching'
    BY <1>1, <1>12 DEF Parts, Shared, Matching, Answered
  <1>15. \A w \in Windows : /\ Owed(w) \subseteq Owed(w)'
                            /\ Beyond(w)' = Beyond(w)
    BY <1>1, <1>11 DEF Owed, Beyond, Shape
  <1>16. \A w \in Windows : \A i \in 1..Len(pixels[w]) : i \notin content'[w].pending =>
            pixels'[w][i] = pixels[w][i]
    BY <1>6, <1>8
  <1>23. \A w \in Windows : \A i : i \notin content'[w].pending /\ i \notin bare'[w] => i \notin bare[w]
    <2>1. bare' = [bare EXCEPT ![x] = @ \ places] /\ DOMAIN bare = Windows
      BY <1>1 DEF Parts, Typed
    <2>2. bare'[x] = bare[x] \ places /\ places \subseteq content'[x].pending
      BY <2>1, <1>8
    <2>3. \A w \in Windows : w # x => bare'[w] = bare[w]
      BY <2>1
    <2> QED
      BY <2>2, <2>3
  <1>22. ASSUME NEW w \in Windows, NEW i \in 1..Len(pixels[w]), i \notin content'[w].pending,
                i \notin bare'[w]
         PROVE  i \notin bare[w] /\ Composed(w)'[i] = Composed(w)[i]
    <2>1. i \notin bare[w]
      BY <1>22, <1>23
    <2>2. Composed(w)[i] = IF Viewable(w) /\ i \in Covered[w] THEN child[w].pixels[i]
                           ELSE pixels[w][i]
      BY <1>2, ComposedFacts DEF Parts
    <2>3. Composed(w)'[i] = IF Viewable(w) /\ i \in Covered[w] THEN child[w].pixels[i]
                            ELSE pixels'[w][i]
      <3>1. i \in DOMAIN pixels'[w]
        BY <1>2, <1>9, PixelsFacts
      <3> QED
        BY <1>1, <3>1 DEF Composed, Viewable
    <2> QED
      BY <2>1, <2>2, <2>3, <1>16, <1>22
  <1>17. Copied'
    <2>1. SUFFICES ASSUME NEW w \in Present(committed),
                          NEW i \in Places(committed[w].width) \ Owed(w)', i \notin bare'[w]
                   PROVE  memory[current[w]][i] = Composed(w)'[i]
      BY <1>1 DEF Copied
    <2>2. w \in Windows /\ i \in 1..Len(pixels[w]) /\ i \notin content'[w].pending
          /\ i \notin Owed(w)
      BY <1>2, <1>15 DEF Places, Present, Owed
    <2>3. i \notin bare[w] /\ Composed(w)'[i] = Composed(w)[i]
      BY <2>1, <2>2, <1>22
    <2> QED
      BY <2>1, <2>2, <2>3 DEF Parts, Copied
  <1>18. \A w \in Windows, n \in AnyWidth : \A i \in 1..n : i \notin content'[w].pending =>
            Resize(pixels'[w], n)[i] = Resize(pixels[w], n)[i]
    <2> TAKE w \in Windows, n \in AnyWidth
    <2> TAKE i \in 1..n
    <2>2. /\ Resize(pixels[w], n)[i] = IF i <= Len(pixels[w]) THEN pixels[w][i] ELSE 0
          /\ Resize(pixels'[w], n)[i] = IF i <= Len(pixels'[w]) THEN pixels'[w][i] ELSE 0
      BY <1>2, <1>9, ResizeFacts
    <2>3. Len(pixels'[w]) = Len(pixels[w]) /\ Len(pixels[w]) \in Nat /\ n \in Nat
      BY <1>2, <1>9, WidthFacts
    <2> QED
      BY <2>2, <2>3, <1>16
  <1>19. Sent'
    <2>1. SUFFICES ASSUME frame.kind # "None", NEW w \in Present(frame.snapshot),
                          NEW i \in Places(frame.snapshot[w].width)
                                    \ (content'[w].pending \cup forgotten[w] \cup bare'[w])
                   PROVE  memory[IF frame.buffers[w] # 0 THEN frame.buffers[w] ELSE current[w]][i]
                             = Look(w, frame.snapshot[w].width)'[i]
      BY <1>1 DEF Sent
    <2>2. w \in Windows /\ frame.snapshot[w].width \in AnyWidth
          /\ i \in 1..frame.snapshot[w].width /\ i \notin content[w].pending
      BY <1>11, WidthFacts DEF Present, Places, Parts, Typed
    <2>3. i \notin bare[w]
          /\ Look(w, frame.snapshot[w].width)'[i] = Look(w, frame.snapshot[w].width)[i]
      <3> DEFINE n == frame.snapshot[w].width
      <3>1. CASE n = Len(pixels[w])
        <4>1. Look(w, n)' = Composed(w)' /\ Look(w, n) = Composed(w) /\ i \notin bare[w]
              /\ Composed(w)'[i] = Composed(w)[i]
          BY <3>1, <2>1, <2>2, <1>1, <1>2, <1>9, <1>22 DEF Look
        <4> QED
          BY <4>1
      <3>2. CASE n # Len(pixels[w])
        <4>1. Look(w, n)' = Resize(pixels'[w], n) /\ Look(w, n) = Resize(pixels[w], n)
          BY <3>2, <2>2, <1>1, <1>2, <1>9 DEF Look
        <4>2. Resize(pixels'[w], n)[i] = Resize(pixels[w], n)[i]
          BY <2>1, <2>2, <1>18
        <4>3. i \notin bare[w]
          BY <2>1, <2>2, <1>23
        <4> QED
          BY <4>1, <4>2, <4>3
      <3> QED
        BY <3>1, <3>2
    <2> QED
      BY <2>1, <2>2, <2>3 DEF Parts, Sent
  <1>20. Stored'
    <2>1. SUFFICES ASSUME NEW w \in Windows
                   PROVE  /\ \A i \in Places(Len(content'[w].storage)) :
                                i \notin content'[w].pending \/ pixels'[w] = << >> =>
                                   content'[w].storage[i]
                                      = Resize(pixels'[w], Len(content'[w].storage))[i]
                          /\ Len(content'[w].storage) = Len(pixels'[w])
                                => content'[w].storage = pixels'[w]
      BY DEF Stored
    <2>2. CASE w # x
      BY <2>2, <1>6, <1>8 DEF Parts, Stored
    <2>3. CASE w = x /\ Len(content[x].storage) = Len(pixels[x])
      <3>1. content[x].storage = pixels[x] /\ content'[x].storage = pixels'[x]
        BY <2>3, <1>6, <1>7 DEF Parts, Stored
      <3> QED
        BY <2>3, <3>1, <1>3, <1>6, ResizeFacts
    <2>4. CASE w = x /\ Len(content[x].storage) # Len(pixels[x])
      <3>1. content'[x].storage = content[x].storage /\ pixels'[x] # << >>
        BY <2>4, <1>3, <1>6, <1>7, NoPixels
      <3>2. Len(content[x].storage) \in AnyWidth
        BY <1>2, PixelsFacts DEF Entry
      <3> QED
        BY <2>4, <3>1, <3>2, <1>6, <1>11, <1>18 DEF Parts, Stored, Places
    <2> QED
      BY <2>2, <2>3, <2>4
  <1>21. Drawn'
    BY <1>1, <1>12, <1>15 DEF Parts, Drawn
  <1> QED
    BY <1>10, <1>12, <1>13, <1>14, <1>17, <1>19, <1>20, <1>21 DEF Parts

\* A drawing of the subwindow, or its mapping, is damage to the window where it
\* changes what is composed.
LEMMA PaintInductive ==
    ASSUME Parts, NEW x \in Windows, NEW places \in SUBSET Covered[x], NEW c \in Children(x),
           child' = [child EXCEPT ![x] = c], DamageParent(x, places),
           count' \in [draws : 0..MaxDraws, requests : Nat, rejections : Nat, losses : Nat],
           \A i \in 1..Len(pixels[x]) : i \notin places =>
              Over(pixels[x], c.mapped /\ committed[x].shown, Covered[x], c.pixels)[i]
                 = Composed(x)[i]
    PROVE  Parts'
  <1> DEFINE damage == places \cap Places(Len(pixels[x]))
  <1>1. /\ content' = [content EXCEPT ![x].pending = @ \cup damage]
        /\ bare' = [bare EXCEPT ![x] = @ \ damage]
        /\ UNCHANGED <<committed, phase, canceled, pixels, current, retired, discarded, memory,
                       inFlight, frame, replay, link, attempted, releases, gwcomp, screen, fatal,
                       forgotten>>
    BY DEF DamageParent, bridge, peer, outcome
  <1>2. /\ pixels \in [Windows -> Pixels] /\ content \in [Windows -> Entry]
        /\ \A w \in Windows : Len(pixels[w]) = committed[w].width
        /\ committed \in Snapshots /\ DOMAIN child = Windows /\ DOMAIN bare = Windows
        /\ \A w \in Windows : child[w] \in Children(w) /\ bare[w] \subseteq Covered[w]
    BY DEF Parts, Typed, TypeOK, Entry, Children
  <1>3. Len(pixels[x]) \in AnyWidth /\ Len(pixels[x]) \in Nat
    BY <1>2, WidthFacts
  <1>4. damage \subseteq AnyPlaces
    BY <1>3 DEF AnyPlaces
  <1> HIDE DEF damage
  <1>5. /\ \A w \in Windows : w # x => content'[w] = content[w] /\ bare'[w] = bare[w]
                                        /\ child'[w] = child[w]
        /\ content'[x] = [pending |-> content[x].pending \cup damage,
                          inflight |-> content[x].inflight,
                          storage |-> content[x].storage, buffer |-> content[x].buffer]
        /\ bare'[x] = bare[x] \ damage /\ child'[x] = c
        /\ DOMAIN child' = Windows /\ DOMAIN bare' = Windows
    BY <1>1, <1>2 DEF Entry
  <1>6. /\ content' \in [Windows -> Entry]
        /\ \A w \in Windows : child'[w] \in Children(w) /\ bare'[w] \subseteq Covered[w]
    <2>1. content' = [w \in Windows |-> content'[w]]
      BY <1>1, <1>2
    <2>2. ASSUME NEW w \in Windows, w # x
          PROVE  content'[w] \in Entry /\ child'[w] \in Children(w) /\ bare'[w] \subseteq Covered[w]
      BY <1>2, <1>5, <2>2
    <2>3. content'[x] \in Entry
      BY <1>2, <1>4, <1>5 DEF Entry
    <2>4. child'[x] \in Children(x) /\ bare'[x] \subseteq Covered[x]
      BY <1>2, <1>5
    <2>5. \A w \in Windows : content'[w] \in Entry
      BY <2>2, <2>3
    <2>6. \A w \in Windows : child'[w] \in Children(w) /\ bare'[w] \subseteq Covered[w]
      BY <2>2, <2>4
    <2> QED
      BY <2>1, <2>5, <2>6
  <1>7. Typed'
    <2>1. BufferIds' = BufferIds /\ Release' = Release /\ Buffers' = Buffers
      BY <1>1 DEF BufferIds, Release, Buffers
    <2>2. TypeOK'
      BY <2>1, <1>1, <1>6 DEF Parts, Typed, TypeOK, Entry, Children
    <2> QED
      BY <2>1, <2>2, <1>1, <1>5 DEF Parts, Typed
  <1>8. \A w \in Windows : /\ content'[w].buffer = content[w].buffer
                           /\ content'[w].inflight = content[w].inflight
                           /\ content'[w].storage = content[w].storage
                           /\ content[w].pending \subseteq content'[w].pending
                           /\ \A i : i \notin content'[w].pending /\ i \notin bare'[w] => i \notin bare[w]
    BY <1>5
  <1>9. Flow' /\ Undone' = Undone /\ Orphaned' = Orphaned
    BY <1>1 DEF Parts, Flow, Undone, Orphaned
  <1>10. Carried' /\ Fitting'
    <2>1. Carried'
      BY <1>1, <1>8, <1>9 DEF Parts, Carried, Present
    <2>2. \A w \in Present(frame.snapshot) : w \in Windows
      BY DEF Present
    <2>3. Present(committed)' = Present(committed) /\ Present(replay.snapshot)' = Present(replay.snapshot)
          /\ Present(frame.snapshot)' = Present(frame.snapshot) /\ Ids(frame.buffers)' = Ids(frame.buffers)
          /\ Ids(current)' = Ids(current)
      BY <1>1 DEF Present, Ids
    <2>4. Fitting'
      BY <1>1, <1>8, <2>2, <2>3 DEF Parts, Fitting
    <2> QED
      BY <2>1, <2>4
  <1>11. Shared' /\ Matching'
    BY <1>1, <1>9 DEF Parts, Shared, Matching, Answered
  <1>12. \A w \in Windows : Owed(w) \subseteq Owed(w)'
    BY <1>1, <1>8 DEF Owed, Beyond, Shape
  <1>13. ASSUME NEW w \in Windows, NEW i \in 1..Len(pixels[w]), i \notin content'[w].pending
         PROVE  Composed(w)'[i] = Composed(w)[i]
    <2>1. CASE w # x
      BY <1>1, <1>5, <2>1 DEF Composed, Viewable
    <2>2. CASE w = x
      <3>1. Composed(x)' = Over(pixels[x], c.mapped /\ committed[x].shown, Covered[x], c.pixels)
        BY <1>1, <1>5 DEF Composed, Viewable, Over
      <3>2. i \notin places
        BY <1>5, <1>13, <2>2 DEF damage, Places
      <3> QED
        BY <1>13, <2>2, <3>1, <3>2
    <2> QED
      BY <2>1, <2>2
  <1>14. Copied'
    <2>1. SUFFICES ASSUME NEW w \in Present(committed),
                          NEW i \in Places(committed[w].width) \ Owed(w)', i \notin bare'[w]
                   PROVE  memory[current[w]][i] = Composed(w)'[i]
      BY <1>1 DEF Copied, Present
    <2>2. w \in Windows /\ i \in 1..Len(pixels[w]) /\ i \notin content'[w].pending
          /\ i \notin Owed(w) /\ i \notin bare[w]
      BY <2>1, <1>2, <1>8, <1>12 DEF Places, Present, Owed
    <2> QED
      BY <2>1, <2>2, <1>13 DEF Parts, Copied
  <1>15. Sent'
    <2>1. SUFFICES ASSUME frame.kind # "None", NEW w \in Present(frame.snapshot),
                          NEW i \in Places(frame.snapshot[w].width)
                                    \ (content'[w].pending \cup forgotten[w] \cup bare'[w])
                   PROVE  memory[IF frame.buffers[w] # 0 THEN frame.buffers[w] ELSE current[w]][i]
                             = Look(w, frame.snapshot[w].width)'[i]
      BY <1>1 DEF Sent, Present
    <2>2. w \in Windows /\ i \in 1..frame.snapshot[w].width
          /\ i \notin content[w].pending \cup forgotten[w] \cup bare[w]
      BY <2>1, <1>8 DEF Present, Places
    <2>3. Look(w, frame.snapshot[w].width)'[i] = Look(w, frame.snapshot[w].width)[i]
      <3> DEFINE n == frame.snapshot[w].width
      <3>1. CASE n = Len(pixels[w])
        <4>1. Look(w, n)' = Composed(w)' /\ Look(w, n) = Composed(w)
          BY <3>1, <1>1 DEF Look
        <4> QED
          BY <4>1, <3>1, <2>1, <2>2, <1>13
      <3>2. CASE n # Len(pixels[w])
        <4>1. Look(w, n)' = Look(w, n)
          BY <3>2, <1>1 DEF Look
        <4> QED
          BY <4>1
      <3> QED
        BY <3>1, <3>2
    <2> QED
      BY <2>1, <2>2, <2>3 DEF Parts, Sent
  <1>16. Stored'
    <2>1. \A w \in Windows : \A i : i \notin content'[w].pending => i \notin content[w].pending
      BY <1>8
    <2> QED
      BY <1>1, <1>8, <2>1 DEF Parts, Stored
  <1>17. Drawn'
    BY <1>1, <1>9, <1>12 DEF Parts, Drawn
  <1> QED
    BY <1>7, <1>9, <1>10, <1>11, <1>14, <1>15, <1>16, <1>17 DEF Parts

\* A drawing changes the pixels of the subwindow at its places only.
LEMMA DrawChildInductive ==
    ASSUME Parts, NEW x \in Windows, NEW places \in SUBSET Covered[x], DrawChild(x, places)
    PROVE  Parts'
  <1> DEFINE drawn == [i \in Covered[x] |-> IF i \in places THEN count.draws + 1
                                            ELSE child[x].pixels[i]]
             c == [mapped |-> child[x].mapped, pixels |-> drawn]
  <1>1. /\ child[x] \in Children(x) /\ DOMAIN child = Windows
        /\ count \in [draws : 0..MaxDraws, requests : Nat, rejections : Nat, losses : Nat]
        /\ pixels[x] \in Pixels /\ Len(pixels[x]) = committed[x].width
        /\ committed[x].shown \in BOOLEAN /\ MaxDraws \in Nat
    BY WidthFacts, ContentAssumption DEF Parts, Typed, TypeOK, Children
  <1>2. /\ count.draws < MaxDraws /\ count' = [count EXCEPT !["draws"] = @ + 1]
        /\ child' = [child EXCEPT ![x].pixels =
                        [i \in Covered[x] |-> IF i \in places THEN count.draws + 1 ELSE @[i]]]
        /\ DamageParent(x, places)
    BY DEF DrawChild, Bounded
  <1>3. child' = [child EXCEPT ![x] = c]
    <2>1. \A d : [child[x] EXCEPT !.pixels = d] = [mapped |-> child[x].mapped, pixels |-> d]
      BY <1>1 DEF Children
    <2>2. child' = [child EXCEPT ![x] = [@ EXCEPT !.pixels = drawn]]
      BY <1>2
    <2> HIDE DEF drawn
    <2>3. [child[x] EXCEPT !.pixels = drawn] = c
      BY <2>1
    <2> HIDE DEF c
    <2> QED
      BY <2>2, <2>3, <1>1
  <1>4. count' \in [draws : 0..MaxDraws, requests : Nat, rejections : Nat, losses : Nat]
    BY <1>1, <1>2
  <1>5. drawn \in [Covered[x] -> 0..MaxDraws] /\ child[x].mapped \in BOOLEAN
    BY <1>1, <1>2 DEF Children
  <1>6. c \in Children(x)
    BY <1>5 DEF Children
  <1>7. \A i \in 1..Len(pixels[x]) : i \notin places =>
           Over(pixels[x], c.mapped /\ committed[x].shown, Covered[x], c.pixels)[i]
              = Composed(x)[i]
    <2> TAKE i \in 1..Len(pixels[x])
    <2>1. Over(pixels[x], c.mapped /\ committed[x].shown, Covered[x], c.pixels)[i]
             = IF (child[x].mapped /\ committed[x].shown) /\ i \in Covered[x] THEN drawn[i]
               ELSE pixels[x][i]
      <3>1. (child[x].mapped /\ committed[x].shown) \in BOOLEAN
        BY <1>1, <1>5
      <3> HIDE DEF drawn
      <3> QED
        BY <3>1, <1>1, <1>5, OverFacts
    <2>2. Composed(x)[i] = IF Viewable(x) /\ i \in Covered[x] THEN child[x].pixels[i]
                           ELSE pixels[x][i]
      BY <1>1, ComposedFacts DEF Parts
    <2>3. i \in Covered[x] /\ i \notin places => drawn[i] = child[x].pixels[i]
      OBVIOUS
    <2> HIDE DEF drawn
    <2> QED
      BY <2>1, <2>2, <2>3 DEF Viewable
  <1> HIDE DEF c, drawn
  <1> QED
    BY <1>2, <1>3, <1>4, <1>6, <1>7, PaintInductive

\* Mapping or unmapping it changes what is composed where it lies, if its window
\* is shown.
LEMMA MapChildInductive ==
    ASSUME Parts, NEW x \in Windows, MapChild(x)
    PROVE  Parts'
  <1> DEFINE c == [mapped |-> ~child[x].mapped, pixels |-> child[x].pixels]
             places == IF committed[x].shown THEN Covered[x] ELSE {}
  <1>1. /\ child[x] \in Children(x) /\ DOMAIN child = Windows
        /\ count \in [draws : 0..MaxDraws, requests : Nat, rejections : Nat, losses : Nat]
        /\ pixels[x] \in Pixels /\ Len(pixels[x]) = committed[x].width
        /\ committed[x].shown \in BOOLEAN /\ MaxDraws \in Nat
    BY WidthFacts, ContentAssumption DEF Parts, Typed, TypeOK, Children
  <1>2. /\ count.draws < MaxDraws /\ count' = [count EXCEPT !["draws"] = @ + 1]
        /\ child' = [child EXCEPT ![x].mapped = ~@]
        /\ DamageParent(x, places)
    BY DEF MapChild, Bounded
  <1>3. child' = [child EXCEPT ![x] = c]
    <2>1. [child[x] EXCEPT !.mapped = ~child[x].mapped] = c
      BY <1>1 DEF Children
    <2>2. child' = [child EXCEPT ![x] = [@ EXCEPT !.mapped = ~child[x].mapped]]
      BY <1>2
    <2> HIDE DEF c
    <2> QED
      BY <2>1, <2>2, <1>1
  <1>4. count' \in [draws : 0..MaxDraws, requests : Nat, rejections : Nat, losses : Nat]
    BY <1>1, <1>2
  <1>5. c \in Children(x)
    BY <1>1 DEF Children
  <1>6. \A i \in 1..Len(pixels[x]) : i \notin places =>
           Over(pixels[x], c.mapped /\ committed[x].shown, Covered[x], c.pixels)[i]
              = Composed(x)[i]
    <2>1. SUFFICES ASSUME NEW i \in 1..Len(pixels[x]), i \notin places
                   PROVE  Over(pixels[x], c.mapped /\ committed[x].shown, Covered[x], c.pixels)[i]
                             = Composed(x)[i]
      OBVIOUS
    <2>2. ~committed[x].shown \/ i \notin Covered[x]
      BY <2>1
    <2>3. Over(pixels[x], c.mapped /\ committed[x].shown, Covered[x], c.pixels)[i] = pixels[x][i]
      <3>1. i \in DOMAIN pixels[x]
        BY <1>1, <2>1, PixelsFacts
      <3> HIDE DEF c
      <3> QED
        BY <3>1, <2>2 DEF Over
    <2>4. Composed(x)[i] = pixels[x][i]
      <3>1. Composed(x)[i] = IF Viewable(x) /\ i \in Covered[x] THEN child[x].pixels[i]
                             ELSE pixels[x][i]
        BY <1>1, <2>1, ComposedFacts DEF Parts
      <3> QED
        BY <3>1, <2>2 DEF Viewable
    <2> QED
      BY <2>3, <2>4
  <1>7. places \in SUBSET Covered[x]
    OBVIOUS
  <1> HIDE DEF c, places
  <1> QED
    BY <1>2, <1>3, <1>4, <1>5, <1>6, <1>7, PaintInductive
-----------------------------------------------------------------------------
(* The steps of the link *)

\* A release that is recognised: there is only one for a buffer.
LEMMA TakeReleaseInductive ==
    ASSUME Parts, NEW r \in releases, Recognised(r), TakeRelease(r)
    PROVE  Parts'
  <1> DEFINE closing == r.reason = "ConsumerDone" /\ r.id \in discarded
  <1>1. /\ link /\ releases' = releases \ {r}
        /\ closing => discarded' = discarded \ {r.id} /\ retired' = retired
        /\ ~closing => retired' = retired \ {r} /\ discarded' = discarded
        /\ UNCHANGED <<committed, phase, canceled, pixels, child, content, current, memory,
                       inFlight, bare, frame, replay, link, attempted, gwcomp, screen, fatal,
                       forgotten, count>>
    BY DEF TakeRelease, server, bridge, outcome
  <1>2. Undone' = Undone /\ Orphaned' = Orphaned /\ releases' \subseteq releases
        /\ discarded' \subseteq discarded /\ retired' \subseteq retired
        /\ {q.id : q \in releases'} \subseteq {q.id : q \in releases}
    BY <1>1 DEF Undone, Orphaned
  <1>3. Typed'
    BY <1>1, <1>2 DEF Parts, Typed, TypeOK, BufferIds, Release, Buffers
  <1>4. Flow' /\ Carried'
    BY <1>1, <1>2 DEF Parts, Flow, Carried
  <1>5. Fitting'
    <2>1. Ids(frame.buffers)' = Ids(frame.buffers) /\ Ids(current)' = Ids(current)
      BY <1>1 DEF Ids
    <2>2. (Ids(frame.buffers) \cap (Ids(current) \cup discarded \cup {q.id : q \in releases}) = {})'
      BY <2>1, <1>2 DEF Parts, Fitting
    <2>3. Present(committed)' = Present(committed) /\ Present(replay.snapshot)' = Present(replay.snapshot)
          /\ Present(frame.snapshot)' = Present(frame.snapshot)
      BY <1>1 DEF Present
    <2> QED
      BY <2>2, <2>3, <1>1 DEF Parts, Fitting
  <1>6. Shared'
    BY <1>1, <1>2 DEF Parts, Shared, Ids
  <1>7. Matching'
    <2>1. Ids(frame.buffers)' = Ids(frame.buffers) /\ Ids(current)' = Ids(current)
          /\ Ids(replay.buffers)' = Ids(replay.buffers)
      BY <1>1 DEF Ids
    <2>2. r \in Release /\ releases \subseteq Release
      BY DEF Parts, Typed, TypeOK
    <2>3. ASSUME ~Orphaned
          PROVE  /\ retired' = {q \in releases' : q.reason # "ConsumerDone"}
                 /\ Answered("ConsumerDone")' \subseteq discarded'
                 /\ discarded' \subseteq gwcomp.mapped \cup Answered("ConsumerDone")'
                 /\ gwcomp.mapped \subseteq Ids(current) \cup discarded'
                 /\ gwcomp.mapped \cap {q.id : q \in releases'} = {}
                 /\ discarded' \cap Ids(current) = {}
      <3>1. /\ retired = {q \in releases : q.reason # "ConsumerDone"}
            /\ Answered("ConsumerDone") \subseteq discarded
            /\ discarded \subseteq gwcomp.mapped \cup Answered("ConsumerDone")
            /\ gwcomp.mapped \subseteq Ids(current) \cup discarded
            /\ gwcomp.mapped \cap {q.id : q \in releases} = {}
            /\ discarded \cap Ids(current) = {}
        BY <2>3, <1>1 DEF Parts, Matching
      <3>2. CASE closing
        <4>1. r.id \notin gwcomp.mapped
          BY <3>1
        <4>2. Answered("ConsumerDone")' = Answered("ConsumerDone") \ {r.id}
          <5>1. \A q \in releases : q.reason = "ConsumerDone" /\ q.id = r.id => q = r
            BY <2>2, <3>2 DEF Release
          <5> QED
            BY <5>1, <1>1, <3>2 DEF Answered
        <4> QED
          BY <1>1, <1>2, <3>1, <3>2, <4>1, <4>2
      <3>3. CASE ~closing
        <4>1. r.reason # "ConsumerDone"
          BY <3>1, <3>3 DEF Recognised
        <4>2. Answered("ConsumerDone")' = Answered("ConsumerDone")
          BY <1>1, <4>1 DEF Answered
        <4> QED
          BY <1>1, <1>2, <3>1, <3>3, <4>1, <4>2
      <3> QED
        BY <3>2, <3>3
    <2>4. ~(Orphaned /\ ~Undone)
      BY <1>1 DEF Parts, Matching, Recognised
    <2>5. ~(frame.kind # "None" /\ ~inFlight)
      BY <1>1 DEF Parts, Matching
    <2> QED
      BY <1>1, <1>2, <2>1, <2>3, <2>4, <2>5 DEF Matching
  <1>8. \A w \in Windows : Owed(w)' = Owed(w)
    BY <1>1 DEF Owed, Beyond, Shape
  <1>9. \A w \in Windows : Composed(w)' = Composed(w) /\ \A n : Look(w, n)' = Look(w, n)
    BY <1>1 DEF Composed, Look, Viewable
  <1>10. Copied' /\ Sent' /\ Stored' /\ Drawn'
    BY <1>1, <1>2, <1>8, <1>9 DEF Parts, Copied, Sent, Stored, Drawn, Present
  <1> QED
    BY <1>3, <1>4, <1>5, <1>6, <1>7, <1>10 DEF Parts

\* What a refusal or a loss leaves of the entries.
LEMMA RejectedFacts ==
    ASSUME Typed, NEW keep \in BOOLEAN
    PROVE  /\ Rejected(keep) \in [Windows -> Entry]
           /\ \A w \in Windows :
                 /\ Rejected(keep)[w].pending = content[w].pending \cup content[w].inflight
                 /\ Rejected(keep)[w].inflight = {} /\ Rejected(keep)[w].buffer = 0
                 /\ Rejected(keep)[w].storage = IF keep THEN content[w].storage ELSE << >>
  <1>1. content \in [Windows -> Entry] /\ 0 \in BufferIds /\ << >> \in Pixels
    BY NoPixels, LenProperties DEF Typed, TypeOK, Entry, BufferIds
  <1> QED
    BY <1>1 DEF Rejected, Entry

\* gwcomp is lost: what was in flight is pending again.
LEMMA LoseInductive ==
    ASSUME Parts, Lose PROVE Parts'
  <1>1. /\ link /\ link' = FALSE /\ content' = Rejected(TRUE)
        /\ retired' = {} /\ discarded' = {} /\ inFlight' = FALSE
        /\ releases' = {} /\ gwcomp' = EmptyPeer /\ screen' = [w \in Windows |-> << >>]
        /\ count' = [count EXCEPT !["losses"] = @ + 1]
        /\ UNCHANGED <<committed, phase, canceled, pixels, child, current, memory, bare, frame,
                       replay, attempted, fatal, forgotten>>
    BY DEF Lose, Bounded, PeerDisconnected, server, outcome
  <1>2. /\ content' \in [Windows -> Entry]
        /\ \A w \in Windows : /\ content'[w].pending = content[w].pending \cup content[w].inflight
                              /\ content'[w].inflight = {} /\ content'[w].buffer = 0
                              /\ content'[w].storage = content[w].storage
    BY <1>1, RejectedFacts DEF Parts
  <1>3. ~Undone' /\ Orphaned' = Orphaned
    BY <1>1 DEF Undone, Orphaned
  <1>4. Typed'
    <2>1. /\ BufferIds' = BufferIds /\ Release' = Release /\ Buffers' = Buffers
          /\ 0 \in BufferIds /\ << >> \in Pixels
      BY <1>1, NoPixels, LenProperties DEF BufferIds, Release, Buffers, Parts, Typed
    <2>2. [w \in Windows |-> Absent] \in Snapshots
      BY WidthFacts DEF Snapshots, WindowStates, Absent
    <2>3. EmptyPeer \in [scene : Snapshots, attached : Buffers, pending : Buffers,
                         mapped : SUBSET BufferIds]
      BY <2>1, <2>2 DEF EmptyPeer, NoBuffers, Buffers
    <2>4. count' \in [draws : 0..MaxDraws, requests : Nat, rejections : Nat, losses : Nat]
      BY <1>1 DEF Parts, Typed
    <2>5. screen' \in [Windows -> Pixels] /\ gwcomp'.mapped \subseteq BufferIds
      BY <1>1, <2>1 DEF EmptyPeer
    <2>6. TypeOK'
      BY <1>1, <1>2, <2>1, <2>5 DEF Parts, Typed, TypeOK, Entry
    <2> QED
      BY <1>1, <2>1, <2>3, <2>4, <2>5, <2>6 DEF Parts, Typed
  <1>5. Flow'
    BY <1>1, <1>3 DEF Parts, Flow
  <1>6. Carried'
    BY <1>1, <1>2, <1>3 DEF Parts, Carried, Present
  <1>7. /\ Ids(frame.buffers)' = Ids(frame.buffers) /\ Ids(current)' = Ids(current)
        /\ Present(committed)' = Present(committed) /\ Present(frame.snapshot)' = Present(frame.snapshot)
        /\ Present(replay.snapshot)' = Present(replay.snapshot)
        /\ \A w \in Present(frame.snapshot) : w \in Windows
    BY <1>1 DEF Present, Ids
  <1>8. Fitting'
    <2>1. (Ids(frame.buffers) \cap (Ids(current) \cup discarded \cup {q.id : q \in releases}) = {})'
      BY <1>1, <1>7 DEF Parts, Fitting
    <2> QED
      BY <1>1, <1>2, <1>7, <2>1 DEF Parts, Fitting
  <1>9. Shared'
    BY <1>1, <1>3, <1>7 DEF Parts, Shared
  <1>10. Matching'
    BY <1>1 DEF Matching
  <1>11. \A w \in Windows : Owed(w)' = Owed(w)
    BY <1>1, <1>2, <1>7 DEF Owed, Beyond, Shape
  <1>12. \A w \in Present(committed) : w \in Windows
    BY DEF Present
  <1>13. Copied'
    <2>1. \A w \in Windows : Composed(w)' = Composed(w)
      BY <1>1 DEF Composed, Viewable
    <2> QED
      BY <1>1, <1>7, <1>11, <1>12, <2>1 DEF Parts, Copied
  <1>14. /\ UNCHANGED <<pixels, current, memory, frame, forgotten, bare>>
         /\ \A w \in Windows : \A n : Look(w, n)' = Look(w, n)
    BY <1>1 DEF Look, Composed, Viewable
  <1>15. Sent'
    <2>1. SUFFICES ASSUME frame.kind # "None", NEW w \in Present(frame.snapshot),
                          NEW i \in Places(frame.snapshot[w].width)
                                    \ (content'[w].pending \cup forgotten[w] \cup bare[w])
                   PROVE  memory[IF frame.buffers[w] # 0 THEN frame.buffers[w] ELSE current[w]][i]
                             = Look(w, frame.snapshot[w].width)[i]
      BY <1>7, <1>14 DEF Sent
    <2>2. i \notin content[w].pending \cup forgotten[w] \cup bare[w]
      BY <2>1, <1>2, <1>7
    <2> QED
      BY <2>1, <2>2 DEF Parts, Sent
  <1>16. Stored'
    <2>1. SUFFICES ASSUME NEW w \in Windows
                   PROVE  /\ \A i \in Places(Len(content[w].storage)) :
                                i \notin content'[w].pending \/ pixels[w] = << >> =>
                                   content[w].storage[i]
                                      = Resize(pixels[w], Len(content[w].storage))[i]
                          /\ Len(content[w].storage) = Len(pixels[w])
                                => content[w].storage = pixels[w]
      BY <1>2, <1>14 DEF Stored
    <2> QED
      BY <1>2 DEF Parts, Stored
  <1>17. Drawn'
    BY <1>1 DEF Drawn
  <1> QED
    BY <1>4, <1>5, <1>6, <1>8, <1>9, <1>10, <1>13, <1>15, <1>16, <1>17 DEF Parts

\* gwcomp is back: what the server replays are buffers the presenter still
\* has, and a frame that is sent again carries none of its own.
LEMMA ReconnectInductive ==
    ASSUME Parts, Reconnect, Sendable(replay.buffers), Sendable(frame.buffers)
    PROVE  Parts'
  <1>1. /\ ~link /\ link' = TRUE /\ Bootstrapped
        /\ UNCHANGED <<committed, phase, canceled, pixels, child, content, current, retired,
                       discarded, memory, inFlight, bare, frame, replay, attempted, releases,
                       fatal, forgotten, count>>
    BY DEF Reconnect, server, presenter, outcome
  <1>2. /\ releases = {} /\ retired = {} /\ discarded = {} /\ inFlight = FALSE
        /\ \A w \in Windows : content[w].buffer = 0 /\ content[w].inflight = {}
    BY <1>1 DEF Parts, Matching, Carried
  <1>3. /\ gwcomp'.scene = replay.snapshot /\ gwcomp'.attached = replay.buffers
        /\ gwcomp'.pending = replay.buffers /\ gwcomp'.mapped = Ids(replay.buffers)
        /\ gwcomp' = [scene |-> replay.snapshot, attached |-> replay.buffers,
                      pending |-> replay.buffers, mapped |-> Ids(replay.buffers)]
        /\ screen' = [w \in Windows |-> IF replay.snapshot[w].shown
                                        THEN memory[replay.buffers[w]] ELSE << >>]
    BY <1>1 DEF Bootstrapped, Ids
  <1>4. Ids(replay.buffers) \subseteq Ids(current) /\ Ids(frame.buffers) = {}
    <2>1. StagedBuffers = {}
      BY <1>2 DEF StagedBuffers, Replacing
    <2>2. Open \ {0} = Ids(current)
      BY <1>2, <2>1 DEF Open, Ids
    <2>3. Ids(replay.buffers) \subseteq Ids(current) /\ Ids(frame.buffers) \subseteq Ids(current)
      BY <2>2 DEF Sendable, Ids
    <2> QED
      BY <2>3 DEF Parts, Fitting
  <1>5. ~Undone /\ ~Undone' /\ Orphaned' = Orphaned
    BY <1>1, <1>2 DEF Undone, Orphaned
  <1>6. \A w \in Windows : frame.buffers[w] = 0
    BY <1>4 DEF Ids
  <1>7. \A w \in Windows : replay.snapshot[w].shown =>
           /\ memory[replay.buffers[w]] \in Pixels
           /\ Len(memory[replay.buffers[w]]) = replay.snapshot[w].width
    <2>1. TAKE w \in Windows
    <2>2. SUFFICES ASSUME replay.snapshot[w].shown
                   PROVE  /\ memory[replay.buffers[w]] \in Pixels
                          /\ Len(memory[replay.buffers[w]]) = replay.snapshot[w].width
      OBVIOUS
    <2>3. w \in Present(replay.snapshot)
      BY <2>2, WidthFacts DEF Parts, Typed
    <2>4. replay.buffers[w] \in 1..Len(memory)
      BY <2>3, LenProperties DEF Parts, Fitting, Typed, Buffers, BufferIds
    <2> QED
      BY <2>3, <2>4, ElementOfSeq DEF Parts, Fitting, Typed
  <1>8. BufferIds' = BufferIds /\ Release' = Release /\ Buffers' = Buffers
    BY <1>1 DEF BufferIds, Release, Buffers
  <1>9. Typed'
    <2>1. screen' \in [Windows -> Pixels]
      BY <1>3, <1>7, NoPixels
    <2>2. Ids(replay.buffers) \subseteq BufferIds
      BY DEF Ids, Parts, Typed, Buffers
    <2>3. gwcomp' \in [scene : Snapshots, attached : Buffers, pending : Buffers,
                       mapped : SUBSET BufferIds]
      BY <1>3, <2>2 DEF Parts, Typed
    <2>4. TypeOK'
      BY <1>1, <1>3, <1>8, <2>2 DEF Parts, Typed, TypeOK
    <2> QED
      BY <1>1, <1>8, <2>1, <2>3, <2>4 DEF Parts, Typed
  <1>10. Flow'
    BY <1>1, <1>5 DEF Parts, Flow
  <1>11. Carried'
    BY <1>1, <1>2, <1>5, <1>6 DEF Parts, Carried, Present
  <1>12. /\ Ids(frame.buffers)' = Ids(frame.buffers) /\ Ids(current)' = Ids(current)
         /\ Present(committed)' = Present(committed) /\ Present(frame.snapshot)' = Present(frame.snapshot)
         /\ Present(replay.snapshot)' = Present(replay.snapshot)
         /\ Ids(replay.buffers)' = Ids(replay.buffers)
         /\ \A w \in Present(frame.snapshot) : w \in Windows
         /\ \A w \in Present(committed) : w \in Windows
    BY <1>1 DEF Present, Ids
  <1>13. Fitting'
    <2>1. (Ids(frame.buffers) \cap (Ids(current) \cup discarded \cup {q.id : q \in releases}) = {})'
      BY <1>4, <1>12
    <2> QED
      BY <1>1, <1>12, <2>1 DEF Parts, Fitting
  <1>14. Shared'
    BY <1>1, <1>3, <1>5, <1>12 DEF Parts, Shared
  <1>15. Matching'
    <2>1. ~Orphaned => replay.buffers = current
      BY DEF Parts, Shared
    <2>2. Answered("ConsumerDone")' = {}
      BY <1>1, <1>2 DEF Answered
    <2>3. gwcomp'.mapped \subseteq Ids(current) /\ releases' = {} /\ retired' = {} /\ discarded' = {}
      BY <1>1, <1>2, <1>3, <1>4
    <2> QED
      BY <1>1, <1>3, <1>4, <1>12, <2>2, <2>3 DEF Matching
  <1>16. \A w \in Windows : Owed(w)' = Owed(w)
    BY <1>1, <1>12 DEF Owed, Beyond, Shape
  <1>17. \A w \in Windows : Composed(w)' = Composed(w) /\ \A n : Look(w, n)' = Look(w, n)
    BY <1>1 DEF Composed, Look, Viewable
  <1>18. Copied'
    BY <1>1, <1>12, <1>16, <1>17 DEF Parts, Copied
  <1>19. Sent'
    BY <1>1, <1>12, <1>17 DEF Parts, Sent
  <1>20. Stored'
    BY <1>1 DEF Parts, Stored
  <1>21. Drawn'
    BY <1>1, <1>3, <1>7 DEF Drawn, Places
  <1> QED
    BY <1>9, <1>10, <1>11, <1>13, <1>14, <1>15, <1>18, <1>19, <1>20, <1>21 DEF Parts
-----------------------------------------------------------------------------
(* Refused and accepted frames *)

LEMMA NoFrameFacts ==
    ASSUME Typed
    PROVE  /\ NoFrame \in [kind : {"None", "Lifecycle", "Content", "Replay"}, snapshot : Snapshots,
                           buffers : Buffers, damage : [Windows -> SUBSET AnyPlaces]]
           /\ NoFrame.kind = "None" /\ Ids(NoFrame.buffers) = {}
           /\ Present(NoFrame.snapshot) = {} /\ \A w \in Windows : NoFrame.buffers[w] = 0
  <1>1. [w \in Windows |-> Absent] \in Snapshots /\ Present([w \in Windows |-> Absent]) = {}
    BY WidthFacts DEF Snapshots, WindowStates, Absent, Present
  <1>2. NoBuffers \in Buffers /\ Ids(NoBuffers) = {} /\ \A w \in Windows : NoBuffers[w] = 0
    BY LenProperties DEF NoBuffers, Buffers, BufferIds, Ids, Typed
  <1>3. [w \in Windows |-> {}] \in [Windows -> SUBSET AnyPlaces]
    OBVIOUS
  <1> QED
    BY <1>1, <1>2, <1>3 DEF NoFrame

\* A refused operation: its buffers wait for their release, and the places that
\* its frame did not have are forgotten.
LEMMA OperationRejectedInductive ==
    ASSUME Parts, OperationRejected PROVE Parts'
  <1>1. /\ link /\ frame.kind = "Lifecycle" /\ phase = "AwaitingCompositor"
        /\ content' = Rejected(FALSE) /\ discarded' = discarded \cup StagedBuffers
        /\ inFlight' = FALSE /\ frame' = NoFrame /\ phase' = "RollingBackPolicy"
        /\ forgotten' = [w \in Windows |-> forgotten[w] \cup Beyond(w)]
        /\ count' = [count EXCEPT !["rejections"] = @ + 1]
    BY DEF OperationRejected, Refuse, RejectLifecycle, Beyond, Shape
  <1>2. /\ gwcomp' = [gwcomp EXCEPT !["pending"] = AttachmentsOf(frame), !["mapped"] = Mapped(frame)]
        /\ UNCHANGED <<committed, canceled, pixels, child, current, retired, memory, bare, replay,
                       link, attempted, releases, screen, fatal>>
    BY DEF OperationRejected, Refuse, RejectLifecycle
  <1>3. /\ content' \in [Windows -> Entry]
        /\ \A w \in Windows : /\ content'[w].pending = content[w].pending \cup content[w].inflight
                              /\ content'[w].inflight = {} /\ content'[w].buffer = 0
                              /\ content'[w].storage = << >>
    BY <1>1, RejectedFacts DEF Parts
  <1>4. ~Orphaned /\ ~Orphaned' /\ ~Undone /\ ~Undone' /\ replay.snapshot = committed
    BY <1>1, <1>2 DEF Parts, Flow, Undone, Orphaned
  <1>5. BufferIds' = BufferIds /\ Release' = Release /\ Buffers' = Buffers /\ 0 \in BufferIds
    BY <1>2, LenProperties DEF BufferIds, Release, Buffers, Parts, Typed
  <1>6. /\ Ids(frame.buffers) = StagedBuffers /\ StagedBuffers \subseteq BufferIds
    <2>1. \A w \in Windows : content[w].buffer = frame.buffers[w] /\ frame.buffers[w] \in BufferIds
      BY <1>1 DEF Parts, Carried, Typed, Buffers
    <2> QED
      BY <2>1 DEF Ids, StagedBuffers, Replacing
  <1>7. gwcomp'.scene = gwcomp.scene /\ gwcomp'.attached = gwcomp.attached
        /\ gwcomp'.mapped = gwcomp.mapped \cup StagedBuffers
        /\ gwcomp'.pending \in Buffers
        /\ gwcomp' \in [scene : Snapshots, attached : Buffers, pending : Buffers,
                        mapped : SUBSET BufferIds]
    <2>1. AttachmentsOf(frame) \in Buffers
      BY <1>1, <1>5 DEF AttachmentsOf, Parts, Typed, Buffers
    <2>2. Mapped(frame) = gwcomp.mapped \cup StagedBuffers
      BY <1>6 DEF Mapped, Ids
    <2> QED
      BY <1>2, <1>6, <2>1, <2>2 DEF Parts, Typed
  <1>8. \A w \in Windows : Beyond(w) \subseteq AnyPlaces
    BY WidthFacts DEF Beyond, AnyPlaces, Parts, Typed
  <1>9. NoFrame \in [kind : {"None", "Lifecycle", "Content", "Replay"}, snapshot : Snapshots,
                     buffers : Buffers, damage : [Windows -> SUBSET AnyPlaces]]
        /\ NoFrame.kind = "None" /\ Ids(NoFrame.buffers) = {} /\ Present(NoFrame.snapshot) = {}
        /\ \A w \in Windows : NoFrame.buffers[w] = 0
    BY NoFrameFacts DEF Parts
  <1>10. Typed'
    <2>1. forgotten' \in [Windows -> SUBSET AnyPlaces]
      BY <1>1, <1>8 DEF Parts, Typed
    <2>2. count' \in [draws : 0..MaxDraws, requests : Nat, rejections : Nat, losses : Nat]
      BY <1>1 DEF Parts, Typed
    <2>3. TypeOK'
      BY <1>1, <1>2, <1>3, <1>5, <1>6, <1>7, <1>9 DEF Parts, Typed, TypeOK, Entry
    <2> QED
      BY <1>1, <1>2, <1>5, <1>7, <1>9, <2>1, <2>2, <2>3 DEF Parts, Typed
  <1>11. Flow'
    BY <1>1, <1>2, <1>4, <1>9 DEF Parts, Flow
  <1>12. Carried'
    BY <1>1, <1>3, <1>4, <1>9 DEF Carried
  <1>13. Ids(current)' = Ids(current) /\ Present(committed)' = Present(committed)
         /\ Present(replay.snapshot)' = Present(replay.snapshot)
         /\ \A w \in Present(committed) : w \in Windows
    BY <1>2 DEF Ids, Present
  <1>14. Fitting'
    BY <1>1, <1>2, <1>9, <1>13 DEF Parts, Fitting, Ids
  <1>15. Shared'
    BY <1>1, <1>2, <1>4, <1>7, <1>13 DEF Parts, Shared
  <1>16. Matching'
    <2>1. Answered("ConsumerDone")' = Answered("ConsumerDone")
      BY <1>2 DEF Answered
    <2>2. /\ retired = {r \in releases : r.reason # "ConsumerDone"}
          /\ Answered("ConsumerDone") \subseteq discarded
          /\ discarded \subseteq gwcomp.mapped \cup Answered("ConsumerDone")
          /\ gwcomp.mapped \subseteq Ids(current) \cup discarded
          /\ gwcomp.mapped \cap {r.id : r \in releases} = {}
          /\ discarded \cap Ids(current) = {}
      BY <1>1, <1>4 DEF Parts, Matching
    <2>3. StagedBuffers \cap (Ids(current) \cup discarded \cup {r.id : r \in releases}) = {}
      BY <1>6 DEF Parts, Fitting
    <2>4. /\ retired' = {r \in releases' : r.reason # "ConsumerDone"}
          /\ Answered("ConsumerDone")' \subseteq discarded'
          /\ discarded' \subseteq gwcomp'.mapped \cup Answered("ConsumerDone")'
          /\ gwcomp'.mapped \subseteq Ids(current)' \cup discarded'
          /\ gwcomp'.mapped \cap {r.id : r \in releases'} = {}
          /\ discarded' \cap Ids(current)' = {}
      <3>1. releases' = releases /\ retired' = retired
        BY <1>2
      <3>2. discarded' = discarded \cup StagedBuffers
        BY <1>1
      <3> QED
        BY <3>1, <3>2, <2>1, <2>2, <2>3, <1>7, <1>13
    <2> QED
      BY <1>1, <1>2, <1>4, <1>9, <2>4 DEF Matching
  <1>17. \A w \in Windows : Owed(w) \subseteq Owed(w)'
    BY <1>1, <1>3 DEF Owed
  <1>18. Copied'
    <2>1. \A w \in Windows : Composed(w)' = Composed(w)
      BY <1>2 DEF Composed, Viewable
    <2> QED
      BY <1>2, <1>13, <1>17, <2>1 DEF Parts, Copied
  <1>19. Sent'
    BY <1>1, <1>9 DEF Sent
  <1>20. Stored'
    <2>1. \A w \in Windows : pixels[w] \in Pixels
      BY DEF Parts, Typed, TypeOK
    <2>2. \A w \in Windows : Len(pixels[w]) = 0 => pixels[w] = << >>
      BY <2>1, PixelsFacts, EmptySeq
    <2> QED
      BY <1>2, <1>3, <2>2, NoPixels DEF Stored, Places
  <1>21. Drawn'
    BY <1>2, <1>4, <1>7, <1>17 DEF Parts, Drawn
  <1> QED
    BY <1>10, <1>11, <1>12, <1>14, <1>15, <1>16, <1>18, <1>19, <1>20, <1>21 DEF Parts

\* The premises of the facts about a frame that is shown.
Shows == link /\ frame.kind # "None" /\ Presented(frame) /\ Promote(frame)

\* A frame that is shown draws what was owed before and is not owed after it.
LEMMA DrawnFacts ==
    ASSUME Parts, Shows, NEW w \in Windows, frame.snapshot[w].shown
    PROVE  /\ Len(screen'[w]) = frame.snapshot[w].width
           /\ \A i \in Places(frame.snapshot[w].width) :
                 i \notin content[w].pending \cup content[w].inflight \cup forgotten[w] =>
                     screen'[w][i] = memory[replay'.buffers[w]][i]
           /\ \A i \in Places(frame.snapshot[w].width) : i \in content[w].inflight =>
                     screen'[w][i] = memory[replay'.buffers[w]][i]
  <1>1. /\ Len(screen'[w]) = frame.snapshot[w].width
        /\ \A i \in Places(frame.snapshot[w].width) :
              \/ screen'[w][i] = memory[replay'.buffers[w]][i]
              \/ /\ i \notin frame.damage[w] /\ screen'[w][i] = screen[w][i]
                 /\ replay.snapshot[w] = frame.snapshot[w]
                 /\ replay.buffers[w] = replay'.buffers[w]
    BY ScreenFacts DEF Parts, Shows
  <1>2. content[w].inflight \subseteq frame.damage[w]
    BY DEF Parts, Shows, Carried
  <1>3. ~Undone /\ gwcomp.scene = replay.snapshot /\ gwcomp.attached = replay.buffers
    BY DEF Parts, Shows, Undone, Flow, Shared
  <1>4. ASSUME NEW i \in Places(frame.snapshot[w].width),
               i \notin content[w].pending \cup content[w].inflight \cup forgotten[w],
               replay.snapshot[w] = frame.snapshot[w], replay.buffers[w] = replay'.buffers[w]
        PROVE  screen[w][i] = memory[replay'.buffers[w]][i]
    <2>1. i \notin Beyond(w)
      BY <1>4 DEF Beyond, Shape
    <2> QED
      BY <1>3, <1>4, <2>1 DEF Parts, Shows, Drawn, Owed
  <1> QED
    BY <1>1, <1>2, <1>4

\* An operation is shown after its client has left: nothing is the presenter's
\* yet, and the rollback comes next.
LEMMA OrphanShownInductive ==
    ASSUME Parts, OperationAccepted, canceled PROVE Parts'
  <1>1. /\ Shows /\ phase = "AwaitingCompositor" /\ phase' = "RollingBackPolicy"
        /\ frame' = NoFrame
        /\ UNCHANGED <<committed, canceled, pixels, child, content, current, retired, discarded,
                       memory, inFlight, bare, link, attempted, fatal, forgotten, count>>
    BY DEF OperationAccepted, Shows, presenter, outcome
  <1>2. /\ replay.snapshot = committed /\ frame.snapshot # committed
        /\ ~Orphaned /\ replay.buffers = current /\ ~Undone
    BY <1>1 DEF Parts, Flow, Orphaned, Shared, Undone
  <1>3. /\ gwcomp'.attached = replay'.buffers /\ gwcomp'.scene = replay'.snapshot
        /\ replay'.snapshot = frame.snapshot
        /\ replay' \in [snapshot : Snapshots, buffers : [Windows -> BufferIds]]
        /\ \A w \in Windows : replay'.buffers[w] =
              IF w \notin Present(frame.snapshot) THEN 0
              ELSE IF frame.buffers[w] # 0 THEN frame.buffers[w] ELSE replay.buffers[w]
        /\ \A w \in Windows : replay'.buffers[w] # 0 <=> w \in Present(frame.snapshot)
        /\ \A w \in Present(frame.snapshot) :
              Len(memory[replay'.buffers[w]]) = frame.snapshot[w].width
    BY <1>1, ShownFacts DEF Parts, Shows
  <1> DEFINE old == {w \in Windows : replay.buffers[w] \notin {0, replay'.buffers[w]}}
             vain == (gwcomp.mapped \cup Ids(frame.buffers))
                     \ ({replay'.buffers[w] : w \in Windows} \cup {replay.buffers[w] : w \in old})
             out == {[id |-> replay.buffers[w],
                      reason |-> IF w \in Present(frame.snapshot) THEN "Replaced"
                                 ELSE "SurfaceRemoved"] : w \in old}
                    \cup {[id |-> b, reason |-> "ConsumerDone"] : b \in vain}
  <1>4. /\ releases' = releases \cup out /\ releases' \subseteq Release
        /\ gwcomp'.mapped = (gwcomp.mapped \cup Ids(frame.buffers)) \ {r.id : r \in out}
        /\ gwcomp' \in [scene : Snapshots, attached : Buffers, pending : Buffers,
                        mapped : SUBSET BufferIds]
    BY <1>1, RetirementFacts DEF Parts, Shows
  <1>5. screen' \in [Windows -> Pixels]
    BY <1>1, ScreenFacts DEF Parts, Shows
  <1>6. Orphaned' /\ (Undone' <=> inFlight)
    BY <1>1, <1>2, <1>3 DEF Orphaned, Undone
  <1>7. ~inFlight => \A w \in Windows : frame.buffers[w] = 0
    BY <1>1 DEF Parts, Shows, Carried
  <1>8. BufferIds' = BufferIds /\ Release' = Release /\ Buffers' = Buffers
    BY <1>1 DEF BufferIds, Release, Buffers
  <1>9. /\ NoFrame \in [kind : {"None", "Lifecycle", "Content", "Replay"}, snapshot : Snapshots,
                        buffers : Buffers, damage : [Windows -> SUBSET AnyPlaces]]
        /\ NoFrame.kind = "None" /\ Ids(NoFrame.buffers) = {} /\ Present(NoFrame.snapshot) = {}
        /\ \A w \in Windows : NoFrame.buffers[w] = 0
    BY NoFrameFacts DEF Parts
  <1>10. Typed'
    <2> HIDE DEF out
    <2>1. gwcomp'.mapped \subseteq BufferIds
      BY <1>4
    <2>2. TypeOK'
      BY <1>1, <1>4, <1>8, <1>9, <2>1 DEF Parts, Typed, TypeOK
    <2> QED
      BY <1>1, <1>3, <1>4, <1>5, <1>8, <1>9, <2>2 DEF Parts, Typed, Buffers
  <1>11. Flow'
    BY <1>1, <1>6, <1>9 DEF Parts, Flow, Shows
  <1>12. Carried'
    BY <1>1, <1>6, <1>9 DEF Parts, Carried, Shows
  <1>13. Ids(current)' = Ids(current) /\ Present(committed)' = Present(committed)
         /\ Present(replay'.snapshot) = Present(frame.snapshot)
         /\ \A w \in Present(committed) : w \in Windows
    BY <1>1, <1>3 DEF Ids, Present
  <1>14. Fitting'
    <2> HIDE DEF out
    <2>1. (\A w \in Windows : replay.buffers[w] # 0 <=> w \in Present(replay.snapshot))'
          /\ (\A w \in Present(replay.snapshot) :
                Len(memory[replay.buffers[w]]) = replay.snapshot[w].width)'
      BY <1>1, <1>3, <1>13
    <2>2. (Ids(frame.buffers) \cap (Ids(current) \cup discarded \cup {r.id : r \in releases}) = {})'
      BY <1>1, <1>9 DEF Ids
    <2> QED
      BY <1>1, <1>9, <1>13, <2>1, <2>2 DEF Parts, Fitting
  <1>15. Shared'
    <2>1. \A w \in Windows : \/ replay'.buffers[w] = current[w]
                             \/ replay'.buffers[w] \notin Ids(current)
      <3>1. TAKE w \in Windows
      <3>2. frame.buffers[w] # 0 => frame.buffers[w] \notin Ids(current)
        BY DEF Parts, Fitting, Ids
      <3>3. 0 \notin Ids(current)
        BY DEF Ids
      <3> QED
        BY <1>2, <1>3, <3>2, <3>3
    <2> QED
      BY <1>1, <1>3, <1>6, <1>13, <2>1 DEF Shared
  <1>16. Matching'
    <2>1. SUFFICES ASSUME ~inFlight
                   PROVE  /\ retired = {} /\ discarded = {}
                          /\ Present(committed) \subseteq Present(frame.snapshot) => releases' = {}
                          /\ gwcomp'.mapped \subseteq Ids(replay'.buffers)
                          /\ Ids(replay'.buffers) \subseteq Ids(current)
      <3> HIDE DEF out
      <3> QED
        BY <1>1, <1>6, <1>9, <1>13 DEF Matching, Shows
    <2>2. releases = {} /\ retired = {} /\ discarded = {}
      BY <1>1, <2>1 DEF Parts, Matching, Shows
    <2>3. gwcomp.mapped \subseteq Ids(current) /\ Ids(frame.buffers) = {}
      BY <1>1, <1>2, <1>7, <2>1, <2>2 DEF Parts, Matching, Shows, Ids
    <2>4. \A w \in Windows : replay'.buffers[w] = IF w \in Present(frame.snapshot) THEN current[w] ELSE 0
      BY <1>2, <1>3, <1>7, <2>1
    <2>5. old = {w \in Windows : current[w] # 0 /\ w \notin Present(frame.snapshot)}
      BY <1>2, <2>4
    <2>6. vain = {}
      BY <1>2, <2>3, <2>4, <2>5 DEF Ids
    <2>7. Present(committed) \subseteq Present(frame.snapshot) => old = {}
      BY <2>5 DEF Parts, Fitting
    <2>8. Present(committed) \subseteq Present(frame.snapshot) => releases' = {}
      BY <1>4, <2>2, <2>6, <2>7
    <2>9. gwcomp'.mapped \subseteq Ids(replay'.buffers)
      <3>1. SUFFICES ASSUME NEW b \in gwcomp'.mapped
                     PROVE  b \in Ids(replay'.buffers)
        OBVIOUS
      <3>2. b \in Ids(current) /\ b \notin {r.id : r \in out}
        BY <1>4, <2>3
      <3>3. PICK w \in Windows : b = current[w] /\ b # 0
        BY <3>2 DEF Ids
      <3>4. w \notin old
        <4>1. SUFFICES ASSUME w \in old PROVE FALSE
          OBVIOUS
        <4>2. [id |-> replay.buffers[w],
               reason |-> IF w \in Present(frame.snapshot) THEN "Replaced"
                          ELSE "SurfaceRemoved"] \in out
          BY <4>1
        <4> HIDE DEF out
        <4> QED
          BY <1>2, <3>2, <3>3, <4>2
      <3> QED
        BY <2>4, <2>5, <3>3, <3>4 DEF Ids
    <2>10. Ids(replay'.buffers) \subseteq Ids(current)
      BY <2>4 DEF Ids
    <2> QED
      BY <2>2, <2>8, <2>9, <2>10
  <1>17. \A w \in Windows : Owed(w)' = Owed(w)
    BY <1>1, <1>3 DEF Owed, Beyond, Shape
  <1>18. Copied' /\ Stored'
    <2>1. \A w \in Windows : Composed(w)' = Composed(w)
      BY <1>1 DEF Composed, Viewable
    <2> QED
      BY <1>1, <1>13, <1>17, <2>1 DEF Parts, Copied, Stored
  <1>19. Sent'
    BY <1>1, <1>9 DEF Sent
  <1>20. Drawn'
    <2>1. SUFFICES ASSUME NEW w \in Windows, frame.snapshot[w].shown
                   PROVE  /\ Len(screen'[w]) = frame.snapshot[w].width
                          /\ \A i \in Places(frame.snapshot[w].width) \ Owed(w) :
                                screen'[w][i] = memory[replay'.buffers[w]][i]
      BY <1>1, <1>3, <1>17 DEF Drawn
    <2> QED
      BY <1>1, <2>1, DrawnFacts DEF Owed
  <1> QED
    BY <1>10, <1>11, <1>12, <1>14, <1>15, <1>16, <1>18, <1>19, <1>20 DEF Parts

\* A frame that is shown and committed: an increment, a replay, an operation,
\* or the rollback of one.
Commits ==
    /\ Shows /\ frame' = NoFrame /\ phase' = "Idle" /\ canceled' = FALSE
    /\ committed' = frame.snapshot
    /\ \/ frame.kind = "Content" /\ AcceptContent /\ UNCHANGED <<pixels, child>>
       \/ frame.kind # "Content" /\ AcceptLifecycle(frame.snapshot)
    /\ attempted' \in BOOLEAN /\ UNCHANGED <<link, fatal, forgotten, count>>

\* What the committed frame makes of the entries and of the pixels.
LEMMA CommitFacts ==
    ASSUME Parts, Commits
    PROVE  /\ content' \in [Windows -> Entry] /\ pixels' \in [Windows -> Pixels]
           /\ \A w \in Windows : /\ content'[w].inflight = {} /\ content'[w].buffer = 0
                                 /\ content'[w].storage = << >>
                                 /\ w \in Present(frame.snapshot) =>
                                       content'[w].pending = content[w].pending
           /\ \A w \in Windows : Len(pixels'[w]) = frame.snapshot[w].width
           /\ \A w \in Present(frame.snapshot) :
                 pixels'[w] = Resize(pixels[w], frame.snapshot[w].width)
           /\ inFlight' = FALSE /\ discarded' = discarded /\ memory' = memory
           /\ BufferIds' = BufferIds /\ Entry' = Entry
           /\ \A w \in Windows : frame.snapshot[w] \in WindowStates(w)
  <1>1. /\ content \in [Windows -> Entry] /\ pixels \in [Windows -> Pixels]
        /\ frame.snapshot \in Snapshots /\ committed \in Snapshots
        /\ \A w \in Windows : Len(pixels[w]) = committed[w].width
        /\ 0 \in BufferIds /\ frame.kind # "None"
        /\ \A w \in Windows : frame.snapshot[w] \in WindowStates(w)
    BY LenProperties DEF Parts, Typed, TypeOK, Entry, BufferIds, Snapshots, Commits, Shows
  <1>2. inFlight' = FALSE /\ discarded' = discarded /\ memory' = memory
        /\ BufferIds' = BufferIds /\ Entry' = Entry
    <2>1. AcceptContent \/ AcceptLifecycle(frame.snapshot)
      BY DEF Commits
    <2>2. AcceptContent => inFlight' = FALSE /\ discarded' = discarded /\ memory' = memory
      BY DEF AcceptContent
    <2>3. AcceptLifecycle(frame.snapshot) =>
             inFlight' = FALSE /\ discarded' = discarded /\ memory' = memory
      BY DEF AcceptLifecycle
    <2>4. inFlight' = FALSE /\ discarded' = discarded /\ memory' = memory
      BY <2>1, <2>2, <2>3
    <2> QED
      BY <2>4 DEF BufferIds, Entry
  <1>3. \A w \in Windows : frame.snapshot[w].width \in AnyWidth /\ frame.snapshot[w].width \in Nat
                           /\ (w \in Present(frame.snapshot) <=> frame.snapshot[w].width # 0)
    BY <1>1, WidthFacts
  <1>4. CASE frame.kind = "Content"
    <2>1. /\ content' = [w \in Windows |->
                          [pending |-> content[w].pending, inflight |-> {},
                           storage |-> content[w].storage, buffer |-> 0]]
          /\ pixels' = pixels
      <3>1. AcceptContent /\ pixels' = pixels
        BY <1>4 DEF Commits
      <3> QED
        BY <3>1 DEF AcceptContent
    <2>2. /\ frame.snapshot = committed /\ \A w \in Windows : content[w].storage = << >>
      <3>1. phase = "Idle"
        BY <1>1, <1>4 DEF Parts, Flow, Typed, TypeOK
      <3> QED
        BY <3>1, <1>4 DEF Parts, Flow, Carried
    <2>3. \A w \in Windows : content'[w] \in Entry
                             /\ content'[w].inflight = {} /\ content'[w].buffer = 0
                             /\ content'[w].storage = << >> /\ content'[w].pending = content[w].pending
      BY <1>1, <2>1, <2>2 DEF Entry
    <2>4. \A w \in Windows : Resize(pixels[w], frame.snapshot[w].width) = pixels[w]
      BY <1>1, <1>3, <2>2, ResizeFacts
    <2>5. content' \in [Windows -> Entry]
      BY <2>1, <2>3
    <2>6. \A w \in Present(frame.snapshot) : w \in Windows
      BY DEF Present
    <2> QED
      BY <1>1, <1>2, <2>1, <2>2, <2>3, <2>4, <2>5, <2>6
  <1>5. CASE frame.kind # "Content"
    <2> DEFINE kept == Present(frame.snapshot)
    <2>1. /\ content' = [w \in Windows |->
                IF w \in kept THEN [pending |-> content[w].pending, inflight |-> {},
                                    storage |-> << >>, buffer |-> 0]
                ELSE NoContent]
          /\ pixels' = [w \in Windows |-> IF w \in kept THEN LatestStorage(w) ELSE << >>]
      <3>1. AcceptLifecycle(frame.snapshot)
        BY <1>5 DEF Commits
      <3> QED
        BY <3>1 DEF AcceptLifecycle
    <2>2. \A w \in Windows : /\ content'[w] \in Entry
                             /\ content'[w].inflight = {} /\ content'[w].buffer = 0
                             /\ content'[w].storage = << >>
                             /\ w \in kept => content'[w].pending = content[w].pending
      BY <1>1, <2>1, NoPixels DEF Entry, NoContent
    <2>3. content' \in [Windows -> Entry]
      BY <2>1, <2>2
    <2>4. \A w \in Windows : w \in kept =>
             Len(content[w].storage) = frame.snapshot[w].width
      BY <1>1, <1>5 DEF Parts, Fitting, Typed
    <2>5. ASSUME NEW w \in Windows, w \in kept
          PROVE  LatestStorage(w) = Resize(pixels[w], frame.snapshot[w].width)
      <3>1. CASE pixels[w] # << >> /\ content[w].pending # {}
        BY <2>4, <2>5, <3>1 DEF LatestStorage
      <3>2. CASE ~(pixels[w] # << >> /\ content[w].pending # {})
        <4> DEFINE n == frame.snapshot[w].width
                   p == content[w].storage
                   q == Resize(pixels[w], n)
        <4>1. p \in Pixels /\ q \in Pixels /\ Len(p) = n /\ Len(q) = n
          BY <1>1, <1>3, <2>4, <2>5, ResizeFacts DEF Entry
        <4>2. \A i \in 1..n : p[i] = q[i]
          BY <2>4, <2>5, <3>2 DEF Parts, Stored, Places
        <4>3. p = q
          <5> HIDE DEF p, q
          <5>1. p = [i \in 1..n |-> p[i]] /\ q = [i \in 1..n |-> q[i]]
            BY <4>1, PixelsFacts, LenProperties
          <5> QED
            BY <4>2, <5>1
        <4> QED
          BY <3>2, <4>3 DEF LatestStorage
      <3> QED
        BY <3>1, <3>2
    <2>6. \A w \in Windows : /\ pixels'[w] \in Pixels /\ Len(pixels'[w]) = frame.snapshot[w].width
                             /\ w \in kept => pixels'[w] = Resize(pixels[w], frame.snapshot[w].width)
      <3>1. TAKE w \in Windows
      <3>2. CASE w \in kept
        BY <1>1, <1>3, <2>1, <2>5, <3>2, ResizeFacts
      <3>3. CASE w \notin kept
        BY <1>3, <2>1, <3>3, NoPixels
      <3> QED
        BY <3>2, <3>3
    <2>7. pixels' \in [Windows -> Pixels]
      BY <2>1, <2>6
    <2>8. \A w \in kept : w \in Windows
      BY DEF Present
    <2> QED
      BY <1>1, <1>2, <2>2, <2>3, <2>6, <2>7, <2>8
  <1> QED
    BY <1>4, <1>5

\* What it makes of the subwindows: those of the windows that stay are as they
\* were, and laid bare if they are mapped and their window changes.
LEMMA CommitChildren ==
    ASSUME Parts, Commits
    PROVE  /\ DOMAIN child' = Windows /\ DOMAIN bare' = Windows
           /\ \A w \in Windows : child'[w] \in Children(w) /\ bare'[w] \subseteq Covered[w]
           /\ \A w \in Present(frame.snapshot) :
                 /\ child'[w] = child[w] /\ bare[w] \subseteq bare'[w]
                 /\ child[w].mapped /\ frame.snapshot[w] # committed[w] =>
                       Covered[w] \subseteq bare'[w]
  <1>1. /\ DOMAIN child = Windows /\ DOMAIN bare = Windows /\ MaxDraws \in Nat
        /\ \A w \in Windows : child[w] \in Children(w) /\ bare[w] \subseteq Covered[w]
    BY ContentAssumption DEF Parts, Typed, TypeOK, Children
  <1>2. \A w \in Windows : NoChild(w) \in Children(w)
    BY <1>1 DEF NoChild, Children
  <1>3. \A w \in Present(frame.snapshot) : w \in Windows
    BY DEF Present
  <1>4. CASE frame.kind = "Content"
    <2>1. UNCHANGED <<child, bare>>
      BY <1>4 DEF Commits, AcceptContent
    <2>2. frame.snapshot = committed
      <3>1. phase = "Idle"
        BY <1>4 DEF Parts, Flow, Typed, TypeOK
      <3> QED
        BY <3>1, <1>4 DEF Parts, Flow
    <2> QED
      BY <2>1, <2>2, <1>1, <1>3
  <1>5. CASE frame.kind # "Content"
    <2> DEFINE kept == Present(frame.snapshot)
    <2>1. /\ child' = [w \in Windows |-> IF w \in kept THEN child[w] ELSE NoChild(w)]
          /\ bare' = [w \in Windows |->
                IF w \notin kept THEN {}
                ELSE IF child[w].mapped /\ frame.snapshot[w] # committed[w]
                THEN bare[w] \cup Covered[w] ELSE bare[w]]
      <3>1. AcceptLifecycle(frame.snapshot)
        BY <1>5 DEF Commits
      <3> QED
        BY <3>1 DEF AcceptLifecycle
    <2> HIDE DEF kept
    <2>2. \A w \in Windows : child'[w] \in Children(w) /\ bare'[w] \subseteq Covered[w]
      BY <2>1, <1>1, <1>2
    <2>3. \A w \in Windows : w \in kept =>
             /\ child'[w] = child[w] /\ bare[w] \subseteq bare'[w]
             /\ child[w].mapped /\ frame.snapshot[w] # committed[w] => Covered[w] \subseteq bare'[w]
      BY <2>1
    <2> QED
      BY <2>1, <2>2, <2>3, <1>3 DEF kept
  <1> QED
    BY <1>4, <1>5

\* The buffers it makes the windows' are those that gwcomp shows now; the
\* presenter waits for the release of those they replace.
LEMMA CommitBuffers ==
    ASSUME Parts, Commits, phase = "AwaitingCompositor" => ~canceled
    PROVE  /\ current' = replay'.buffers /\ Ids(current') \subseteq Ids(current) \cup Ids(frame.buffers)
           /\ \A w, v \in Windows : current'[w] = current'[v] => current'[w] = 0 \/ w = v
           /\ \A w \in Windows : replay'.buffers[w] =
                 IF w \notin Present(frame.snapshot) THEN 0
                 ELSE IF frame.buffers[w] # 0 THEN frame.buffers[w] ELSE current[w]
           /\ retired' = retired \cup
                 {[id |-> current[w], reason |-> IF w \in Present(frame.snapshot) THEN "Replaced"
                                                 ELSE "SurfaceRemoved"] :
                     w \in {v \in Windows : /\ current[v] # 0
                                            /\ v \notin Present(frame.snapshot) \/ frame.buffers[v] # 0}}
           /\ Orphaned => /\ ~Undone /\ frame.snapshot = committed
                          /\ \A w \in Windows : frame.buffers[w] = 0 /\ replay.buffers[w] = current[w]
  <1> DEFINE kept == Present(frame.snapshot)
             C(w) == IF w \notin kept THEN 0
                     ELSE IF frame.buffers[w] # 0 THEN frame.buffers[w] ELSE current[w]
             why(w) == IF w \in kept THEN "Replaced" ELSE "SurfaceRemoved"
             gone == {v \in Windows : current[v] # 0 /\ (v \notin kept \/ frame.buffers[v] # 0)}
  <1>1. /\ link /\ frame.kind # "None" /\ phase # "RollingBackPolicy" /\ ~Undone
        /\ \A w \in Windows : content[w].buffer = frame.buffers[w]
        /\ \A w \in Windows : w \notin kept => frame.buffers[w] = 0
        /\ Replacing = {w \in Windows : frame.buffers[w] # 0}
        /\ current \in Buffers /\ kept \subseteq Windows
    BY DEF Commits, Shows, Parts, Flow, Carried, Undone, Replacing, Typed, TypeOK, Buffers, Present
  <1>2. /\ \A w \in Windows : replay'.buffers[w] =
              IF w \notin kept THEN 0
              ELSE IF frame.buffers[w] # 0 THEN frame.buffers[w] ELSE replay.buffers[w]
        /\ \A w \in Windows : replay'.buffers[w] # 0 <=> w \in kept
        /\ replay' \in [snapshot : Snapshots, buffers : [Windows -> BufferIds]]
    BY ShownFacts DEF Parts, Commits, Shows
  <1>3. frame.kind = "Content" => frame.snapshot = committed
    BY <1>1 DEF Parts, Flow, Typed, TypeOK
  <1>4. \A w \in Windows : current[w] # 0 <=> w \in Present(committed)
    BY DEF Parts, Fitting
  <1>5. Orphaned =>
           /\ frame.snapshot = committed
           /\ \A w \in Windows : frame.buffers[w] = 0 /\ replay.buffers[w] = current[w]
    <2>1. SUFFICES ASSUME Orphaned
                   PROVE  /\ frame.snapshot = committed
                          /\ \A w \in Windows : frame.buffers[w] = 0 /\ replay.buffers[w] = current[w]
      OBVIOUS
    <2>2. frame.snapshot = committed
      BY <1>1, <2>1 DEF Parts, Flow, Orphaned
    <2>3. Ids(frame.buffers) = {} /\ Ids(replay.buffers) \subseteq Ids(current)
      BY <1>1, <2>1 DEF Parts, Matching
    <2>4. ASSUME NEW w \in Windows
          PROVE  frame.buffers[w] = 0 /\ replay.buffers[w] = current[w]
      <3>1. frame.buffers[w] = 0
        BY <2>3 DEF Ids
      <3>2. CASE w \in kept
        <4>1. replay.buffers[w] # 0
          BY <1>2, <3>1, <3>2
        <4>2. replay.buffers[w] \in Ids(current)
          BY <2>3, <4>1 DEF Ids
        <4> QED
          BY <3>1, <4>2 DEF Parts, Shared
      <3>3. CASE w \notin kept
        <4>1. current[w] = 0
          BY <1>4, <2>2, <3>3
        <4>2. replay.buffers[w] # 0 => replay.buffers[w] \in Ids(current)
          BY <2>3 DEF Ids
        <4> QED
          BY <3>1, <4>1, <4>2 DEF Parts, Shared
      <3> QED
        BY <3>2, <3>3
    <2> QED
      BY <2>2, <2>4
  <1>6. \A w \in Windows : w \in kept /\ frame.buffers[w] = 0 => replay.buffers[w] = current[w]
    BY <1>5 DEF Parts, Shared
  <1>7. replay'.buffers = [w \in Windows |-> C(w)]
    BY <1>2, <1>6
  <1>8. current' = [w \in Windows |-> C(w)] /\ retired' = retired \cup {[id |-> current[w], reason |-> why(w)] : w \in gone}
    <2>1. CASE frame.kind = "Content"
      <3>1. /\ current' = [w \in Windows |-> IF w \in Replacing THEN content[w].buffer ELSE current[w]]
            /\ retired' = retired \cup Retire(Replacing, "Replaced")
        <4>1. AcceptContent
          BY <2>1 DEF Commits
        <4> QED
          BY <4>1 DEF AcceptContent
      <3>2. \A w \in Windows : (IF w \in Replacing THEN content[w].buffer ELSE current[w]) = C(w)
        BY <1>1, <1>3, <1>4, <2>1
      <3>3. gone = {v \in Replacing : current[v] # 0} /\ \A w \in gone : why(w) = "Replaced"
        BY <1>1, <1>3, <1>4, <2>1
      <3>4. Retire(Replacing, "Replaced") = {[id |-> current[w], reason |-> why(w)] : w \in gone}
        <4> HIDE DEF why, gone
        <4> QED
          BY <3>3 DEF Retire
      <3> QED
        BY <3>1, <3>2, <3>4
    <2>2. CASE frame.kind # "Content"
      <3>1. /\ current' = [w \in Windows |->
                              IF w \notin kept THEN 0
                              ELSE IF w \in Replacing THEN content[w].buffer ELSE current[w]]
            /\ retired' = retired \cup Retire(Replacing \cap kept, "Replaced")
                                  \cup Retire(Windows \ kept, "SurfaceRemoved")
        <4>1. AcceptLifecycle(frame.snapshot)
          BY <2>2 DEF Commits
        <4> QED
          BY <4>1 DEF AcceptLifecycle
      <3>2. \A w \in Windows : (IF w \notin kept THEN 0
                                ELSE IF w \in Replacing THEN content[w].buffer ELSE current[w]) = C(w)
        BY <1>1
      <3>3. /\ gone = {v \in Replacing \cap kept : current[v] # 0} \cup {v \in Windows \ kept : current[v] # 0}
            /\ \A w \in Replacing \cap kept : why(w) = "Replaced"
            /\ \A w \in Windows \ kept : why(w) = "SurfaceRemoved"
        BY <1>1
      <3>4. Retire(Replacing \cap kept, "Replaced") \cup Retire(Windows \ kept, "SurfaceRemoved")
               = {[id |-> current[w], reason |-> why(w)] : w \in gone}
        <4> HIDE DEF why, gone, kept
        <4> QED
          BY <3>3 DEF Retire
      <3> QED
        BY <3>1, <3>2, <3>4
    <2> QED
      BY <2>1, <2>2
  <1>9. Ids(current') \subseteq Ids(current) \cup Ids(frame.buffers)
    BY <1>8 DEF Ids
  <1>10. \A w, v \in Windows : current'[w] = current'[v] => current'[w] = 0 \/ w = v
    <2>1. SUFFICES ASSUME NEW w \in Windows, NEW v \in Windows, C(w) = C(v), C(w) # 0
                   PROVE  w = v
      BY <1>8
    <2>2. \A x, y \in Windows : frame.buffers[x] = current[y] => current[y] = 0
      <3>1. Ids(frame.buffers) \cap Ids(current) = {}
        BY DEF Parts, Fitting
      <3> QED
        BY <3>1 DEF Ids
    <2>3. /\ frame.buffers[w] = frame.buffers[v] => frame.buffers[w] = 0 \/ w = v
          /\ current[w] = current[v] => current[w] = 0 \/ w = v
      BY DEF Parts, Fitting
    <2>4. C(w) \in {frame.buffers[w], current[w]} /\ C(v) \in {frame.buffers[v], current[v]}
      BY <2>1
    <2> HIDE DEF C
    <2> QED
      BY <2>1, <2>2, <2>3, <2>4
  <1> HIDE DEF gone, why
  <1>11. \A w \in Windows : replay'.buffers[w] = C(w)
    BY <1>7
  <1> USE DEF gone, why
  <1> QED
    BY <1>1, <1>5, <1>7, <1>8, <1>9, <1>10, <1>11

LEMMA CommitMatching ==
    ASSUME Parts, Commits, phase = "AwaitingCompositor" => ~canceled
    PROVE  Matching' /\ releases' \subseteq Release /\ retired' \subseteq Release
           /\ gwcomp' \in [scene : Snapshots, attached : Buffers, pending : Buffers,
                           mapped : SUBSET BufferIds]
  <1> DEFINE kept == Present(frame.snapshot)
             why(w) == IF w \in kept THEN "Replaced" ELSE "SurfaceRemoved"
             old == {w \in Windows : replay.buffers[w] \notin {0, replay'.buffers[w]}}
             vain == (gwcomp.mapped \cup Ids(frame.buffers))
                     \ ({replay'.buffers[w] : w \in Windows} \cup {replay.buffers[w] : w \in old})
             taken == {[id |-> replay.buffers[w], reason |-> why(w)] : w \in old}
             lost == {[id |-> b, reason |-> "ConsumerDone"] : b \in vain}
             gone == {v \in Windows : current[v] # 0 /\ (v \notin kept \/ frame.buffers[v] # 0)}
  <1>1. /\ releases' = releases \cup (taken \cup lost) /\ releases' \subseteq Release
        /\ gwcomp'.mapped = (gwcomp.mapped \cup Ids(frame.buffers)) \ {r.id : r \in taken \cup lost}
        /\ gwcomp' \in [scene : Snapshots, attached : Buffers, pending : Buffers,
                        mapped : SUBSET BufferIds]
    BY RetirementFacts DEF Parts, Commits, Shows
  <1>2. /\ current' = replay'.buffers /\ Ids(current') \subseteq Ids(current) \cup Ids(frame.buffers)
        /\ \A w \in Windows : replay'.buffers[w] =
              IF w \notin kept THEN 0
              ELSE IF frame.buffers[w] # 0 THEN frame.buffers[w] ELSE current[w]
        /\ retired' = retired \cup {[id |-> current[w], reason |-> why(w)] : w \in gone}
        /\ Orphaned => /\ ~Undone /\ frame.snapshot = committed
                       /\ \A w \in Windows : frame.buffers[w] = 0 /\ replay.buffers[w] = current[w]
    BY CommitBuffers
  <1>3. /\ \A w \in Windows : replay.buffers[w] = current[w]
        /\ replay.buffers = current
    BY <1>2 DEF Parts, Shared, Typed, TypeOK, Buffers
  <1>4. /\ discarded' = discarded /\ ~Orphaned' /\ link' /\ frame'.kind = "None"
        /\ Ids(current)' = Ids(current')
    <2>1. ~Orphaned'
      BY DEF Commits, Orphaned
    <2>2. discarded' = discarded /\ link' /\ frame'.kind = "None"
      BY CommitFacts, NoFrameFacts DEF Commits, Shows, Parts
    <2> QED
      BY <2>1, <2>2 DEF Ids
  <1>5. \A w \in Windows : w \notin kept => frame.buffers[w] = 0
    BY DEF Parts, Carried
  <1>6. Ids(frame.buffers) \cap (Ids(current) \cup discarded \cup {r.id : r \in releases}) = {}
    BY DEF Parts, Fitting
  <1>7. \A w \in Windows : /\ frame.buffers[w] # 0 => frame.buffers[w] \in Ids(frame.buffers)
                           /\ current[w] # 0 => current[w] \in Ids(current)
    BY DEF Ids
  <1>8. old = gone
    BY <1>2, <1>3, <1>6, <1>7
  <1>9. \A r \in taken : r.reason # "ConsumerDone" /\ r.id \in Ids(current)
                         /\ r.id \in {replay.buffers[w] : w \in old}
    BY <1>3, <1>7
  <1>10. retired' = retired \cup taken
    <2>1. \A w \in Windows : [id |-> replay.buffers[w], reason |-> why(w)]
                                = [id |-> current[w], reason |-> why(w)]
      BY <1>3
    <2> HIDE DEF why, old, gone
    <2> QED
      BY <1>2, <1>8, <1>3
  <1>11. retired' \subseteq Release
    <2> HIDE DEF taken, lost
    <2> QED
      BY <1>1, <1>10 DEF Parts, Typed, TypeOK
  <1>12. \A w \in Windows : current[w] # 0 => w \in old \/ current[w] = replay'.buffers[w]
    BY <1>2, <1>3
  <1> DEFINE done == {r \in releases' : r.reason = "ConsumerDone"}
  <1>13. {r.id : r \in lost} = vain
    <2> HIDE DEF vain
    <2>1. \A b \in vain : [id |-> b, reason |-> "ConsumerDone"] \in lost
      OBVIOUS
    <2>2. \A b \in vain : \E r \in lost : r.id = b
      BY <2>1
    <2>3. \A r \in lost : r.id \in vain
      OBVIOUS
    <2> HIDE DEF lost
    <2> QED
      BY <2>2, <2>3
  <1>14. {r.id : r \in taken} = {replay.buffers[w] : w \in old}
    <2> HIDE DEF old, why
    <2>1. \A w \in old : [id |-> replay.buffers[w], reason |-> why(w)] \in taken
      OBVIOUS
    <2>2. \A w \in old : \E r \in taken : r.id = replay.buffers[w]
      BY <2>1
    <2>3. \A r \in taken : r.id \in {replay.buffers[w] : w \in old}
      OBVIOUS
    <2> HIDE DEF taken
    <2> QED
      BY <2>2, <2>3
  <1>15. CASE ~Orphaned
    <2>1. /\ retired = {r \in releases : r.reason # "ConsumerDone"}
          /\ Answered("ConsumerDone") \subseteq discarded
          /\ discarded \subseteq gwcomp.mapped \cup Answered("ConsumerDone")
          /\ gwcomp.mapped \subseteq Ids(current) \cup discarded
          /\ gwcomp.mapped \cap {r.id : r \in releases} = {}
          /\ discarded \cap Ids(current) = {}
      BY <1>15 DEF Parts, Matching, Commits, Shows
    <2>2. vain \subseteq discarded
      <3>1. SUFFICES ASSUME NEW b \in vain PROVE b \in discarded
        OBVIOUS
      <3>2. b \notin Ids(frame.buffers)
        BY <3>1, <1>2, <1>5 DEF Ids
      <3>3. b \notin Ids(current)
        BY <3>1, <1>3, <1>12 DEF Ids
      <3> QED
        BY <3>1, <3>2, <3>3, <2>1
    <2>3. Answered("ConsumerDone")' = Answered("ConsumerDone") \cup vain
      <3>1. {r \in releases' : r.reason = "ConsumerDone"}
               = {r \in releases : r.reason = "ConsumerDone"} \cup lost
        <4>1. \A r \in lost : r.reason = "ConsumerDone"
          OBVIOUS
        <4> HIDE DEF taken, lost
        <4> QED
          BY <4>1, <1>1, <1>9
      <3>2. Answered("ConsumerDone")' = {r.id : r \in {q \in releases' : q.reason = "ConsumerDone"}}
            /\ Answered("ConsumerDone") = {r.id : r \in {q \in releases : q.reason = "ConsumerDone"}}
        BY DEF Answered
      <3> HIDE DEF lost, vain
      <3> QED
        BY <3>1, <3>2, <1>13
    <2>4. retired' = {r \in releases' : r.reason # "ConsumerDone"}
      <3>1. \A r \in lost : r.reason = "ConsumerDone"
        OBVIOUS
      <3> HIDE DEF taken, lost
      <3> QED
        BY <3>1, <2>1, <1>1, <1>9, <1>10
    <2>7. gwcomp'.mapped = ((gwcomp.mapped \cup Ids(frame.buffers)) \ vain)
                           \ {replay.buffers[w] : w \in old}
      <3> HIDE DEF taken, lost, vain, old
      <3> QED
        BY <1>1, <1>13, <1>14
    <2>8. \A w \in old : replay.buffers[w] \in Ids(current)
      BY <1>3, <1>7
    <2>9. discarded \subseteq gwcomp'.mapped \cup Answered("ConsumerDone")'
      <3> HIDE DEF vain, old
      <3> QED
        BY <2>1, <2>3, <2>7, <2>8
    <2>10. gwcomp'.mapped \subseteq Ids(current') \cup discarded
      <3>1. SUFFICES ASSUME NEW b \in gwcomp'.mapped, b \notin discarded
                     PROVE  b \in Ids(current')
        OBVIOUS
      <3>2. b # 0
        BY <3>1, <2>1, <2>7 DEF Ids
      <3>3. b \in {replay'.buffers[w] : w \in Windows}
        BY <3>1, <2>7
      <3> QED
        BY <3>2, <3>3, <1>2 DEF Ids
    <2>11. gwcomp'.mapped \cap {r.id : r \in releases'} = {}
      <3> HIDE DEF taken, lost, vain, old
      <3> QED
        BY <1>1, <1>6, <2>1
    <2>12. discarded \cap Ids(current') = {}
      BY <1>2, <1>6, <2>1
    <2> HIDE DEF taken, lost, vain, old, gone, why
    <2> QED
      BY <1>4, <2>1, <2>2, <2>3, <2>4, <2>9, <2>10, <2>11, <2>12, <1>1, <1>11 DEF Matching
  <1>16. CASE Orphaned
    <2>1. /\ retired = {} /\ discarded = {} /\ frame.snapshot = committed
          /\ Present(committed) \subseteq Present(replay.snapshot) => releases = {}
          /\ gwcomp.mapped \subseteq Ids(replay.buffers)
          /\ Ids(frame.buffers) = {}
          /\ \A w \in Windows : frame.buffers[w] = 0
      BY <1>2, <1>16 DEF Parts, Matching, Commits, Shows
    <2>2. \A w \in Windows : /\ current[w] # 0 <=> w \in Present(committed)
                             /\ replay.buffers[w] # 0 <=> w \in Present(replay.snapshot)
      BY DEF Parts, Fitting
    <2>3. releases = {}
      BY <2>1, <2>2, <1>3 DEF Present
    <2>4. gone = {} /\ old = {}
      BY <2>1, <2>2, <1>8
    <2>5. \A w \in Windows : replay'.buffers[w] = current[w]
      BY <2>1, <2>2, <1>2
    <2>6. vain = {}
      BY <2>1, <2>5, <1>3 DEF Ids
    <2>7. taken = {} /\ lost = {}
      <3> HIDE DEF old, vain, why
      <3> QED
        BY <2>4, <2>6
    <2>8. releases' = {} /\ retired' = {} /\ gwcomp'.mapped = gwcomp.mapped
      <3> HIDE DEF taken, lost, vain
      <3> QED
        BY <1>1, <1>10, <2>1, <2>3, <2>7
    <2>9. gwcomp'.mapped \subseteq Ids(current')
      BY <2>1, <2>5, <2>8, <1>2, <1>3 DEF Ids
    <2>10. Answered("ConsumerDone")' = {}
      BY <2>8 DEF Answered
    <2> HIDE DEF taken, lost, vain, old, gone, why
    <2> QED
      BY <1>1, <1>4, <1>11, <2>1, <2>8, <2>9, <2>10 DEF Matching
  <1> QED
    BY <1>15, <1>16

LEMMA CommitInductive ==
    ASSUME Parts, Commits, phase = "AwaitingCompositor" => ~canceled
    PROVE  Parts'
  <1>1. /\ link /\ frame.kind # "None" /\ frame' = NoFrame /\ phase' = "Idle" /\ canceled' = FALSE
        /\ committed' = frame.snapshot /\ attempted' \in BOOLEAN
        /\ UNCHANGED <<link, fatal, forgotten, count>>
    BY DEF Commits, Shows
  <1>2. /\ content' \in [Windows -> Entry] /\ pixels' \in [Windows -> Pixels]
        /\ \A w \in Windows : /\ content'[w].inflight = {} /\ content'[w].buffer = 0
                              /\ content'[w].storage = << >>
                              /\ w \in Present(frame.snapshot) =>
                                    content'[w].pending = content[w].pending
        /\ \A w \in Windows : Len(pixels'[w]) = frame.snapshot[w].width
        /\ \A w \in Present(frame.snapshot) :
              pixels'[w] = Resize(pixels[w], frame.snapshot[w].width)
        /\ inFlight' = FALSE /\ discarded' = discarded /\ memory' = memory
        /\ BufferIds' = BufferIds /\ Entry' = Entry
        /\ \A w \in Windows : frame.snapshot[w] \in WindowStates(w)
    BY CommitFacts
  <1>3. /\ current' = replay'.buffers
        /\ \A w, v \in Windows : current'[w] = current'[v] => current'[w] = 0 \/ w = v
        /\ \A w \in Windows : replay'.buffers[w] =
              IF w \notin Present(frame.snapshot) THEN 0
              ELSE IF frame.buffers[w] # 0 THEN frame.buffers[w] ELSE current[w]
    BY CommitBuffers
  <1>4. /\ Matching' /\ releases' \subseteq Release /\ retired' \subseteq Release
        /\ gwcomp' \in [scene : Snapshots, attached : Buffers, pending : Buffers,
                        mapped : SUBSET BufferIds]
    BY CommitMatching
  <1>5. /\ gwcomp'.attached = replay'.buffers /\ gwcomp'.scene = replay'.snapshot
        /\ gwcomp'.pending = gwcomp'.attached
        /\ replay'.snapshot = frame.snapshot
        /\ replay' \in [snapshot : Snapshots, buffers : [Windows -> BufferIds]]
        /\ \A w \in Windows : replay'.buffers[w] # 0 <=> w \in Present(frame.snapshot)
        /\ \A w \in Present(frame.snapshot) :
              Len(memory[replay'.buffers[w]]) = frame.snapshot[w].width
    BY ShownFacts DEF Parts, Commits, Shows
  <1>6. screen' \in [Windows -> Pixels]
    BY ScreenFacts DEF Parts, Commits, Shows
  <1>7. /\ NoFrame \in [kind : {"None", "Lifecycle", "Content", "Replay"}, snapshot : Snapshots,
                        buffers : Buffers, damage : [Windows -> SUBSET AnyPlaces]]
        /\ NoFrame.kind = "None" /\ Ids(NoFrame.buffers) = {} /\ Present(NoFrame.snapshot) = {}
        /\ \A w \in Windows : NoFrame.buffers[w] = 0
    BY NoFrameFacts DEF Parts
  <1>8. ~Orphaned' /\ ~Undone'
    BY <1>1, <1>2 DEF Orphaned, Undone
  <1>9. Release' = Release /\ Buffers' = Buffers
    BY <1>2 DEF Release, Buffers
  <1>21. /\ DOMAIN child' = Windows /\ DOMAIN bare' = Windows
         /\ \A w \in Windows : child'[w] \in Children(w) /\ bare'[w] \subseteq Covered[w]
         /\ \A w \in Present(frame.snapshot) :
               /\ child'[w] = child[w] /\ bare[w] \subseteq bare'[w]
               /\ child[w].mapped /\ frame.snapshot[w] # committed[w] =>
                     Covered[w] \subseteq bare'[w]
    BY CommitChildren
  <1>10. Typed'
    <2>1. TypeOK'
      BY <1>1, <1>2, <1>3, <1>4, <1>5, <1>7, <1>9, <1>21 DEF Parts, Typed, TypeOK, Entry, Children
    <2>2. committed' \in Snapshots
      BY <1>1 DEF Parts, Typed
    <2>3. memory' \in Seq(Pixels) /\ frame' \in [kind : {"None", "Lifecycle", "Content", "Replay"},
             snapshot : Snapshots, buffers : Buffers, damage : [Windows -> SUBSET AnyPlaces]]
          /\ forgotten' \in [Windows -> SUBSET AnyPlaces]
          /\ count' \in [draws : 0..MaxDraws, requests : Nat, rejections : Nat, losses : Nat]
      BY <1>1, <1>2, <1>7 DEF Parts, Typed
    <2>4. inFlight' \in BOOLEAN /\ canceled' \in BOOLEAN /\ link' \in BOOLEAN
      BY <1>1, <1>2 DEF Parts, Typed
    <2> QED
      BY <1>1, <1>2, <1>4, <1>5, <1>6, <1>9, <1>21, <2>1, <2>2, <2>3, <2>4 DEF Typed, Buffers
  <1>11. Flow'
    BY <1>1, <1>5, <1>7, <1>8 DEF Flow
  <1>12. Carried'
    BY <1>1, <1>2, <1>7, <1>8 DEF Carried
  <1>13. Fitting'
    <2>1. Present(committed)' = Present(frame.snapshot) /\ Present(replay.snapshot)' = Present(frame.snapshot)
          /\ Present(frame.snapshot)' = {}
          /\ Ids(frame.buffers)' = {}
      BY <1>1, <1>5, <1>7 DEF Present, Ids
    <2>2. /\ \A w \in Windows : current'[w] # 0 <=> w \in Present(frame.snapshot)
          /\ \A w \in Present(frame.snapshot) :
                Len(memory'[current'[w]]) = frame.snapshot[w].width
      BY <1>2, <1>3, <1>5
    <2> QED
      BY <1>1, <1>2, <1>3, <1>5, <1>7, <2>1, <2>2 DEF Fitting
  <1>14. Shared'
    BY <1>1, <1>3, <1>5, <1>8 DEF Shared
  <1>15. \A w \in Windows : Beyond(w)' = {}
    BY <1>1, <1>5 DEF Beyond, Shape
  <1>16. \A w \in Present(frame.snapshot) : w \in Windows
    BY DEF Present
  <1>22. ASSUME NEW w \in Present(frame.snapshot), NEW i \in 1..frame.snapshot[w].width,
                i \notin bare'[w]
         PROVE  Look(w, frame.snapshot[w].width)[i] = Composed(w)'[i]
    <2> DEFINE n == frame.snapshot[w].width
    <2>1. /\ w \in Windows /\ n \in AnyWidth
          /\ pixels[w] \in Pixels /\ Len(pixels[w]) = committed[w].width
          /\ committed[w].width \in AnyWidth
      BY <1>16, WidthFacts DEF Parts, Typed, TypeOK
    <2>2. /\ committed[w].width = n => Look(w, n) = Composed(w)
          /\ i \notin Covered[w] \/ ~Viewable(w) => Look(w, n)[i] = Resize(pixels[w], n)[i]
      <3>1. Typed /\ w \in Windows /\ n \in AnyWidth /\ i \in 1..n
        BY <1>22, <2>1 DEF Parts
      <3> HIDE DEF n
      <3> QED
        BY <3>1, LookFacts
    <2>3. Composed(w)'[i] = IF Viewable(w)' /\ i \in Covered[w] THEN child'[w].pixels[i]
                            ELSE pixels'[w][i]
      <3>1. i \in DOMAIN pixels'[w]
        BY <1>2, <1>22, <2>1, PixelsFacts
      <3> QED
        BY <3>1, <2>1 DEF Composed, Viewable
    <2>4. CASE frame.snapshot[w] = committed[w]
      <3>1. pixels'[w] = pixels[w]
        BY <1>2, <2>1, <2>4, ResizeFacts
      <3>2. Composed(w)[i] = IF Viewable(w) /\ i \in Covered[w] THEN child[w].pixels[i]
                             ELSE pixels[w][i]
        BY <1>22, <2>1, <2>4, ComposedFacts DEF Parts
      <3>3. Viewable(w)' = Viewable(w) /\ child'[w] = child[w]
        BY <1>1, <1>21, <2>4 DEF Viewable
      <3>4. Look(w, n) = Composed(w)
        BY <2>2, <2>4
      <3> QED
        BY <2>3, <3>1, <3>2, <3>3, <3>4
    <2>5. CASE frame.snapshot[w] # committed[w]
      <3>1. child[w].mapped => i \notin Covered[w]
        BY <1>21, <1>22, <2>5
      <3>2. Viewable(w) \/ Viewable(w)' => i \notin Covered[w]
        BY <3>1, <1>21 DEF Viewable
      <3>3. Composed(w)'[i] = pixels'[w][i]
        BY <2>3, <3>2
      <3>4. Look(w, n)[i] = Resize(pixels[w], n)[i]
        BY <2>2, <3>2
      <3> QED
        BY <3>3, <3>4, <1>2
    <2> QED
      BY <2>4, <2>5
  <1>17. Copied'
    <2>1. SUFFICES ASSUME NEW w \in Present(frame.snapshot),
                          NEW i \in Places(frame.snapshot[w].width) \ Owed(w)',
                          i \notin bare'[w]
                   PROVE  memory[current'[w]][i] = Composed(w)'[i]
      BY <1>1, <1>2 DEF Copied, Present
    <2>2. i \notin content[w].pending \cup forgotten[w] \cup bare[w]
      BY <2>1, <1>1, <1>2, <1>16, <1>21 DEF Owed
    <2>3. current'[w] = IF frame.buffers[w] # 0 THEN frame.buffers[w] ELSE current[w]
      BY <2>1, <1>3, <1>16
    <2>4. memory[IF frame.buffers[w] # 0 THEN frame.buffers[w] ELSE current[w]][i]
             = Look(w, frame.snapshot[w].width)[i]
      BY <1>1, <2>1, <2>2 DEF Parts, Sent
    <2>5. Look(w, frame.snapshot[w].width)[i] = Composed(w)'[i]
      BY <1>22, <2>1 DEF Places
    <2> QED
      BY <2>1, <2>3, <2>4, <2>5
  <1>18. Sent'
    BY <1>1, <1>7 DEF Sent
  <1>19. Stored'
    <2>1. \A w \in Windows : pixels'[w] \in Pixels
      BY <1>2
    <2>2. \A w \in Windows : Len(pixels'[w]) = 0 => pixels'[w] = << >>
      BY <2>1, PixelsFacts, EmptySeq
    <2> QED
      BY <1>2, <2>2, NoPixels DEF Stored, Places
  <1>20. Drawn'
    <2>1. SUFFICES ASSUME NEW w \in Windows, frame.snapshot[w].shown
                   PROVE  /\ Len(screen'[w]) = frame.snapshot[w].width
                          /\ \A i \in Places(frame.snapshot[w].width) \ Owed(w)' :
                                screen'[w][i] = memory[replay'.buffers[w]][i]
      BY <1>1, <1>2, <1>5 DEF Drawn
    <2>2. w \in Present(frame.snapshot)
      BY <2>1, WidthFacts DEF Parts, Typed
    <2>3. Owed(w)' = content[w].pending \cup forgotten[w]
      BY <1>1, <1>2, <1>15, <2>2 DEF Owed
    <2> QED
      BY <2>1, <2>3, DrawnFacts DEF Commits
  <1> QED
    BY <1>4, <1>10, <1>11, <1>12, <1>13, <1>14, <1>17, <1>18, <1>19, <1>20 DEF Parts
-----------------------------------------------------------------------------
(* The steps that publish a frame *)

\* Between frames no place is out of reach, and what gwcomp shows of a window
\* is the window's buffer.
LEMMA LevelFacts ==
    ASSUME Parts, link, ~Undone, phase # "AwaitingCompositor"
    PROVE  \A w \in Windows : /\ Beyond(w) = {}
                              /\ replay.buffers[w] # 0 => replay.buffers[w] = current[w]
  <1> TAKE w \in Windows
  <1>1. CASE ~Orphaned
    <2>1. replay.snapshot = committed /\ replay.buffers = current
      BY <1>1 DEF Parts, Flow, Shared, Orphaned
    <2> QED
      BY <2>1 DEF Beyond, Shape
  <1>2. CASE Orphaned
    <2>1. Ids(replay.buffers) \subseteq Ids(current)
      BY <1>2 DEF Parts, Matching
    <2>2. replay.buffers[w] # 0 => replay.buffers[w] = current[w]
      BY <2>1 DEF Ids, Parts, Shared
    <2>3. ASSUME w \in Present(replay.snapshot)
          PROVE  replay.snapshot[w].width = committed[w].width
      <3>1. replay.buffers[w] # 0 /\ Len(memory[replay.buffers[w]]) = replay.snapshot[w].width
        BY <2>3 DEF Parts, Fitting
      <3>2. w \in Present(committed)
        BY <2>2, <3>1 DEF Parts, Fitting
      <3> QED
        BY <2>2, <3>1, <3>2 DEF Parts, Fitting
    <2> QED
      BY <2>2, <2>3 DEF Beyond, Shape
  <1> QED
    BY <1>1, <1>2

\* A frame of snapshot s is published for the windows `targets': for a request,
\* an increment, a replay, or a rollback.
Publishes(kind, targets, s, force) ==
    /\ link /\ ~Undone
    /\ Publish(kind, targets, s, force, Rejected(TRUE))
    /\ \/ /\ kind = "Lifecycle" /\ phase = "Idle" /\ phase' = "AwaitingCompositor"
          /\ frame.kind = "None" /\ canceled' = FALSE /\ s # committed
          /\ targets = Present(s) /\ force = FALSE
       \/ /\ kind = "Content" /\ phase = "Idle" /\ phase' = phase /\ frame.kind = "None"
          /\ canceled' = canceled /\ s = committed /\ gwcomp' = gwcomp
       \/ /\ kind = "Replay" /\ phase = "Idle" /\ phase' = phase /\ frame.kind = "Content"
          /\ canceled' = canceled /\ s = committed /\ targets = Present(s)
       \/ /\ kind = "Lifecycle" /\ phase = "RollingBackPolicy"
          /\ phase' = "RollingBackCompositor" /\ frame.kind = "None"
          /\ canceled' = canceled /\ s = committed /\ targets = Present(s) /\ force = FALSE
    /\ discarded' = discarded \cup StagedBuffers
    /\ gwcomp' \in [scene : Snapshots, attached : Buffers, pending : Buffers,
                    mapped : SUBSET BufferIds]
    /\ gwcomp'.scene = gwcomp.scene /\ gwcomp'.attached = gwcomp.attached
    /\ gwcomp'.mapped = gwcomp.mapped \cup Ids(frame.buffers)
    /\ attempted' \in BOOLEAN
    /\ count' \in [draws : 0..MaxDraws, requests : Nat, rejections : Nat, losses : Nat]
    /\ UNCHANGED <<committed, pixels, child, current, retired, replay, link, releases, screen,
                   fatal, forgotten>>

\* Refused or not, what is published is what was pending and the staged
\* storages of a rollback; what a frame shows of a window is what is composed, or
\* with another width the window's own pixels.
Published(kind, targets, s, force) ==
    LET fresh == Fresh(targets, s, force)
    IN  /\ memory' \in Seq(Pixels) /\ Len(memory) \in Nat /\ Len(memory') \in Nat
        /\ Len(memory) <= Len(memory')
        /\ \A i \in 1..Len(memory) : Len(memory'[i]) = Len(memory[i])
        /\ \A i \in 1..Len(memory) : (\A w \in targets \ fresh : current[w] # i)
              => memory'[i] = memory[i]
        /\ frame'.kind = kind /\ frame'.snapshot = s /\ inFlight' = TRUE
        /\ frame' \in [kind : {"None", "Lifecycle", "Content", "Replay"},
                       snapshot : Snapshots, buffers : [Windows -> BufferIds'],
                       damage : [Windows -> SUBSET AnyPlaces]]
        /\ content' \in [Windows -> Entry']
        /\ \A w \in Windows \ targets :
              /\ frame'.buffers[w] = 0 /\ content'[w].buffer = 0
              /\ content'[w].pending = content[w].pending \cup content[w].inflight
              /\ content'[w].inflight = {} /\ content'[w].storage = content[w].storage
        /\ \A w \in targets :
              /\ content'[w].pending = {} /\ content'[w].buffer = frame'.buffers[w]
              /\ content'[w].storage = IF kind = "Content" THEN << >>
                                       ELSE Resize(pixels[w], s[w].width)
              /\ content'[w].inflight =
                    IF w \in fresh THEN Places(s[w].width)
                    ELSE (content[w].pending \cup content[w].inflight)
                         \cap Places(s[w].width)
              /\ s[w].shown => frame'.damage[w] = content'[w].inflight
        /\ \A w \in fresh :
              /\ frame'.buffers[w] \in (Len(memory) + 1)..Len(memory')
              /\ memory'[frame'.buffers[w]] = Look(w, s[w].width)
        /\ \A w \in targets \ fresh :
              /\ frame'.buffers[w] = 0 /\ current[w] \in 1..Len(memory)
              /\ Len(memory[current[w]]) = s[w].width
              /\ \A i \in 1..s[w].width : memory'[current[w]][i] =
                    IF i \in content[w].pending \cup content[w].inflight
                    THEN Look(w, s[w].width)[i]
                    ELSE memory[current[w]][i]
        /\ \A w, v \in Windows : frame'.buffers[w] = frame'.buffers[v]
                                 => frame'.buffers[w] = 0 \/ w = v
        /\ kind = "Content" => \A w \in Windows : content[w].storage = << >>
        /\ DOMAIN bare' = Windows
        /\ \A w \in Windows : bare'[w] = IF w \in targets THEN bare[w] \ content'[w].inflight
                                          ELSE bare[w]

LEMMA PublishedFacts ==
    ASSUME Parts, NEW kind \in {"Lifecycle", "Content", "Replay"}, NEW s \in Snapshots,
           NEW targets \in SUBSET Present(s), NEW force \in BOOLEAN,
           Publishes(kind, targets, s, force)
    PROVE  Published(kind, targets, s, force)
  <1> DEFINE from == Rejected(TRUE)
             fresh == Fresh(targets, s, force)
  <1>1. /\ from \in [Windows -> Entry]
        /\ \A w \in Windows :
              /\ from[w].pending = content[w].pending \cup content[w].inflight
              /\ from[w].inflight = {} /\ from[w].buffer = 0
              /\ from[w].storage = content[w].storage
    BY RejectedFacts DEF Parts
  <1>2. kind = "Content" => s = committed /\ \A w \in Windows : content[w].storage = << >>
    BY DEF Publishes, Parts, Carried
  <1>3. s # committed => \A w \in Windows : content[w].storage = << >>
    BY DEF Publishes, Parts, Carried
  <1>4. \A w \in Present(s) : /\ StagedStorage(w, s[w].width) = Resize(pixels[w], s[w].width)
                              /\ Source(w, s[w].width) = Look(w, s[w].width)
    <2>1. TAKE w \in Present(s)
    <2>2. /\ w \in Windows /\ s[w].width \in AnyWidth /\ s[w].width # 0
          /\ pixels[w] \in Pixels /\ Len(pixels[w]) = committed[w].width
      BY WidthFacts DEF Present, Parts, Typed, TypeOK
    <2>3. Len(pixels[w]) = s[w].width => Resize(pixels[w], s[w].width) = pixels[w]
      BY <2>2, ResizeFacts
    <2>4. StagedStorage(w, s[w].width) = Resize(pixels[w], s[w].width)
      <3>1. CASE Len(content[w].storage) = s[w].width
        <4>1. content[w].storage # << >>
          BY <2>2, <3>1, NoPixels
        <4>2. s = committed /\ content[w].storage = pixels[w]
          BY <1>3, <2>2, <3>1, <4>1 DEF Parts, Stored
        <4> QED
          BY <2>2, <2>3, <3>1, <4>2 DEF StagedStorage
      <3>2. CASE Len(content[w].storage) # s[w].width
        BY <3>2 DEF StagedStorage
      <3> QED
        BY <3>1, <3>2
    <2> QED
      BY <2>4 DEF Source, Look
  <1>5. fresh \subseteq targets /\ targets \subseteq Present(s) /\ Present(s) \subseteq Windows
    BY DEF Fresh, Present
  <1>6. Publish(kind, targets, s, force, from)
    BY DEF Publishes
  <1> HIDE DEF from
  <1>7. /\ memory' \in Seq(Pixels) /\ Len(memory) \in Nat /\ Len(memory') \in Nat
        /\ Len(memory) <= Len(memory')
        /\ \A i \in 1..Len(memory) : Len(memory'[i]) = Len(memory[i])
        /\ \A i \in 1..Len(memory) : (\A w \in targets \ fresh : current[w] # i)
              => memory'[i] = memory[i]
        /\ frame'.kind = kind /\ frame'.snapshot = s /\ inFlight' = TRUE
        /\ frame' \in [kind : {"None", "Lifecycle", "Content", "Replay"},
                       snapshot : Snapshots, buffers : [Windows -> BufferIds'],
                       damage : [Windows -> SUBSET AnyPlaces]]
        /\ content' \in [Windows -> Entry']
        /\ \A w \in Windows \ targets : content'[w] = from[w] /\ frame'.buffers[w] = 0
        /\ \A w \in targets :
              /\ content'[w].pending = {} /\ content'[w].buffer = frame'.buffers[w]
              /\ content'[w].storage = IF kind = "Content" THEN from[w].storage
                                       ELSE StagedStorage(w, s[w].width)
              /\ content'[w].inflight =
                    IF w \in fresh THEN Places(s[w].width)
                    ELSE from[w].pending \cap Places(s[w].width)
              /\ s[w].shown => frame'.damage[w] = content'[w].inflight
        /\ \A w \in fresh :
              /\ frame'.buffers[w] \in (Len(memory) + 1)..Len(memory')
              /\ memory'[frame'.buffers[w]] = Source(w, s[w].width)
        /\ \A w \in targets \ fresh :
              /\ frame'.buffers[w] = 0 /\ current[w] \in 1..Len(memory)
              /\ Len(memory[current[w]]) = s[w].width
              /\ \A i \in 1..s[w].width : memory'[current[w]][i] =
                    IF i \in from[w].pending THEN Source(w, s[w].width)[i]
                    ELSE memory[current[w]][i]
        /\ \A w, v \in Windows : frame'.buffers[w] = frame'.buffers[v]
                                 => frame'.buffers[w] = 0 \/ w = v
        /\ DOMAIN bare' = Windows
        /\ \A w \in Windows : bare'[w] = IF w \in targets THEN bare[w] \ content'[w].inflight
                                          ELSE bare[w]
    <2>1. Typed /\ Fitting /\ from \in [Windows -> Entry] /\ (kind = "Content" => s = committed)
      BY <1>1, <1>2 DEF Parts
    <2>2. Handed(kind, targets, s, force, from)
      BY <2>1, <1>6, PublishFacts
    <2> QED
      BY <2>2 DEF Handed
  <1> HIDE DEF fresh
  <1>8. \A w \in Windows \ targets :
           /\ frame'.buffers[w] = 0 /\ content'[w].buffer = 0
           /\ content'[w].pending = content[w].pending \cup content[w].inflight
           /\ content'[w].inflight = {} /\ content'[w].storage = content[w].storage
    BY <1>1, <1>7
  <1>9. \A w \in targets :
           /\ content'[w].pending = {} /\ content'[w].buffer = frame'.buffers[w]
           /\ content'[w].storage = IF kind = "Content" THEN << >>
                                    ELSE Resize(pixels[w], s[w].width)
           /\ content'[w].inflight =
                 IF w \in fresh THEN Places(s[w].width)
                 ELSE (content[w].pending \cup content[w].inflight) \cap Places(s[w].width)
           /\ s[w].shown => frame'.damage[w] = content'[w].inflight
    <2> TAKE w \in targets
    <2>1. w \in Windows /\ w \in Present(s)
      BY <1>5
    <2>2. /\ from[w].pending = content[w].pending \cup content[w].inflight
          /\ kind = "Content" => from[w].storage = << >>
          /\ StagedStorage(w, s[w].width) = Resize(pixels[w], s[w].width)
      BY <1>1, <1>2, <1>4, <2>1
    <2>3. /\ content'[w].pending = {} /\ content'[w].buffer = frame'.buffers[w]
          /\ content'[w].storage = IF kind = "Content" THEN from[w].storage
                                   ELSE StagedStorage(w, s[w].width)
          /\ content'[w].inflight =
                IF w \in fresh THEN Places(s[w].width)
                ELSE from[w].pending \cap Places(s[w].width)
          /\ s[w].shown => frame'.damage[w] = content'[w].inflight
      BY <1>7
    <2> QED
      BY <2>2, <2>3
  <1>10. \A w \in fresh :
            /\ frame'.buffers[w] \in (Len(memory) + 1)..Len(memory')
            /\ memory'[frame'.buffers[w]] = Look(w, s[w].width)
    BY <1>4, <1>5, <1>7
  <1>11. \A w \in targets \ fresh :
            /\ frame'.buffers[w] = 0 /\ current[w] \in 1..Len(memory)
            /\ Len(memory[current[w]]) = s[w].width
            /\ \A i \in 1..s[w].width : memory'[current[w]][i] =
                  IF i \in content[w].pending \cup content[w].inflight
                  THEN Look(w, s[w].width)[i]
                  ELSE memory[current[w]][i]
    <2>1. \A w \in targets : /\ from[w].pending = content[w].pending \cup content[w].inflight
                            /\ Source(w, s[w].width) = Look(w, s[w].width)
      BY <1>1, <1>4, <1>5
    <2>2. \A w \in targets \ fresh :
             /\ frame'.buffers[w] = 0 /\ current[w] \in 1..Len(memory)
             /\ Len(memory[current[w]]) = s[w].width
             /\ \A i \in 1..s[w].width : memory'[current[w]][i] =
                   IF i \in from[w].pending THEN Source(w, s[w].width)[i]
                   ELSE memory[current[w]][i]
      BY <1>7
    <2> QED
      BY <2>1, <2>2
  <1>12. kind = "Content" => \A w \in Windows : content[w].storage = << >>
    BY <1>2
  <1> QED
    BY <1>7, <1>8, <1>9, <1>10, <1>11, <1>12 DEF fresh, Published

LEMMA PublishInductive ==
    ASSUME Parts, NEW kind \in {"Lifecycle", "Content", "Replay"}, NEW s \in Snapshots,
           NEW targets \in SUBSET Present(s), NEW force \in BOOLEAN,
           Publishes(kind, targets, s, force)
    PROVE  Parts'
  <1> DEFINE fresh == Fresh(targets, s, force)
             m == Len(memory)
  <1>1. Published(kind, targets, s, force)
    BY PublishedFacts
  <1>2. /\ memory' \in Seq(Pixels) /\ m \in Nat /\ Len(memory') \in Nat /\ m <= Len(memory')
        /\ \A i \in 1..m : Len(memory'[i]) = Len(memory[i])
        /\ \A i \in 1..m : (\A w \in targets \ fresh : current[w] # i) => memory'[i] = memory[i]
        /\ frame'.kind = kind /\ frame'.snapshot = s /\ inFlight' = TRUE
        /\ frame' \in [kind : {"None", "Lifecycle", "Content", "Replay"},
                       snapshot : Snapshots, buffers : [Windows -> BufferIds'],
                       damage : [Windows -> SUBSET AnyPlaces]]
        /\ content' \in [Windows -> Entry']
        /\ kind = "Content" => \A w \in Windows : content[w].storage = << >>
        /\ \A w, v \in Windows : frame'.buffers[w] = frame'.buffers[v]
                                 => frame'.buffers[w] = 0 \/ w = v
    BY <1>1 DEF Published
  <1>3. \A w \in Windows \ targets :
           /\ frame'.buffers[w] = 0 /\ content'[w].buffer = 0
           /\ content'[w].pending = content[w].pending \cup content[w].inflight
           /\ content'[w].inflight = {} /\ content'[w].storage = content[w].storage
    BY <1>1 DEF Published
  <1>4. \A w \in targets :
           /\ content'[w].pending = {} /\ content'[w].buffer = frame'.buffers[w]
           /\ content'[w].storage = IF kind = "Content" THEN << >>
                                    ELSE Resize(pixels[w], s[w].width)
           /\ content'[w].inflight =
                 IF w \in fresh THEN Places(s[w].width)
                 ELSE (content[w].pending \cup content[w].inflight) \cap Places(s[w].width)
           /\ s[w].shown => frame'.damage[w] = content'[w].inflight
    BY <1>1 DEF Published
  <1>5. \A w \in fresh :
           /\ frame'.buffers[w] \in (m + 1)..Len(memory')
           /\ memory'[frame'.buffers[w]] = Look(w, s[w].width)
    BY <1>1 DEF Published
  <1>6. \A w \in targets \ fresh :
           /\ frame'.buffers[w] = 0 /\ current[w] \in 1..m /\ Len(memory[current[w]]) = s[w].width
           /\ \A i \in 1..s[w].width : memory'[current[w]][i] =
                 IF i \in content[w].pending \cup content[w].inflight
                 THEN Look(w, s[w].width)[i]
                 ELSE memory[current[w]][i]
    BY <1>1 DEF Published
  <1>7. /\ link /\ ~Undone /\ phase # "AwaitingCompositor"
        /\ discarded' = discarded \cup StagedBuffers
        /\ gwcomp'.scene = gwcomp.scene /\ gwcomp'.attached = gwcomp.attached
        /\ gwcomp'.mapped = gwcomp.mapped \cup Ids(frame.buffers)
        /\ UNCHANGED <<committed, pixels, child, current, retired, replay, link, releases,
                       screen, fatal, forgotten>>
        /\ frame.kind \in {"None", "Content"}
    BY DEF Publishes
  <1>8. /\ fresh \subseteq targets /\ targets \subseteq Present(s) /\ Present(s) \subseteq Windows
        /\ targets \subseteq Windows /\ Present(committed) \subseteq Windows
        /\ kind # "Content" => targets = Present(s)
        /\ kind = "Content" => s = committed
        /\ s # committed => phase' = "AwaitingCompositor"
        /\ phase' = "AwaitingCompositor" => s # committed /\ canceled' = FALSE
        /\ phase' \in {"Idle", "AwaitingCompositor", "RollingBackCompositor"}
        /\ phase' = "Idle" <=> kind # "Lifecycle"
        /\ phase' = "Idle" => phase = "Idle"
        /\ phase' # "AwaitingCompositor" => canceled' = canceled
    BY DEF Publishes, Fresh, Present
  <1> HIDE DEF fresh
  <1>9. /\ \A w \in Windows : Beyond(w) = {}
        /\ \A w \in Windows : replay.buffers[w] # 0 => replay.buffers[w] = current[w]
    BY <1>7, LevelFacts
  <1>10. ~Undone' /\ (Orphaned' <=> Orphaned)
         /\ (Orphaned => s = committed /\ kind = "Lifecycle" /\ frame.kind = "None" /\ force = FALSE)
    <2>1. phase = "Idle" => ~Orphaned /\ canceled = FALSE /\ replay.snapshot = committed
      BY DEF Parts, Flow, Orphaned
    <2>2. phase = "Idle" \/ (phase = "RollingBackPolicy" /\ canceled' = canceled)
      BY DEF Publishes
    <2>3. phase = "RollingBackPolicy" =>
             s = committed /\ kind = "Lifecycle" /\ frame.kind = "None" /\ force = FALSE
      BY DEF Publishes
    <2>4. ~Undone'
      BY <1>8 DEF Undone
    <2> QED
      BY <1>7, <1>8, <2>1, <2>2, <2>3, <2>4 DEF Orphaned
  <1>11. BufferIds = 0..m /\ BufferIds' = 0..Len(memory') /\ BufferIds \subseteq BufferIds'
    BY <1>2 DEF BufferIds
  <1>12. StagedBuffers \subseteq BufferIds /\ Ids(frame.buffers) \subseteq BufferIds
         /\ Ids(frame.buffers) = StagedBuffers
    <2>1. \A w \in Windows : content[w].buffer = frame.buffers[w]
      <3>1. CASE frame.kind = "None"
        <4>1. \A w \in Windows : content[w].buffer = 0 /\ frame.buffers[w] = 0
          BY <1>7, <3>1, NoFrameFacts DEF Parts, Carried, Flow
        <4> QED
          BY <4>1
      <3>2. CASE frame.kind # "None"
        BY <1>7, <3>2 DEF Parts, Carried
      <3> QED
        BY <3>1, <3>2
    <2> QED
      BY <2>1 DEF Parts, Typed, Buffers, Ids, StagedBuffers, Replacing
  <1>13. \A w \in Windows : current[w] # 0 => current[w] \in 1..m
    BY <1>11 DEF Parts, Typed, TypeOK
  <1>14. \A w \in Windows : w \notin targets \ fresh /\ current[w] # 0 =>
            memory'[current[w]] = memory[current[w]]
    <2>1. \A w, v \in Windows : current[w] = current[v] => current[w] = 0 \/ w = v
      BY DEF Parts, Fitting
    <2> QED
      BY <2>1, <1>2, <1>8, <1>13
  <1>15. \A w \in Windows : pixels[w] \in Pixels /\ Len(pixels[w]) = committed[w].width
                            /\ s[w].width \in AnyWidth /\ committed[w].width \in AnyWidth
                            /\ s[w].width \in Nat /\ committed[w].width \in Nat
                            /\ (w \in Present(s) <=> s[w].width # 0)
                            /\ (w \in Present(committed) <=> committed[w].width # 0)
    BY WidthFacts DEF Parts, Typed, TypeOK
  <1>29. /\ DOMAIN bare' = Windows /\ DOMAIN child' = Windows
         /\ \A w \in Windows : child'[w] \in Children(w) /\ bare'[w] \subseteq Covered[w]
         /\ \A w \in Windows : \A i :
               i \notin content'[w].inflight /\ i \notin bare'[w] => i \notin bare[w]
    <2>1. /\ DOMAIN bare' = Windows /\ DOMAIN child' = Windows
          /\ \A w \in Windows : bare'[w] = IF w \in targets THEN bare[w] \ content'[w].inflight
                                            ELSE bare[w]
      BY <1>1, <1>7 DEF Published, Parts, Typed
    <2>2. \A w \in Windows : child'[w] \in Children(w) /\ bare[w] \subseteq Covered[w]
      BY <1>7 DEF Parts, Typed, TypeOK, Children
    <2> QED
      BY <2>1, <2>2
  <1>30. \A w \in Windows : /\ Composed(w)' = Composed(w)
                            /\ Look(w, s[w].width)' = Look(w, s[w].width)
    BY <1>7 DEF Composed, Look, Viewable
  <1>31. \A w \in Windows : /\ Look(w, s[w].width) \in Pixels
                            /\ Len(Look(w, s[w].width)) = s[w].width
                            /\ s[w].width = committed[w].width => Look(w, s[w].width) = Composed(w)
    BY <1>15, LookFacts DEF Parts
  <1>16. Typed'
    <2>1. committed' \in Snapshots /\ replay' \in [snapshot : Snapshots, buffers : Buffers]
          /\ screen' \in [Windows -> Pixels] /\ forgotten' \in [Windows -> SUBSET AnyPlaces]
          /\ pixels' \in [Windows -> Pixels] /\ current' \in Buffers
          /\ Buffers \subseteq Buffers' /\ Release \subseteq Release'
          /\ retired' \subseteq Release /\ releases' \subseteq Release
          /\ discarded' \subseteq BufferIds
      BY <1>7, <1>11, <1>12 DEF Parts, Typed, TypeOK, Buffers, Release
    <2>2. gwcomp' \in [scene : Snapshots, attached : Buffers, pending : Buffers,
                       mapped : SUBSET BufferIds]
          /\ attempted' \in BOOLEAN
          /\ count' \in [draws : 0..MaxDraws, requests : Nat, rejections : Nat, losses : Nat]
      BY DEF Publishes
    <2>3. canceled' \in BOOLEAN /\ inFlight' \in BOOLEAN /\ link' \in BOOLEAN
      BY <1>2, <1>7, <1>8 DEF Parts, Typed
    <2>4. phase' \in {"Idle", "AwaitingCompositor", "RollingBackPolicy", "RollingBackCompositor"}
      BY <1>8
    <2>5. gwcomp'.mapped \subseteq BufferIds'
      BY <1>11, <2>2
    <2>6. TypeOK'
      <3>1. \A w \in Windows : /\ committed'[w] \in WindowStates(w)
                               /\ Len(pixels'[w]) = committed'[w].width
                               /\ child'[w] \in Children(w) /\ bare'[w] \subseteq Covered[w]
        BY <1>7, <1>29 DEF Parts, Typed, TypeOK
      <3>2. content' \in [Windows -> Entry']
        BY <1>2
      <3>3. current' \in [Windows -> BufferIds'] /\ discarded' \subseteq BufferIds'
            /\ retired' \subseteq Release' /\ releases' \subseteq Release'
        BY <1>11, <2>1 DEF Buffers
      <3>4. frame'.kind \in {"None", "Lifecycle", "Content", "Replay"}
        BY <1>2
      <3> QED
        BY <2>1, <2>2, <2>3, <2>4, <2>5, <3>1, <3>2, <3>3, <3>4 DEF TypeOK, Entry, Children
    <2>7. gwcomp' \in [scene : Snapshots, attached : Buffers', pending : Buffers',
                       mapped : SUBSET BufferIds']
      BY <1>11, <2>1, <2>2
    <2>8. replay' \in [snapshot : Snapshots, buffers : Buffers']
      BY <2>1
    <2>9. frame' \in [kind : {"None", "Lifecycle", "Content", "Replay"},
                      snapshot : Snapshots, buffers : Buffers',
                      damage : [Windows -> SUBSET AnyPlaces]]
      BY <1>2 DEF Buffers
    <2> QED
      BY <1>2, <1>29, <2>1, <2>2, <2>3, <2>6, <2>7, <2>8, <2>9 DEF Typed
  <1>17. Flow'
    <2>1. phase' = "AwaitingCompositor" => replay.snapshot = committed
      BY DEF Publishes, Parts, Flow
    <2>2. phase' = "Idle" => canceled = FALSE /\ replay.snapshot = committed
      BY <1>8 DEF Parts, Flow
    <2>3. ~canceled => replay.snapshot = committed
      BY DEF Parts, Flow
    <2> QED
      BY <1>2, <1>7, <1>8, <1>10, <2>1, <2>2, <2>3 DEF Flow
  <1>18. Carried'
    <2>1. \A w \in Windows : content'[w].buffer = frame'.buffers[w]
      BY <1>3, <1>4
    <2>2. \A w \in Windows : s[w].shown => content'[w].inflight \subseteq frame'.damage[w]
      BY <1>3, <1>4
    <2>3. \A w \in Windows : w \notin Present(s) => frame'.buffers[w] = 0
      BY <1>3, <1>8
    <2>4. phase' = "Idle" /\ kind # "Replay" => \A w \in Windows : content'[w].storage = << >>
      BY <1>2, <1>3, <1>4, <1>8
    <2>5. Present(frame.snapshot)' = Present(s)
      BY <1>2 DEF Present
    <2> QED
      BY <1>2, <1>7, <2>1, <2>2, <2>3, <2>4, <2>5 DEF Carried, Parts, Typed
  <1>19. /\ Present(committed)' = Present(committed) /\ Present(replay.snapshot)' = Present(replay.snapshot)
         /\ Present(frame.snapshot)' = Present(s) /\ Ids(current)' = Ids(current)
         /\ Ids(replay.buffers)' = Ids(replay.buffers)
    BY <1>2, <1>7 DEF Present, Ids
  <1>20. Fitting'
    <2>1. \A w \in Present(committed) : Len(memory'[current[w]]) = committed[w].width
      BY <1>2, <1>8, <1>13 DEF Parts, Fitting
    <2>2. \A w \in Present(replay.snapshot) :
             Len(memory'[replay.buffers[w]]) = replay.snapshot[w].width
      <3>1. TAKE w \in Present(replay.snapshot)
      <3>2. w \in Windows /\ replay.buffers[w] # 0
            /\ Len(memory[replay.buffers[w]]) = replay.snapshot[w].width
        BY DEF Parts, Fitting, Present
      <3> QED
        BY <3>2, <1>2, <1>9, <1>13
    <2>3. \A w \in Present(s) :
             IF frame'.buffers[w] # 0 THEN Len(memory'[frame'.buffers[w]]) = s[w].width
             ELSE w \in Present(committed) /\ committed[w].width = s[w].width
      <3>1. TAKE w \in Present(s)
      <3>2. w \in Windows
        BY <1>8
      <3>3. CASE w \in fresh
        BY <3>2, <3>3, <1>5, <1>15, <1>31
      <3>4. CASE w \in targets \ fresh
        <4>1. frame'.buffers[w] = 0 /\ current[w] # 0 /\ Len(memory[current[w]]) = s[w].width
          BY <3>4, <1>6
        <4> QED
          BY <3>2, <4>1 DEF Parts, Fitting
      <3>5. CASE w \notin targets
        BY <3>1, <3>2, <3>5, <1>3, <1>8
      <3> QED
        BY <3>3, <3>4, <3>5
    <2>4. kind # "Content" => \A w \in Present(s) : Len(content'[w].storage) = s[w].width
      <3>1. ASSUME kind # "Content", NEW w \in Present(s)
            PROVE  Len(content'[w].storage) = s[w].width
        <4>1. w \in targets /\ w \in Windows
          BY <3>1, <1>8
        <4>2. content'[w].storage = Resize(pixels[w], s[w].width)
          BY <3>1, <4>1, <1>4
        <4> QED
          BY <4>1, <4>2, <1>15, ResizeFacts
      <3> QED
        BY <3>1
    <2>5. (Ids(frame.buffers) \cap (Ids(current) \cup discarded \cup {r.id : r \in releases}) = {})'
      <3>1. \A b \in Ids(frame.buffers)' : b \in (m + 1)..Len(memory')
        <4>1. SUFFICES ASSUME NEW w \in Windows, frame'.buffers[w] # 0
                       PROVE  frame'.buffers[w] \in (m + 1)..Len(memory')
          BY DEF Ids
        <4> QED
          BY <4>1, <1>3, <1>5, <1>6
      <3>2. Ids(current)' \subseteq 0..m /\ discarded' \subseteq 0..m
            /\ \A r \in releases' : r.id \in 0..m
        BY <1>7, <1>11, <1>12 DEF Ids, Parts, Typed, TypeOK, Release
      <3> QED
        BY <3>1, <3>2, <1>2
    <2> QED
      BY <1>2, <1>7, <1>19, <2>1, <2>2, <2>3, <2>4, <2>5 DEF Parts, Fitting
  <1>21. Shared'
    <2>1. phase' = "Idle" /\ kind = "Content" => gwcomp'.pending = gwcomp'.attached
      BY <1>7, <1>8 DEF Publishes, Parts, Shared
    <2> QED
      BY <1>2, <1>7, <1>10, <1>19, <2>1 DEF Parts, Shared
  <1>22. Matching'
    <2>1. Answered("ConsumerDone")' = Answered("ConsumerDone")
      BY <1>7 DEF Answered
    <2>2. CASE ~Orphaned
      <3>1. /\ retired = {r \in releases : r.reason # "ConsumerDone"}
            /\ Answered("ConsumerDone") \subseteq discarded
            /\ discarded \subseteq gwcomp.mapped \cup Answered("ConsumerDone")
            /\ gwcomp.mapped \subseteq Ids(current) \cup discarded
            /\ gwcomp.mapped \cap {r.id : r \in releases} = {}
            /\ discarded \cap Ids(current) = {}
        BY <1>7, <2>2 DEF Parts, Matching
      <3>2. StagedBuffers \cap (Ids(current) \cup discarded \cup {r.id : r \in releases}) = {}
        BY <1>12 DEF Parts, Fitting
      <3>3. /\ retired' = {r \in releases' : r.reason # "ConsumerDone"}
            /\ Answered("ConsumerDone")' \subseteq discarded'
            /\ discarded' \subseteq gwcomp'.mapped \cup Answered("ConsumerDone")'
            /\ gwcomp'.mapped \subseteq Ids(current)' \cup discarded'
            /\ gwcomp'.mapped \cap {r.id : r \in releases'} = {}
            /\ discarded' \cap Ids(current)' = {}
        <4>1. releases' = releases /\ retired' = retired /\ discarded' = discarded \cup StagedBuffers
              /\ gwcomp'.mapped = gwcomp.mapped \cup StagedBuffers
          BY <1>7, <1>12
        <4> QED
          BY <4>1, <3>1, <3>2, <2>1, <1>19
      <3> QED
        BY <1>2, <1>7, <1>10, <2>2, <3>3 DEF Matching
    <2>3. CASE Orphaned
      <3>1. /\ retired = {} /\ discarded = {}
            /\ Present(committed) \subseteq Present(replay.snapshot) => releases = {}
            /\ gwcomp.mapped \subseteq Ids(replay.buffers)
            /\ Ids(replay.buffers) \subseteq Ids(current)
        BY <1>7, <2>3 DEF Parts, Matching
      <3>2. StagedBuffers = {}
        <4>1. Ids(frame.buffers) = {}
          BY <1>10, <2>3, NoFrameFacts DEF Parts, Flow
        <4> QED
          BY <4>1, <1>12
      <3>3. fresh = {}
        <4>1. \A w \in Present(committed) :
                 current[w] # 0 /\ Len(memory[current[w]]) = committed[w].width
          BY <1>8 DEF Parts, Fitting
        <4> QED
          BY <4>1, <1>8, <1>10, <2>3 DEF fresh, Fresh
      <3>4. Ids(frame.buffers)' = {}
        BY <3>3, <1>3, <1>6 DEF Ids
      <3>5. retired' = {} /\ discarded' = {} /\ releases' = releases
            /\ gwcomp'.mapped = gwcomp.mapped
        BY <1>7, <1>12, <3>1, <3>2
      <3> QED
        BY <1>2, <1>7, <1>10, <1>19, <2>3, <3>1, <3>4, <3>5 DEF Matching
    <2> QED
      BY <2>2, <2>3
  <1>23. ASSUME NEW w \in Windows, NEW i \in Places(committed[w].width), i \notin Owed(w)',
                w \in Present(s)
         PROVE  i \in Places(s[w].width)
    <2>1. CASE s = committed
      BY <2>1
    <2>2. CASE s # committed
      <3>1. Shape' = s
        BY <1>2, <1>8, <2>2 DEF Shape
      <3>2. Present(Shape)' = Present(s)
        BY <3>1 DEF Present
      <3>3. Beyond(w)' = Places(committed[w].width) \ Places(s[w].width)
        BY <1>7, <1>23, <3>1, <3>2 DEF Beyond
      <3> QED
        BY <1>23, <3>3 DEF Owed
    <2> QED
      BY <2>1, <2>2
  <1>24. ASSUME NEW w \in Windows, NEW i \in Places(committed[w].width), i \notin Owed(w)',
                current[w] # 0
         PROVE  i \notin Owed(w) /\ memory'[current[w]][i] = memory[current[w]][i]
    <2>1. /\ i \notin content'[w].pending \cup content'[w].inflight \cup forgotten[w]
          /\ Beyond(w) = {}
      BY <1>7, <1>9, <1>24 DEF Owed
    <2>2. CASE w \notin targets
      BY <2>1, <2>2, <1>3, <1>14, <1>24 DEF Owed
    <2>3. CASE w \in fresh
      <3>1. content'[w].inflight = Places(s[w].width) /\ w \in Present(s)
        BY <2>3, <1>4, <1>8
      <3> QED
        BY <2>1, <3>1, <1>23, <1>24
    <2>4. CASE w \in targets \ fresh
      <3>1. i \in Places(s[w].width)
        BY <2>4, <1>8, <1>23, <1>24
      <3>2. i \notin content[w].pending \cup content[w].inflight
        BY <2>1, <2>4, <3>1, <1>4
      <3> QED
        BY <2>1, <2>4, <3>1, <3>2, <1>6 DEF Owed, Places
    <2> QED
      BY <2>2, <2>3, <2>4
  <1>25. Copied'
    <2>1. SUFFICES ASSUME NEW w \in Present(committed),
                          NEW i \in Places(committed[w].width) \ Owed(w)', i \notin bare'[w]
                   PROVE  memory'[current[w]][i] = Composed(w)[i]
      BY <1>7, <1>8, <1>19, <1>30 DEF Copied
    <2>2. w \in Windows /\ current[w] # 0
      BY <1>8 DEF Parts, Fitting
    <2>3. i \notin Owed(w) /\ memory'[current[w]][i] = memory[current[w]][i] /\ i \notin bare[w]
      BY <2>1, <2>2, <1>24, <1>29 DEF Owed
    <2> QED
      BY <2>1, <2>3 DEF Parts, Copied
  <1>26. Sent'
    <2>1. SUFFICES ASSUME NEW w \in Present(s),
                          NEW i \in Places(s[w].width)
                                    \ (content'[w].pending \cup forgotten[w] \cup bare'[w])
                   PROVE  memory'[IF frame'.buffers[w] # 0 THEN frame'.buffers[w]
                                  ELSE current[w]][i] = Look(w, s[w].width)[i]
      BY <1>2, <1>7, <1>8, <1>19, <1>30 DEF Sent
    <2>2. w \in Windows
      BY <1>8
    <2>3. ASSUME w \in Present(committed), committed[w].width = s[w].width,
                 i \notin content[w].pending \cup content[w].inflight,
                 i \notin content'[w].inflight
          PROVE  memory[current[w]][i] = Look(w, s[w].width)[i]
      <3>1. i \notin Owed(w) /\ i \notin bare[w]
        BY <2>1, <2>2, <2>3, <1>9, <1>29 DEF Owed
      <3>2. memory[current[w]][i] = Composed(w)[i]
        BY <2>1, <2>3, <3>1 DEF Parts, Copied
      <3>3. Look(w, s[w].width) = Composed(w)
        BY <2>2, <2>3, <1>31
      <3> QED
        BY <3>2, <3>3
    <2>4. CASE w \in fresh
      BY <2>4, <1>2, <1>5
    <2>5. CASE w \in targets \ fresh
      <3>1. /\ frame'.buffers[w] = 0 /\ current[w] # 0 /\ Len(memory[current[w]]) = s[w].width
            /\ memory'[current[w]][i] = IF i \in content[w].pending \cup content[w].inflight
                                        THEN Look(w, s[w].width)[i]
                                        ELSE memory[current[w]][i]
            /\ i \notin content[w].pending \cup content[w].inflight => i \notin content'[w].inflight
        <4>1. i \in 1..s[w].width /\ w \in targets /\ w \notin fresh
          BY <2>1, <2>5 DEF Places
        <4>2. current[w] \in 1..m /\ m \in Nat
          BY <2>5, <1>2, <1>6
        <4>3. current[w] # 0
          BY <4>2
        <4>4. content'[w].inflight \subseteq content[w].pending \cup content[w].inflight
          BY <4>1, <1>4
        <4> QED
          BY <4>1, <4>3, <4>4, <2>5, <1>6
      <3>2. w \in Present(committed) /\ committed[w].width = s[w].width
        BY <2>2, <3>1 DEF Parts, Fitting
      <3> QED
        BY <2>3, <3>1, <3>2
    <2>6. CASE w \notin targets
      <3>1. s = committed /\ frame'.buffers[w] = 0 /\ current[w] # 0
            /\ content'[w].pending = content[w].pending \cup content[w].inflight
            /\ content'[w].inflight = {}
        BY <2>2, <2>6, <1>3, <1>8 DEF Parts, Fitting
      <3>2. memory'[current[w]] = memory[current[w]]
        BY <2>2, <2>6, <3>1, <1>14
      <3> QED
        BY <2>1, <2>3, <3>1, <3>2
    <2> QED
      BY <2>4, <2>5, <2>6
  <1>27. Stored'
    <2>1. SUFFICES ASSUME NEW w \in Windows
                   PROVE  /\ \A i \in Places(Len(content'[w].storage)) :
                                i \notin content'[w].pending \/ pixels[w] = << >> =>
                                   content'[w].storage[i]
                                      = Resize(pixels[w], Len(content'[w].storage))[i]
                          /\ Len(content'[w].storage) = Len(pixels[w])
                                => content'[w].storage = pixels[w]
      BY <1>7 DEF Stored
    <2>2. CASE w \notin targets
      BY <2>2, <1>3 DEF Parts, Stored
    <2>3. CASE w \in targets /\ kind = "Content"
      <3>1. content'[w].storage = content[w].storage /\ content[w].storage = << >>
        BY <2>3, <1>2, <1>4
      <3>2. Len(pixels[w]) # 0
        BY <2>3, <1>8, <1>15
      <3> QED
        BY <3>1, <3>2, NoPixels DEF Places
    <2>4. CASE w \in targets /\ kind # "Content"
      <3>1. content'[w].storage = Resize(pixels[w], s[w].width)
        BY <2>4, <1>4
      <3>2. Len(Resize(pixels[w], s[w].width)) = s[w].width
            /\ (s[w].width = Len(pixels[w]) => Resize(pixels[w], s[w].width) = pixels[w])
        BY <1>15, ResizeFacts
      <3> QED
        BY <3>1, <3>2
    <2> QED
      BY <2>2, <2>3, <2>4
  <1>28. Drawn'
    <2>1. SUFFICES ASSUME NEW w \in Windows, gwcomp.scene[w].shown
                   PROVE  /\ Len(screen[w]) = gwcomp.scene[w].width
                          /\ \A i \in Places(gwcomp.scene[w].width) \ Owed(w)' :
                                screen[w][i] = memory'[gwcomp.attached[w]][i]
      BY <1>7 DEF Drawn
    <2>2. gwcomp.attached = replay.buffers /\ gwcomp.scene = replay.snapshot
      BY <1>7 DEF Parts, Shared
    <2>3. w \in Present(replay.snapshot)
      BY <2>1, <2>2, WidthFacts DEF Parts, Typed
    <2>4. replay.buffers[w] # 0 /\ Len(memory[replay.buffers[w]]) = replay.snapshot[w].width
      BY <2>3 DEF Parts, Fitting
    <2>5. current[w] = replay.buffers[w] /\ committed[w].width = replay.snapshot[w].width
      BY <2>4, <1>9 DEF Parts, Fitting
    <2>6. /\ Len(screen[w]) = gwcomp.scene[w].width
          /\ \A i \in Places(gwcomp.scene[w].width) \ Owed(w) :
                screen[w][i] = memory[gwcomp.attached[w]][i]
      BY <2>1, <1>7 DEF Parts, Drawn
    <2>7. ASSUME NEW i \in Places(gwcomp.scene[w].width) \ Owed(w)'
          PROVE  screen[w][i] = memory'[gwcomp.attached[w]][i]
      <3>1. i \notin Owed(w) /\ memory'[current[w]][i] = memory[current[w]][i]
        BY <2>2, <2>4, <2>5, <2>7, <1>24
      <3> QED
        BY <2>2, <2>5, <2>6, <2>7, <3>1
    <2> QED
      BY <2>6, <2>7
  <1> QED
    BY <1>16, <1>17, <1>18, <1>20, <1>21, <1>22, <1>25, <1>26, <1>27, <1>28 DEF Parts
-----------------------------------------------------------------------------
(* Every step *)

\* Without a frame in flight nothing is to be taken back.
LEMMA NothingStaged ==
    ASSUME Parts, ~inFlight
    PROVE  content = Rejected(TRUE) /\ StagedBuffers = {}
  <1>1. \A w \in Windows : content[w].buffer = 0 /\ content[w].inflight = {}
    BY DEF Parts, Carried
  <1>2. content \in [Windows -> Entry]
    BY DEF Parts, Typed, TypeOK, Entry
  <1>3. \A w \in Windows : content[w] =
           [pending |-> content[w].pending \cup content[w].inflight, inflight |-> {},
            storage |-> content[w].storage, buffer |-> 0]
    BY <1>1, <1>2 DEF Entry
  <1>4. content = [w \in Windows |-> content[w]]
    BY <1>2
  <1>5. content = Rejected(TRUE)
    BY <1>3, <1>4 DEF Rejected
  <1>6. StagedBuffers = {}
    BY <1>1 DEF StagedBuffers, Replacing
  <1> QED
    BY <1>5, <1>6

LEMMA NothingSent ==
    ASSUME Parts, frame.kind = "None"
    PROVE  Ids(frame.buffers) = {} /\ gwcomp.mapped = gwcomp.mapped \cup Ids(frame.buffers)
  <1>1. frame = NoFrame
    BY DEF Parts, Flow
  <1> QED
    BY <1>1, NoFrameFacts DEF Parts

LEMMA RequestInductive ==
    ASSUME Parts, NEW w \in Windows, NEW state \in WindowStates(w), Request(w, state), fatal' = "no"
    PROVE  Parts'
  <1> DEFINE s == [committed EXCEPT ![w] = state]
  <1>1. phase = "Idle" /\ ~inFlight /\ Bounded("requests", MaxRequests) /\ state # committed[w]
    BY Zenon DEF Request
  <1>2. /\ link /\ frame = NoFrame /\ Publish("Lifecycle", Present(s), s, FALSE, content)
        /\ phase' = "AwaitingCompositor" /\ canceled' = FALSE
        /\ UNCHANGED <<committed, pixels, child, current, retired, discarded, replay, link,
                       attempted, releases, gwcomp, screen, fatal, forgotten>>
    BY DEF Request, Stop, peer, outcome
  <1>3. s \in Snapshots /\ s # committed
    <2>1. committed \in Snapshots
      BY DEF Parts, Typed
    <2>2. state \in [width : AnyWidth, shown : BOOLEAN]
      <3>1. Widths[w] \subseteq AnyWidth /\ 0 \in AnyWidth
        BY DEF AnyWidth
      <3>2. Absent \in [width : AnyWidth, shown : BOOLEAN]
        BY <3>1 DEF Absent
      <3>3. [width : Widths[w], shown : BOOLEAN] \subseteq [width : AnyWidth, shown : BOOLEAN]
        BY <3>1
      <3> QED
        BY <3>2, <3>3 DEF WindowStates
    <2> QED
      BY <1>1, <2>1, <2>2 DEF Snapshots
  <1>4. content = Rejected(TRUE) /\ StagedBuffers = {}
    BY <1>1, NothingStaged
  <1>5. frame.kind = "None"
    BY <1>2 DEF NoFrame
  <1>6. Ids(frame.buffers) = {} /\ gwcomp.mapped = gwcomp.mapped \cup Ids(frame.buffers)
    BY <1>5, NothingSent
  <1>7. /\ count' \in [draws : 0..MaxDraws, requests : Nat, rejections : Nat, losses : Nat]
        /\ gwcomp \in [scene : Snapshots, attached : Buffers, pending : Buffers,
                       mapped : SUBSET BufferIds]
        /\ attempted \in BOOLEAN
    BY <1>1 DEF Bounded, Parts, Typed
  <1>8. ~Undone /\ Publish("Lifecycle", Present(s), s, FALSE, Rejected(TRUE))
    BY <1>1, <1>2, <1>4 DEF Undone
  <1>9. Publishes("Lifecycle", Present(s), s, FALSE)
    <2> HIDE DEF s
    <2> QED
      BY <1>1, <1>2, <1>3, <1>4, <1>5, <1>6, <1>7, <1>8 DEF Publishes
  <1> HIDE DEF s
  <1> QED
    BY <1>3, <1>9, PublishInductive

LEMMA SubmitInductive ==
    ASSUME Parts, SubmitContent PROVE Parts'
  <1>1. /\ phase = "Idle" /\ link /\ frame = NoFrame /\ ~inFlight
        /\ Publish("Content", Damaged, committed, FALSE, content)
        /\ UNCHANGED <<committed, phase, canceled, pixels, child, current, retired, discarded,
                       replay, link, attempted, releases, gwcomp, screen, fatal, forgotten, count>>
    BY DEF SubmitContent, server, peer, outcome
  <1>2. content = Rejected(TRUE) /\ StagedBuffers = {} /\ frame.kind = "None"
    BY <1>1, NothingStaged DEF NoFrame
  <1>3. Ids(frame.buffers) = {} /\ gwcomp.mapped = gwcomp.mapped \cup Ids(frame.buffers)
    BY <1>2, NothingSent
  <1>4. ~Undone /\ Publish("Content", Damaged, committed, FALSE, Rejected(TRUE))
    BY <1>1, <1>2 DEF Undone
  <1>5. committed \in Snapshots /\ Damaged \in SUBSET Present(committed)
    BY DEF Parts, Typed, Damaged
  <1>6. /\ count' \in [draws : 0..MaxDraws, requests : Nat, rejections : Nat, losses : Nat]
        /\ gwcomp \in [scene : Snapshots, attached : Buffers, pending : Buffers,
                       mapped : SUBSET BufferIds]
        /\ attempted \in BOOLEAN
    BY <1>1 DEF Parts, Typed
  <1>7. Publishes("Content", Damaged, committed, FALSE)
    BY <1>1, <1>2, <1>3, <1>4, <1>6 DEF Publishes
  <1> QED
    BY <1>5, <1>7, PublishInductive

LEMMA ContentRejectedInductive ==
    ASSUME Parts, ContentRejected, fatal' = "no" PROVE Parts'
  <1>1. /\ link /\ frame.kind = "Content" /\ Refuse(frame)
        /\ discarded' = discarded \cup StagedBuffers /\ attempted' = TRUE /\ fatal' = fatal
        /\ Publish("Replay", Present(committed), committed, TRUE, Rejected(TRUE))
        /\ UNCHANGED <<committed, phase, canceled, pixels, child, current, retired, replay, link,
                       forgotten>>
    BY DEF ContentRejected, server
  <1>2. /\ count' = [count EXCEPT !["rejections"] = @ + 1]
        /\ gwcomp' = [gwcomp EXCEPT !["pending"] = AttachmentsOf(frame), !["mapped"] = Mapped(frame)]
        /\ UNCHANGED <<screen, releases>>
    BY <1>1 DEF Refuse
  <1>3. phase = "Idle" /\ ~Undone
    BY <1>1 DEF Parts, Flow, Typed, TypeOK, Undone
  <1>4. committed \in Snapshots /\ Present(committed) \in SUBSET Present(committed)
    BY DEF Parts, Typed
  <1>5. count' \in [draws : 0..MaxDraws, requests : Nat, rejections : Nat, losses : Nat]
    BY <1>2 DEF Parts, Typed
  <1>6. /\ gwcomp' \in [scene : Snapshots, attached : Buffers, pending : Buffers,
                        mapped : SUBSET BufferIds]
        /\ gwcomp'.scene = gwcomp.scene /\ gwcomp'.attached = gwcomp.attached
        /\ gwcomp'.mapped = gwcomp.mapped \cup Ids(frame.buffers)
    <2>1. AttachmentsOf(frame) \in Buffers
      <3>1. /\ frame.buffers \in Buffers /\ gwcomp.pending \in Buffers
        BY DEF Parts, Typed
      <3>2. AttachmentsOf(frame) = [w \in Windows |->
               IF frame.buffers[w] # 0 THEN frame.buffers[w] ELSE gwcomp.pending[w]]
        BY <1>1 DEF AttachmentsOf
      <3> QED
        BY <3>1, <3>2 DEF Buffers
    <2>2. Mapped(frame) = gwcomp.mapped \cup Ids(frame.buffers)
          /\ Ids(frame.buffers) \subseteq BufferIds
      BY DEF Mapped, Ids, Parts, Typed, Buffers
    <2> QED
      BY <1>2, <2>1, <2>2 DEF Parts, Typed
  <1>7. Publishes("Replay", Present(committed), committed, TRUE)
    BY <1>1, <1>2, <1>3, <1>5, <1>6 DEF Publishes
  <1> QED
    BY <1>4, <1>7, PublishInductive

LEMMA RolledBackInductive ==
    ASSUME Parts, PolicyRolledBack, fatal' = "no" PROVE Parts'
  <1>0. /\ link /\ phase = "RollingBackPolicy" /\ ~inFlight
        /\ Publish("Lifecycle", Present(committed), committed, FALSE, content)
        /\ phase' = "RollingBackCompositor"
        /\ UNCHANGED <<committed, canceled, pixels, child, current, retired, discarded, replay,
                       link, attempted, peer, outcome>>
        /\ UNCHANGED count
    <2>1. ~Stop("frame in flight")
      BY DEF Stop
    <2> QED
      BY <2>1, Zenon DEF PolicyRolledBack
  <1>1. UNCHANGED <<committed, canceled, pixels, child, current, retired, discarded, replay,
                    link, attempted, releases, gwcomp, screen, fatal, forgotten, count>>
    BY <1>0 DEF peer, outcome
  <1>2. content = Rejected(TRUE) /\ StagedBuffers = {} /\ frame.kind = "None"
    BY <1>0, NothingStaged DEF Parts, Flow
  <1>3. Ids(frame.buffers) = {} /\ gwcomp.mapped = gwcomp.mapped \cup Ids(frame.buffers)
    BY <1>2, NothingSent
  <1>4. ~Undone /\ Publish("Lifecycle", Present(committed), committed, FALSE, Rejected(TRUE))
    BY <1>0, <1>2 DEF Undone
  <1>5. committed \in Snapshots /\ Present(committed) \in SUBSET Present(committed)
    BY DEF Parts, Typed
  <1>6. /\ count' \in [draws : 0..MaxDraws, requests : Nat, rejections : Nat, losses : Nat]
        /\ gwcomp \in [scene : Snapshots, attached : Buffers, pending : Buffers,
                       mapped : SUBSET BufferIds]
        /\ attempted \in BOOLEAN
    BY <1>1 DEF Parts, Typed
  <1>7. Publishes("Lifecycle", Present(committed), committed, FALSE)
    BY <1>0, <1>1, <1>2, <1>3, <1>4, <1>6 DEF Publishes
  <1> QED
    BY <1>5, <1>7, PublishInductive

\* The four ways a frame is committed.
LEMMA AcceptedCommits ==
    ASSUME Parts,
           \/ ContentAccepted \/ ReplayAccepted \/ RollbackAccepted
           \/ OperationAccepted /\ ~canceled
    PROVE  Commits /\ (phase = "AwaitingCompositor" => ~canceled)
  <1>1. /\ frame.kind \in {"Content", "Replay"} => phase = "Idle" /\ canceled = FALSE
        /\ frame.kind # "None" /\ phase # "AwaitingCompositor" => frame.snapshot = committed
        /\ phase = "Idle" => canceled = FALSE
        /\ attempted \in BOOLEAN /\ canceled \in BOOLEAN
    BY DEF Parts, Flow, Typed, TypeOK
  <1>2. CASE ContentAccepted
    <2>1. /\ Shows /\ frame.kind = "Content" /\ AcceptContent /\ frame' = NoFrame
          /\ attempted' = FALSE
          /\ UNCHANGED <<committed, phase, canceled, pixels, child, link, fatal, forgotten,
                         count>>
      BY <1>2 DEF ContentAccepted, Shows, server, outcome
    <2> QED
      BY <1>1, <2>1 DEF Commits
  <1>3. CASE ReplayAccepted
    <2>1. /\ Shows /\ frame.kind = "Replay" /\ AcceptLifecycle(committed) /\ frame' = NoFrame
          /\ attempted' = FALSE
          /\ UNCHANGED <<committed, phase, canceled, link, fatal, forgotten, count>>
      BY <1>3 DEF ReplayAccepted, Shows, outcome
    <2> QED
      BY <1>1, <2>1 DEF Commits
  <1>4. CASE RollbackAccepted
    <2>1. /\ Shows /\ frame.kind = "Lifecycle" /\ phase = "RollingBackCompositor"
          /\ AcceptLifecycle(committed) /\ frame' = NoFrame /\ phase' = "Idle" /\ canceled' = FALSE
          /\ UNCHANGED <<committed, link, attempted, fatal, forgotten, count>>
      BY <1>4 DEF RollbackAccepted, Shows, outcome
    <2> QED
      BY <1>1, <2>1 DEF Commits
  <1>5. CASE OperationAccepted /\ ~canceled
    <2>1. /\ Shows /\ frame.kind = "Lifecycle"
          /\ AcceptLifecycle(frame.snapshot) /\ frame' = NoFrame /\ phase' = "Idle"
          /\ committed' = frame.snapshot
          /\ UNCHANGED <<canceled, link, attempted, fatal, forgotten, count>>
      BY <1>5 DEF OperationAccepted, Shows, outcome
    <2> QED
      BY <1>1, <1>5, <2>1 DEF Commits
  <1> QED
    BY <1>2, <1>3, <1>4, <1>5

LEMMA UnchangedInductive ==
    ASSUME Parts, UNCHANGED vars PROVE Parts'
  <1>1. UNCHANGED <<committed, phase, canceled, pixels, child, content, current, retired,
                    discarded, memory, inFlight, bare, frame, replay, link, attempted, releases,
                    gwcomp, screen, fatal, forgotten, count>>
    BY DEF vars, server, presenter, bridge, peer, outcome
  <1>2. Orphaned' = Orphaned /\ Undone' = Undone
    BY <1>1 DEF Orphaned, Undone
  <1>3. Typed'
    BY <1>1 DEF Parts, Typed, TypeOK, BufferIds, Release, Buffers
  <1>4. Flow' /\ Carried' /\ Fitting' /\ Shared'
    BY <1>1, <1>2 DEF Parts, Flow, Carried, Fitting, Shared
  <1>5. Matching'
    BY <1>1, <1>2 DEF Parts, Matching, Answered
  <1>6. \A w \in Windows : Owed(w)' = Owed(w)
    BY <1>1 DEF Owed, Beyond, Shape
  <1>7. \A w \in Windows : Composed(w)' = Composed(w) /\ \A n : Look(w, n)' = Look(w, n)
    BY <1>1 DEF Composed, Look, Viewable
  <1>8. Copied' /\ Sent' /\ Stored' /\ Drawn'
    BY <1>1, <1>2, <1>6, <1>7 DEF Parts, Copied, Sent, Stored, Drawn, Present
  <1> QED
    BY <1>3, <1>4, <1>5, <1>8 DEF Parts

LEMMA NextInductive == Inductive /\ [Next]_vars => Inductive'
  <1>1. SUFFICES ASSUME Inductive, [Next]_vars, fatal' = "no"
                 PROVE  Parts'
    BY DEF Inductive, Parts, Running
  <1>2. fatal = "no" => Parts
    BY <1>1 DEF Inductive, Parts, Running
  <1>3. CASE UNCHANGED vars
    BY <1>1, <1>2, <1>3, UnchangedInductive DEF vars, outcome
  <1>4. ASSUME NEW w \in Windows, NEW places \in SUBSET Places(Len(pixels[w])), Draw(w, places)
        PROVE  Parts'
    BY <1>2, <1>4, DrawInductive DEF Draw, Running
  <1>17. ASSUME NEW w \in Windows, NEW places \in SUBSET Covered[w], DrawChild(w, places)
         PROVE  Parts'
    BY <1>2, <1>17, DrawChildInductive DEF DrawChild, Running
  <1>18. ASSUME NEW w \in Windows, MapChild(w)
         PROVE  Parts'
    BY <1>2, <1>18, MapChildInductive DEF MapChild, Running
  <1>5. ASSUME NEW w \in Windows, NEW state \in WindowStates(w), Request(w, state)
        PROVE  Parts'
    <2>1. fatal = "no"
      BY <1>5, Zenon DEF Request, Running
    <2> QED
      BY <1>1, <1>2, <1>5, <2>1, RequestInductive
  <1>6. CASE Leave
    BY <1>2, <1>6, LeaveInductive DEF Leave, Running
  <1>7. CASE SubmitContent
    BY <1>2, <1>7, SubmitInductive DEF SubmitContent, Running
  <1>8. CASE ContentRejected
    BY <1>1, <1>2, <1>8, ContentRejectedInductive DEF ContentRejected, Running
  <1>9. CASE \/ ContentAccepted \/ ReplayAccepted \/ RollbackAccepted
             \/ OperationAccepted /\ ~canceled
    <2>1. Parts
      BY <1>2, <1>9 DEF ContentAccepted, ReplayAccepted, RollbackAccepted, OperationAccepted,
                        Running
    <2> QED
      BY <2>1, <1>9, AcceptedCommits, CommitInductive
  <1>10. CASE OperationAccepted /\ canceled
    BY <1>2, <1>10, OrphanShownInductive DEF OperationAccepted, Running
  <1>11. CASE OperationRejected
    BY <1>2, <1>11, OperationRejectedInductive DEF OperationRejected, Running
  <1>12. CASE PolicyRolledBack
    <2>1. fatal = "no"
      BY <1>12, Zenon DEF PolicyRolledBack, Running
    <2> QED
      BY <1>1, <1>2, <1>12, <2>1, RolledBackInductive
  <1>13. CASE ReplayRejected \/ RollbackRejected
    BY <1>1, <1>13 DEF ReplayRejected, RollbackRejected, Stop
  <1>14. ASSUME NEW r \in releases, TakeRelease(r)
         PROVE  Parts'
    <2>1. Recognised(r)
      BY <1>1, <1>14 DEF TakeRelease, Stop
    <2> QED
      BY <1>2, <1>14, <2>1, TakeReleaseInductive DEF TakeRelease, Running
  <1>15. CASE Lose
    BY <1>2, <1>15, LoseInductive DEF Lose, Running
  <1>16. CASE Reconnect
    <2>1. Sendable(replay.buffers) /\ Sendable(frame.buffers)
      BY <1>1, <1>16 DEF Reconnect, Stop
    <2> QED
      BY <1>2, <1>16, <2>1, ReconnectInductive DEF Reconnect, Running
  <1> QED
    BY <1>1, <1>3, <1>4, <1>5, <1>6, <1>7, <1>8, <1>9, <1>10, <1>11, <1>12, <1>13, <1>14, <1>15,
       <1>16, <1>17, <1>18 DEF Next

-----------------------------------------------------------------------------
(* Theorems *)

\* While the server runs, the invariant holds: the presenter, the bridge's frame
\* and retained replay, and gwcomp's scene and mappings fit together as the
\* accept_, reject_ and disconnect handlers of published_buffer.cpp and
\* lifecycle_runtime.cpp leave them, in every phase of the coordinator.
THEOREM InductiveHolds == Spec => []Inductive
  BY InitInductive, NextInductive, PTL DEF Spec

\* Every BufferRelease that gwcomp sends is one that handle_buffer_release
\* recognises, and every buffer kept in retired or discarded is still to be
\* released: accept_content, accept_lifecycle and the two rejects record exactly
\* the buffers that gwcomp will give back. (Outside the gap in which gwcomp shows
\* an operation whose client has left.)
THEOREM ReleasesAreRecognised == Spec => []ReleasesMatchRetirements
  <1>1. Inductive => ReleasesMatchRetirements
    <2>1. SUFFICES ASSUME Typed, Matching, link, ~Orphaned
                   PROVE  /\ \A r \in releases : Recognised(r)
                          /\ retired \subseteq releases
                          /\ discarded \subseteq gwcomp.mapped \cup {r.id : r \in releases}
      BY DEF Inductive, ReleasesMatchRetirements
    <2>2. ASSUME NEW r \in releases
          PROVE  Recognised(r)
      BY <2>1 DEF Matching, Answered, Recognised
    <2>3. retired \subseteq releases
      BY <2>1 DEF Matching
    <2>4. discarded \subseteq gwcomp.mapped \cup {r.id : r \in releases}
      BY <2>1 DEF Matching, Answered
    <2> QED
      BY <2>2, <2>3, <2>4
  <1> QED
    BY <1>1, InductiveHolds, PTL

\* Between frames, a place of a visible window that the screen does not show as
\* the window and its subwindow are drawn is pending damage, or one that a refused
\* frame was too narrow for, or one of a mapped subwindow that a commit has laid
\* bare by changing its window (prepare_lifecycle publishes the staged storage
\* without it): with these two exceptions prepare_lifecycle's fresh buffers,
\* accept_lifecycle's storage and the damage that reject_content gives back lose
\* no drawing across resizes, refusals and restarts of gwcomp.
THEOREM DrawingsReachTheScreen == Spec => []NoDamageIsLost
  <1>1. Inductive => NoDamageIsLost
    <2>1. SUFFICES ASSUME Parts, Settled, NEW w \in Windows, committed[w].shown,
                          NEW i \in Stale(w)
                   PROVE  i \in content[w].pending \cup forgotten[w] \cup bare[w]
      BY DEF Inductive, Parts, NoDamageIsLost, Settled
    <2>2. link /\ phase = "Idle" /\ frame.kind = "None" /\ ~Undone
      BY <2>1 DEF Settled, NoFrame, Undone
    <2>3. replay.snapshot = committed /\ ~Orphaned
      BY <2>1, <2>2 DEF Parts, Flow, Orphaned
    <2>4. gwcomp.scene = committed /\ gwcomp.attached = current
      BY <2>1, <2>2, <2>3 DEF Parts, Shared
    <2>5. content[w].inflight = {}
      BY <2>1, <2>2 DEF Parts, Carried
    <2>6. Beyond(w) = {}
      BY <2>1, <2>2, LevelFacts
    <2>7. w \in Present(committed)
      BY <2>1, WidthFacts DEF Parts, Typed
    <2>8. i \in Places(committed[w].width) /\ screen[w][i] # Composed(w)[i]
      BY <2>1 DEF Stale
    <2>9. SUFFICES ASSUME i \notin Owed(w), i \notin bare[w]
                   PROVE  FALSE
      BY <2>5, <2>6 DEF Owed
    <2>10. memory[current[w]][i] = Composed(w)[i]
      BY <2>1, <2>7, <2>8, <2>9 DEF Parts, Copied
    <2>11. screen[w][i] = memory[gwcomp.attached[w]][i]
      BY <2>1, <2>2, <2>4, <2>8, <2>9 DEF Parts, Drawn
    <2> QED
      BY <2>4, <2>8, <2>10, <2>11
  <1> QED
    BY <1>1, InductiveHolds, PTL
=============================================================================
