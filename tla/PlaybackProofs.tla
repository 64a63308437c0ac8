--------------------------- MODULE PlaybackProofs ---------------------------
(***************************************************************************)
(* Proofs about Playback, for any songs, any number of requests, commands  *)
(* and queued messages.  The lemmas on the controller's operators come     *)
(* first; each invariant is built on the one before.                       *)
(***************************************************************************)
EXTENDS Playback, TLAPS

-----------------------------------------------------------------------------
(* The controller.                                                         *)

Prepares(candidate) == candidate = NoCandidate \/ candidate.song \in Preparable

\* What every controller keeps true of itself.
PlayerOK(p) ==
    /\ p \in Player
    /\ Loading(p) => ~Loaded(p)
    /\ p.track.playing => Loaded(p)
    /\ p.announced # NoSong => p.track.song = p.announced
    /\ Prepares(p.prepared) /\ Prepares(p.crossfade)

\* What an operator that installs nothing keeps, or clears.
Continues(p, q) ==
    /\ PlayerOK(q)
    /\ q.expected = p.expected
    /\ q.prepared \in {p.prepared, NoCandidate}
    /\ Loaded(q) => Loaded(p) /\ q.track.req = p.track.req
    /\ \/ q.track.song \in Preparable \cup {NoSong}
       \/ q.track.song = p.track.song /\ q.tgen = p.tgen
    /\ Stopped(p) /\ Loaded(q) => Stopped(q)
    /\ p.track.streaming
          => q.track.streaming /\ q.track.song = p.track.song /\ q.tgen = p.tgen

\* What the assumption on the songs says of those that can be prepared.
LEMMA SongFacts ==
    /\ NoSong \notin Songs /\ Preparable \subseteq Songs
    /\ Preparable \cap Remote = {}
    /\ \A song \in Preparable : \A streaming \in Streaming(song) : streaming
BY SongsAssumption DEF Preparable, Streaming

\* A player that does not change continues.
LEMMA Standstill == ASSUME NEW p, PlayerOK(p) PROVE Continues(p, p)
BY DEF PlayerOK, Continues, Stopped

\* Continuing is transitive, so a callback can be followed piece by piece.
LEMMA Continuation ==
    ASSUME NEW p, NEW q, NEW r, Continues(p, q), Continues(q, r)
    PROVE  Continues(p, r)
BY DEF PlayerOK, Continues, Stopped

\* Stopping the track.
LEMMA StopContinues ==
    ASSUME NEW p, PlayerOK(p) PROVE Continues(p, [p EXCEPT !.track.playing = FALSE])
<1> DEFINE q == [p EXCEPT !.track.playing = FALSE]
<1>1. q \in Player
  BY DEF PlayerOK, Player, Track
<1>2. /\ q.track.song = p.track.song /\ q.track.req = p.track.req
      /\ q.track.streaming = p.track.streaming
  BY DEF PlayerOK, Player, Track
<1>3. ~q.track.playing
  BY DEF PlayerOK, Player, Track
<1>4. /\ q.loading = p.loading /\ q.announced = p.announced /\ q.prepared = p.prepared
      /\ q.crossfade = p.crossfade /\ q.fade = p.fade /\ q.expected = p.expected
      /\ q.tgen = p.tgen
  BY DEF PlayerOK, Player, Track
<1>5. Continues(p, q)
  <2> HIDE DEF q
  <2> QED BY <1>1, <1>2, <1>3, <1>4 DEF Continues, PlayerOK, Loaded, Loading, Stopped
<1> QED BY <1>5

\* Taking a snapshot, which may stop a track at its end.
LEMMA SnapshotContinues ==
    ASSUME NEW p, PlayerOK(p) PROVE Continues(p, Snapshot(p))
BY StopContinues, Standstill DEF Snapshot

\* A change that leaves track, loading, generations and expectation alone.
Trimmed(p, f, b, c1, c2, a) ==
    [p EXCEPT !.fade = f, !.buffering = b, !.prepared = c1, !.crossfade = c2, !.announced = a]

\* Fade, buffering, candidates and announcement may be dropped.
LEMMA TrimContinues ==
    ASSUME NEW p, PlayerOK(p), NEW f \in {p.fade, "none"}, NEW b \in BOOLEAN,
           NEW c1 \in {p.prepared, NoCandidate},
           NEW c2 \in {p.crossfade, p.prepared, NoCandidate},
           NEW a \in {p.announced, NoSong}
    PROVE  LET q == Trimmed(p, f, b, c1, c2, a) IN
           /\ Continues(p, q)
           /\ q.track = p.track /\ q.loading = p.loading /\ q.tgen = p.tgen
           /\ q.prepared = c1 /\ q.crossfade = c2 /\ q.fade = f
<1> DEFINE q == Trimmed(p, f, b, c1, c2, a)
<1>1. p \in Player /\ NoCandidate \in Candidate
  BY DEF PlayerOK, NoCandidate, Candidate, AnySong
<1>2. q \in Player
  BY <1>1 DEF Trimmed, Player, AnySong
<1>3. /\ q.loading = p.loading /\ q.announced = a /\ q.prepared = c1
      /\ q.crossfade = c2 /\ q.fade = f /\ q.expected = p.expected
      /\ q.tgen = p.tgen /\ q.track = p.track
  BY <1>1 DEF Trimmed, Player
<1>4. Continues(p, q)
  <2> HIDE DEF q
  <2> QED BY <1>2, <1>3 DEF Continues, PlayerOK, Prepares, Loaded, Loading, Stopped
<1> QED BY <1>3, <1>4

\* The level of the rings decides about buffering only.
LEMMA CheckLevelContinues ==
    ASSUME NEW p, NEW level, PlayerOK(p) PROVE Continues(p, CheckLevel(p, level))
<1> DEFINE Same(g, b) == Trimmed(p, g, b, p.prepared, p.crossfade, p.announced)
<1>1. p \in Player
  BY DEF PlayerOK
<1>2. [p EXCEPT !.buffering = FALSE] = Same(p.fade, FALSE)
  BY <1>1 DEF Player, Trimmed
<1> DEFINE f == IF p.fade = "in" THEN "none" ELSE p.fade
<1>3. [p EXCEPT !.buffering = TRUE, !.fade = IF @ = "in" THEN "none" ELSE @]
        = Same(f, TRUE)
  BY <1>1 DEF Player, Trimmed
<1>4. f \in {p.fade, "none"}
  OBVIOUS
<1>5. Continues(p, Same(f, TRUE))
  BY <1>4, TrimContinues
<1>6. Continues(p, Same(p.fade, FALSE))
  BY TrimContinues
<1> QED BY <1>2, <1>3, <1>5, <1>6, Standstill DEF CheckLevel

\* A fade-out that expired stops the track.
LEMMA FinalizeFadeContinues ==
    ASSUME NEW p, NEW over \in BOOLEAN, PlayerOK(p) PROVE Continues(p, FinalizeFade(p, over))
<1> DEFINE q == [p EXCEPT !.track.playing = FALSE]
           r == Trimmed(q, "none", q.buffering, q.prepared, q.crossfade, q.announced)
<1>1. p \in Player
  BY DEF PlayerOK
<1>2. Continues(p, q) /\ q \in Player /\ q.buffering \in BOOLEAN
  BY StopContinues DEF Continues, PlayerOK, Player
<1>3. [p EXCEPT !.fade = "none", !.track.playing = FALSE] = r
  BY <1>1, <1>2 DEF Player, Trimmed
<1>4. Continues(p, r)
  <2> HIDE DEF q
  <2>1. PlayerOK(q)
    BY <1>2 DEF Continues
  <2>2. Continues(q, r)
    BY <1>2, <2>1, TrimContinues
  <2> QED BY <1>2, <2>2, Continuation
<1> QED BY <1>3, <1>4, Standstill DEF FinalizeFade

\* Reading the fade may end it.
LEMMA TakeFadeGainContinues ==
    ASSUME NEW p, NEW over \in BOOLEAN, PlayerOK(p) PROVE Continues(p, TakeFadeGain(p, over))
<1> DEFINE q == Trimmed(p, "none", p.buffering, p.prepared, p.crossfade, p.announced)
<1>1. p \in Player /\ p.buffering \in BOOLEAN
  BY DEF PlayerOK, Player
<1>2. [p EXCEPT !.fade = "none"] = q
  BY <1>1 DEF Player, Trimmed
<1>3. Continues(p, q)
  BY <1>1, TrimContinues
<1> QED BY <1>2, <1>3, Standstill DEF TakeFadeGain

-----------------------------------------------------------------------------
(* A transition replaces the track, under the request that is playing.     *)

\* A candidate that becomes current continues a track that did not stop.
LEMMA BecomeCurrentContinues ==
    ASSUME NEW p, PlayerOK(p), Loaded(p), NEW next, next \in Candidate, next.song \in Preparable
    PROVE  LET q == BecomeCurrent(p, next) IN
           /\ PlayerOK(q) /\ Loaded(q)
           /\ ~Stopped(p) /\ ~p.track.streaming => Continues(p, q)
           /\ q.fade = p.fade /\ q.track.song \in Preparable
           /\ q.track.req = p.track.req /\ q.expected = p.expected
           /\ q.prepared = p.prepared /\ q.crossfade = p.crossfade
<1> DEFINE t == [song |-> next.song, req |-> p.track.req, streaming |-> FALSE,
                 stems |-> FALSE, playing |-> TRUE, atEnd |-> FALSE]
           q == BecomeCurrent(p, next)
<1>1. p \in Player /\ next.song \in Songs /\ next.song # NoSong
  BY SongFacts DEF PlayerOK
<1>2. t \in Track /\ t.song = next.song /\ t.req = p.track.req
  BY <1>1 DEF Track, Player, AnySong
<1>3. q = [p EXCEPT !.track = t, !.buffering = FALSE, !.announced = next.song,
                    !.tgen = p.tgen + 1]
  BY <1>1 DEF BecomeCurrent, TakeOver, Bumped, Player
<1> HIDE DEF t
<1>4. q \in Player
  <2> HIDE DEF q
  <2>1. p.tgen + 1 \in Nat
    BY <1>1 DEF Player
  <2> QED BY <1>1, <1>2, <1>3, <2>1 DEF Player, AnySong
<1>5. /\ q.track = t /\ q.announced = next.song /\ q.prepared = p.prepared
      /\ q.crossfade = p.crossfade /\ q.fade = p.fade /\ q.expected = p.expected
      /\ q.loading = p.loading
  BY <1>1, <1>3 DEF Player
<1> HIDE DEF q
<1>6. PlayerOK(q) /\ Loaded(q)
  BY <1>1, <1>2, <1>4, <1>5 DEF PlayerOK, Loaded, Loading
<1>7. ~Stopped(p) /\ ~p.track.streaming => Continues(p, q)
  BY <1>2, <1>5, <1>6 DEF Continues
<1> QED BY <1>2, <1>5, <1>6, <1>7 DEF q

\* The end of a crossfade.
LEMMA PromoteContinues ==
    ASSUME NEW p, PlayerOK(p), CurrentTrackIsPlaying(p), p.crossfade # NoCandidate,
           ~p.track.streaming
    PROVE  Continues(p, PromoteCrossfade(p))
<1> DEFINE q == BecomeCurrent(p, p.crossfade)
           r == Trimmed(q, "none", q.buffering, q.prepared, NoCandidate, q.announced)
<1>1. Continues(p, q) /\ q \in Player /\ q.buffering \in BOOLEAN
  BY BecomeCurrentContinues DEF CurrentTrackIsPlaying, Stopped, PlayerOK, Player, Prepares
<1>2. PromoteCrossfade(p) = r
  <2> HIDE DEF q
  <2>1. PromoteCrossfade(p) = [q EXCEPT !.crossfade = NoCandidate, !.fade = "none"]
    BY DEF PromoteCrossfade, q
  <2> QED BY <1>1, <2>1 DEF Player, Trimmed
<1>3. Continues(p, r)
  <2> HIDE DEF q
  <2>1. PlayerOK(q)
    BY <1>1 DEF Continues
  <2>2. Continues(q, r)
    BY <1>1, <2>1, TrimContinues
  <2> QED BY <1>1, <2>2, Continuation
<1> QED BY <1>2, <1>3

\* The gapless change.
LEMMA GaplessContinues ==
    ASSUME NEW p, PlayerOK(p), CurrentTrackIsPlaying(p), p.prepared # NoCandidate,
           ~p.track.streaming
    PROVE  Continues(p, PerformGaplessSwap(p))
<1> DEFINE q == BecomeCurrent(p, p.prepared)
           f == IF q.fade = "in" THEN "in" ELSE "none"
           r == Trimmed(q, f, q.buffering, NoCandidate, q.crossfade, q.announced)
<1>1. Continues(p, q) /\ q \in Player /\ q.buffering \in BOOLEAN
  BY BecomeCurrentContinues DEF CurrentTrackIsPlaying, Stopped, PlayerOK, Player, Prepares
<1>2. PerformGaplessSwap(p) = r
  <2> HIDE DEF q
  <2>1. PerformGaplessSwap(p) =
          [q EXCEPT !.prepared = NoCandidate, !.fade = IF @ = "in" THEN "in" ELSE "none"]
    BY DEF PerformGaplessSwap, q
  <2> QED BY <1>1, <2>1 DEF Player, Trimmed
<1>3. Continues(p, r)
  <2> HIDE DEF q
  <2>1. PlayerOK(q)
    BY <1>1 DEF Continues
  <2>2. Continues(q, r)
    BY <1>1, <2>1, TrimContinues
  <2> QED BY <1>1, <2>2, Continuation
<1> QED BY <1>2, <1>3

\* The overlap of a crossfade, begun or completed.
LEMMA OverlapContinues ==
    ASSUME NEW p, NEW overlap, PlayerOK(p), Overlapping(p)
    PROVE  Continues(p, RenderOverlap(p, overlap))
<1> DEFINE r == Trimmed(p, p.fade, p.buffering, NoCandidate, p.prepared, p.announced)
           q == IF p.crossfade = NoCandidate /\ overlap # "early"
                THEN [p EXCEPT !.crossfade = p.prepared, !.prepared = NoCandidate] ELSE p
<1>1. p \in Player /\ p.buffering \in BOOLEAN
  BY DEF PlayerOK, Player
<1>2. [p EXCEPT !.crossfade = p.prepared, !.prepared = NoCandidate] = r
  BY <1>1 DEF Player, Trimmed
<1>3. Continues(p, r) /\ r.crossfade = p.prepared /\ r.track = p.track
  BY <1>1, TrimContinues
<1>4. Continues(p, q) /\ ~q.track.streaming
  <2> HIDE DEF r
  <2> QED BY <1>2, <1>3, Standstill DEF Overlapping
<1>5. overlap = "complete" => q.crossfade # NoCandidate
  <2> HIDE DEF r
  <2> QED BY <1>2, <1>3 DEF Overlapping
<1> HIDE DEF q
<1>6. RenderOverlap(p, overlap) =
        IF overlap = "complete" /\ CurrentTrackIsPlaying(q) THEN PromoteCrossfade(q) ELSE q
  BY DEF RenderOverlap, q
<1>7. ASSUME overlap = "complete", CurrentTrackIsPlaying(q)
      PROVE  Continues(p, PromoteCrossfade(q))
  <2>1. PlayerOK(q)
    BY <1>4 DEF Continues
  <2>2. Continues(q, PromoteCrossfade(q))
    BY <1>4, <1>5, <1>7, <2>1, PromoteContinues
  <2> QED BY <1>4, <2>2, Continuation
<1> QED BY <1>4, <1>6, <1>7

\* Reaching the end stops a streaming track and leaves everything else alone.
LEMMA EndContinues ==
    ASSUME NEW p, PlayerOK(p), NEW atEnd \in BOOLEAN, NEW playing \in BOOLEAN,
           playing => p.track.playing
    PROVE  Continues(p, [p EXCEPT !.track.atEnd = atEnd, !.track.playing = playing])
<1> DEFINE q == [p EXCEPT !.track.atEnd = atEnd, !.track.playing = playing]
<1>1. q \in Player
  BY DEF PlayerOK, Player, Track
<1>2. /\ q.track.song = p.track.song /\ q.track.req = p.track.req
      /\ q.track.streaming = p.track.streaming
  BY DEF PlayerOK, Player, Track
<1>3. q.track.playing = playing
  BY DEF PlayerOK, Player, Track
<1>4. /\ q.loading = p.loading /\ q.announced = p.announced /\ q.prepared = p.prepared
      /\ q.crossfade = p.crossfade /\ q.fade = p.fade /\ q.expected = p.expected
      /\ q.tgen = p.tgen
  BY DEF PlayerOK, Player, Track
<1>5. Continues(p, q)
  <2> HIDE DEF q
  <2> QED BY <1>1, <1>2, <1>3, <1>4 DEF Continues, PlayerOK, Loaded, Loading, Stopped
<1> QED BY <1>5

\* The end of the rendered buffer, a gapless change included.
LEMMA RenderEndContinues ==
    ASSUME NEW p, PlayerOK(p), NEW eof \in BOOLEAN
    PROVE  Continues(p, RenderEnd(p, eof))
<1> DEFINE atEnd == p.track.atEnd \/ eof
           playing == p.track.playing /\ ~(p.track.streaming /\ eof)
           q == [p EXCEPT !.track.atEnd = @ \/ eof,
                          !.track.playing = @ /\ ~(p.track.streaming /\ eof)]
<1>1. p \in Player /\ atEnd \in BOOLEAN /\ playing \in BOOLEAN
  BY DEF PlayerOK, Player, Track
<1>2. q = [p EXCEPT !.track.atEnd = atEnd, !.track.playing = playing]
  OBVIOUS
<1>3. Continues(p, q)
  <2> HIDE DEF atEnd
  <2> QED BY <1>1, <1>2, EndContinues
<1> HIDE DEF q
<1>4. PlayerOK(q)
  BY <1>3 DEF Continues
<1>5. CASE /\ ~q.track.streaming /\ q.track.atEnd
           /\ CurrentTrackIsPlaying(q) /\ q.prepared # NoCandidate
  <2>1. Continues(q, PerformGaplessSwap(q))
    BY <1>4, <1>5, GaplessContinues
  <2>2. RenderEnd(p, eof) = PerformGaplessSwap(q)
    BY <1>5 DEF RenderEnd, q
  <2> QED BY <1>3, <2>1, <2>2, Continuation
<1>6. CASE ~(/\ ~q.track.streaming /\ q.track.atEnd
             /\ CurrentTrackIsPlaying(q) /\ q.prepared # NoCandidate)
  <2>1. RenderEnd(p, eof) = q
    BY <1>6 DEF RenderEnd, q
  <2> QED BY <1>3, <2>1
<1> QED BY <1>5, <1>6

\* A callback installs nothing but a prepared track in place of one that plays.
LEMMA RenderedContinues ==
    ASSUME NEW p, PlayerOK(p), NEW level, NEW over \in BOOLEAN, NEW overLater \in BOOLEAN,
           NEW overlap, NEW eof \in BOOLEAN
    PROVE  Continues(p, Rendered(p, level, over, overLater, overlap, eof))
<1> DEFINE c == CheckLevel(p, level)
           f == FinalizeFade(c, over)
           q == Snapshot(f)
           o == IF Overlapping(q) THEN RenderOverlap(q, overlap) ELSE q
           t == TakeFadeGain(o, overLater)
<1>1. Continues(p, c) /\ PlayerOK(c)
  BY CheckLevelContinues DEF Continues
<1>2. Continues(p, f) /\ PlayerOK(f)
  <2> HIDE DEF c
  <2> QED BY <1>1, FinalizeFadeContinues, Continuation DEF Continues
<1>3. Continues(p, q) /\ PlayerOK(q)
  <2> HIDE DEF f
  <2> QED BY <1>2, SnapshotContinues, Continuation DEF Continues
<1>4. Continues(p, o) /\ PlayerOK(o)
  <2> HIDE DEF q
  <2> QED BY <1>3, OverlapContinues, Continuation DEF Continues
<1>5. Continues(p, t) /\ PlayerOK(t)
  <2> HIDE DEF o
  <2> QED BY <1>4, TakeFadeGainContinues, Continuation DEF Continues
<1>6. Continues(p, RenderEnd(t, eof))
  <2> HIDE DEF t
  <2>1. Continues(t, RenderEnd(t, eof))
    BY <1>5, RenderEndContinues
  <2> QED BY <1>5, <2>1, Continuation
<1>7. Rendered(p, level, over, overLater, overlap, eof)
        = IF Silent(q) THEN q ELSE RenderEnd(t, eof)
  BY DEF Rendered
<1> QED BY <1>3, <1>6, <1>7

-----------------------------------------------------------------------------
(* What the handlers do to the controller.                                 *)

\* A command on the track that is loaded.
Keeps(p, q) ==
    /\ PlayerOK(q)
    /\ q.expected = p.expected /\ q.loading = p.loading
    /\ q.track.song = p.track.song /\ q.track.req = p.track.req
    /\ p.track.streaming => q.track.streaming
    /\ q.prepared \in {p.prepared, p.crossfade, NoCandidate}

\* A snapshot keeps all but whether the track plays.
LEMMA SnapshotKeeps ==
    ASSUME NEW p, PlayerOK(p)
    PROVE  LET q == Snapshot(p) IN
           /\ PlayerOK(q) /\ q.track.song = p.track.song /\ q.track.req = p.track.req
           /\ q.expected = p.expected /\ q.loading = p.loading /\ q.prepared = p.prepared
           /\ q.tgen = p.tgen /\ q.track.streaming = p.track.streaming
           /\ q.track.playing => p.track.playing
<1> DEFINE q == [p EXCEPT !.track.playing = FALSE]
<1>1. p \in Player /\ PlayerOK(q)
  BY StopContinues DEF PlayerOK, Continues
<1>2. /\ q.track.song = p.track.song /\ q.track.req = p.track.req
      /\ q.expected = p.expected /\ q.loading = p.loading /\ q.prepared = p.prepared
      /\ q.tgen = p.tgen /\ q.track.streaming = p.track.streaming /\ ~q.track.playing
  BY <1>1 DEF Player, Track
<1> HIDE DEF q
<1>3. Snapshot(p) \in {p, q}
  BY DEF Snapshot, q
<1> QED BY <1>1, <1>2, <1>3

\* New values for the flags of the same track.
Adjusted(p, t, g, f, b, c1, c2) ==
    [p EXCEPT !.track = t, !.tgen = g, !.fade = f, !.buffering = b,
              !.prepared = c1, !.crossfade = c2]

\* A command on the loaded track adjusts its transport, not its identity.
LEMMA AdjustKeeps ==
    ASSUME NEW p, PlayerOK(p), Loaded(p), NEW t \in Track,
           t.song = p.track.song, t.req = p.track.req,
           p.track.streaming => t.streaming, NEW g \in Nat,
           NEW f \in {"none", "in", "out", "seek"}, NEW b \in BOOLEAN,
           NEW c1 \in {p.prepared, p.crossfade}, NEW c2 \in {p.crossfade, NoCandidate}
    PROVE  LET q == Adjusted(p, t, g, f, b, c1, c2) IN
           Keeps(p, q) /\ q.track = t /\ q.tgen = g /\ q.prepared = c1
<1> DEFINE q == Adjusted(p, t, g, f, b, c1, c2)
<1>1. p \in Player /\ NoCandidate \in Candidate
  BY DEF PlayerOK, NoCandidate, Candidate, AnySong
<1>2. q \in Player
  BY <1>1 DEF Player, Adjusted
<1>3. /\ q.loading = p.loading /\ q.announced = p.announced /\ q.prepared = c1
      /\ q.crossfade = c2 /\ q.expected = p.expected /\ q.tgen = g /\ q.track = t
  BY <1>1 DEF Player, Adjusted
<1>4. Keeps(p, q)
  <2> HIDE DEF q
  <2> QED BY <1>2, <1>3 DEF Keeps, PlayerOK, Prepares, Loaded, Loading
<1> QED BY <1>3, <1>4

\* A resume or pause of a loading song is remembered.
LEMMA PauseWhenLoadedKeeps ==
    ASSUME NEW p, PlayerOK(p), NEW b \in BOOLEAN
    PROVE  LET q == [p EXCEPT !.pauseWhenLoaded = b] IN
           Keeps(p, q) /\ q.tgen = p.tgen /\ q.track = p.track /\ q.prepared = p.prepared
<1> DEFINE q == [p EXCEPT !.pauseWhenLoaded = b]
<1>1. p \in Player /\ q \in Player
  BY DEF PlayerOK, Player
<1>2. /\ q.loading = p.loading /\ q.announced = p.announced /\ q.prepared = p.prepared
      /\ q.crossfade = p.crossfade /\ q.expected = p.expected /\ q.tgen = p.tgen
      /\ q.track = p.track
  BY <1>1 DEF Player
<1>3. Keeps(p, q)
  <2> HIDE DEF q
  <2> QED BY <1>1, <1>2 DEF Keeps, PlayerOK, Prepares, Loaded, Loading
<1> QED BY <1>2, <1>3

\* An adjusted transport followed by its snapshot.
LEMMA TransportKeeps ==
    ASSUME NEW p, PlayerOK(p), Loaded(p), NEW t \in Track,
           t.song = p.track.song, t.req = p.track.req,
           p.track.streaming => t.streaming, NEW g \in Nat,
           NEW f \in {"none", "in", "out", "seek"}, NEW b \in BOOLEAN,
           NEW c1 \in {p.prepared, p.crossfade}, NEW c2 \in {p.crossfade, NoCandidate}
    PROVE  LET q == Snapshot(Adjusted(p, t, g, f, b, c1, c2))
           IN  /\ Keeps(p, q) /\ q.tgen = g /\ q.prepared = c1
               /\ q.track.playing => t.playing
<1> DEFINE r == Adjusted(p, t, g, f, b, c1, c2)
<1>1. Keeps(p, r) /\ r.track = t /\ r.tgen = g /\ r.prepared = c1
  BY AdjustKeeps
<1> HIDE DEF r
<1>2. LET q == Snapshot(r) IN
      /\ PlayerOK(q) /\ q.track.song = r.track.song /\ q.track.req = r.track.req
      /\ q.expected = r.expected /\ q.loading = r.loading /\ q.prepared = r.prepared
      /\ q.tgen = r.tgen /\ q.track.streaming = r.track.streaming
      /\ q.track.playing => r.track.playing
  BY <1>1, SnapshotKeeps DEF Keeps
<1>3. Keeps(p, Snapshot(r)) /\ Snapshot(r).tgen = g /\ Snapshot(r).prepared = c1
  BY <1>1, <1>2 DEF Keeps
<1>4. Snapshot(r).track.playing => t.playing
  BY <1>1, <1>2
<1> QED BY <1>3, <1>4 DEF r

\* play keeps track and candidates.
LEMMA PlayKeeps ==
    ASSUME NEW p, PlayerOK(p)
    PROVE  Keeps(p, Play(p)) /\ Play(p).prepared = p.prepared
<1>1. p \in Player
  BY DEF PlayerOK
<1>2. CASE Loaded(p)
  <2> DEFINE t == [p.track EXCEPT !.playing = TRUE]
         r == Adjusted(p, t, p.tgen + 1, "in", p.buffering, p.prepared, p.crossfade)
  <2>1. t \in Track
    BY <1>1 DEF Player, Track
  <2>2. /\ t.song = p.track.song /\ t.req = p.track.req
        /\ t.streaming = p.track.streaming
    BY <1>1 DEF Player, Track
  <2>3. p.tgen + 1 \in Nat /\ p.buffering \in BOOLEAN
    BY <1>1 DEF Player
  <2>4. [Bumped(p) EXCEPT !.track.playing = TRUE, !.fade = "in"] = r
    BY <1>1 DEF Bumped, Player, Adjusted
  <2>5. Keeps(p, Snapshot(r)) /\ Snapshot(r).prepared = p.prepared
    <3> HIDE DEF t
    <3> QED BY <1>2, <2>1, <2>2, <2>3, TransportKeeps
  <2> QED BY <1>2, <2>4, <2>5 DEF Play
<1>3. CASE ~Loaded(p)
  BY <1>3, PauseWhenLoadedKeeps DEF Play
<1> QED BY <1>2, <1>3

\* pause keeps track and candidates and starts nothing.
LEMMA PauseKeeps ==
    ASSUME NEW p, PlayerOK(p)
    PROVE  /\ Keeps(p, Pause(p)) /\ Pause(p).prepared = p.prepared
           /\ Pause(p).track.playing => p.track.playing
<1>1. p \in Player
  BY DEF PlayerOK
<1>2. CASE Loaded(p)
  <2> DEFINE r == Adjusted(p, p.track, p.tgen + 1, "out", p.buffering, p.prepared,
                           p.crossfade)
  <2>1. /\ p.track \in Track /\ p.tgen + 1 \in Nat /\ p.buffering \in BOOLEAN
    BY <1>1 DEF Player
  <2>2. [Bumped(p) EXCEPT !.fade = "out"] = r
    BY <1>1 DEF Bumped, Player, Adjusted
  <2>3. /\ Keeps(p, Snapshot(r)) /\ Snapshot(r).prepared = p.prepared
        /\ Snapshot(r).track.playing => p.track.playing
    BY <1>2, <2>1, TransportKeeps
  <2> QED BY <1>2, <2>2, <2>3 DEF Pause
<1>3. CASE ~Loaded(p)
  BY <1>3, PauseWhenLoadedKeeps DEF Pause
<1> QED BY <1>2, <1>3

\* A seek may bring back the candidate of a crossfade it aborts.
LEMMA SeekKeeps ==
    ASSUME NEW p, PlayerOK(p), NEW toEnd \in BOOLEAN
    PROVE  LET q == SeekTo(p, toEnd) IN
           /\ Keeps(p, q)
           /\ \/ q.prepared = p.prepared
              \/ Loaded(p) /\ p.crossfade # NoCandidate /\ q.prepared = p.crossfade
           /\ q.track.playing => p.track.playing
<1>1. p \in Player
  BY DEF PlayerOK
<1>2. CASE Loaded(p)
  <2> DEFINE t == [p.track EXCEPT !.atEnd = toEnd]
             b == p.buffering \/ p.track.streaming
             c1 == IF p.crossfade = NoCandidate THEN p.prepared ELSE p.crossfade
             r == Adjusted(p, t, p.tgen + 1, "seek", b, c1, NoCandidate)
             a == AbortCrossfade(Bumped(p))
  <2>1. /\ t \in Track /\ t.song = p.track.song /\ t.req = p.track.req
        /\ t.playing = p.track.playing /\ t.streaming = p.track.streaming
        /\ p.tgen + 1 \in Nat /\ b \in BOOLEAN /\ c1 \in {p.prepared, p.crossfade}
    BY <1>1 DEF Player, Track
  <2>2. a = [p EXCEPT !.tgen = p.tgen + 1, !.prepared = c1, !.crossfade = NoCandidate]
    BY <1>1 DEF AbortCrossfade, Bumped, Player
  <2>3. [a EXCEPT !.fade = "seek", !.track.atEnd = toEnd, !.buffering = @ \/ p.track.streaming] = r
    BY <1>1, <2>2 DEF Player, Adjusted
  <2>4. /\ Keeps(p, Snapshot(r)) /\ Snapshot(r).prepared = c1
        /\ Snapshot(r).track.playing => t.playing
    <3> HIDE DEF t, b, c1
    <3> QED BY SMTT(30), <1>2, <2>1, TransportKeeps
  <2> QED BY <1>2, <2>1, <2>3, <2>4 DEF SeekTo
<1>3. CASE ~Loaded(p)
  BY <1>3 DEF SeekTo, Keeps
<1> QED BY <1>2, <1>3

\* A reconnect replaces the source of the track, not the track.
LEMMA ReplaceSourceKeeps ==
    ASSUME NEW p, PlayerOK(p), Loaded(p), NEW toEnd \in BOOLEAN
    PROVE  LET q == ReplaceStreamingSource(p, toEnd) IN
           /\ Keeps(p, q) /\ q.prepared = p.prepared /\ q.tgen = p.tgen
           /\ q.track.playing => p.track.playing
<1> DEFINE t == [p.track EXCEPT !.streaming = TRUE, !.atEnd = toEnd]
           b == TRUE
           r == Adjusted(p, t, p.tgen, p.fade, b, p.prepared, p.crossfade)
<1>1. p \in Player
  BY DEF PlayerOK
<1>2. t \in Track
  BY <1>1 DEF Player, Track
<1>3. /\ t.song = p.track.song /\ t.req = p.track.req /\ t.playing = p.track.playing
      /\ t.streaming /\ p.tgen \in Nat /\ p.fade \in {"none", "in", "out", "seek"}
  BY <1>1 DEF Player, Track
<1>4. [p EXCEPT !.track.streaming = TRUE, !.track.atEnd = toEnd, !.buffering = TRUE] = r
  BY <1>1 DEF Player, Adjusted
<1>5. /\ Keeps(p, Snapshot(r)) /\ Snapshot(r).prepared = p.prepared
      /\ Snapshot(r).tgen = p.tgen
      /\ Snapshot(r).track.playing => t.playing
  <2>1. b \in BOOLEAN
    OBVIOUS
  <2> HIDE DEF t, b
  <2> QED BY SMTT(30), <1>2, <1>3, <2>1, TransportKeeps
<1>6. ReplaceStreamingSource(p, toEnd) = Snapshot(r)
  <2> HIDE DEF r
  <2> QED BY <1>4 DEF ReplaceStreamingSource
<1> HIDE DEF r
<1> QED BY <1>3, <1>5, <1>6

\* Dropping candidates and announcement continues.
LEMMA CancelCandidatesContinues ==
    ASSUME NEW p, PlayerOK(p)
    PROVE  LET q == CancelCrossfadeAndPrepared(p) IN
           /\ Continues(p, q) /\ q.prepared = NoCandidate /\ q.track = p.track
           /\ q.tgen = p.tgen /\ q.loading = p.loading
<1> DEFINE r == Trimmed(p, p.fade, p.buffering, NoCandidate, NoCandidate, NoSong)
<1>1. p \in Player /\ p.buffering \in BOOLEAN
  BY DEF PlayerOK, Player
<1>2. CancelCrossfadeAndPrepared(p) = r
  BY <1>1 DEF CancelCrossfadeAndPrepared, Trimmed, Player
<1> QED BY <1>1, <1>2, TrimContinues

\* Attaching stems drops the candidates and keeps the track.
LEMMA AttachStemsKeeps ==
    ASSUME NEW p, PlayerOK(p), Loaded(p)
    PROVE  LET q == AttachStems(p) IN
           /\ Keeps(p, q) /\ q.prepared = NoCandidate /\ q.tgen = p.tgen
           /\ q.track.playing => p.track.playing
           /\ q.track.streaming = p.track.streaming
<1> DEFINE c == CancelCrossfadeAndPrepared(p)
           t == [p.track EXCEPT !.stems = TRUE]
           r == Adjusted(c, t, c.tgen, c.fade, c.buffering, c.prepared, c.crossfade)
<1>1. p \in Player /\ Continues(p, c) /\ c.prepared = NoCandidate /\ c.track = p.track
      /\ c.tgen = p.tgen /\ c.loading = p.loading
  BY CancelCandidatesContinues DEF PlayerOK
<1> HIDE DEF c
<1>2. PlayerOK(c) /\ c \in Player /\ c.expected = p.expected /\ Loaded(c)
  BY <1>1 DEF Continues, PlayerOK, Loaded
<1>3. t \in Track
  BY <1>1 DEF Player, Track
<1>4. /\ t.song = p.track.song /\ t.req = p.track.req /\ t.playing = p.track.playing
      /\ t.streaming = p.track.streaming /\ c.tgen \in Nat /\ c.fade \in {"none", "in", "out", "seek"} /\ c.buffering \in BOOLEAN
  BY <1>1, <1>2 DEF Player, Track
<1>5. AttachStems(p) = r
  <2>1. AttachStems(p) = [c EXCEPT !.track.stems = TRUE]
    BY DEF AttachStems, c
  <2> QED BY <1>1, <1>2, <2>1 DEF Player, Adjusted
<1>6. Keeps(c, r) /\ r.track = t /\ r.tgen = p.tgen /\ r.prepared = NoCandidate
  <2> HIDE DEF t
  <2> QED BY SMTT(30), <1>1, <1>2, <1>3, <1>4, AdjustKeeps
<1>7. /\ Keeps(p, r) /\ (r.track.playing => p.track.playing)
      /\ r.track.streaming = p.track.streaming
  <2> HIDE DEF r
  <2> QED BY <1>1, <1>2, <1>4, <1>6 DEF Keeps
<1> QED BY <1>5, <1>6, <1>7

\* Another track, or none, takes the place of the one that is loaded.
Installed(p, t, loading, f, g) ==
    [CancelCrossfadeAndPrepared(p) EXCEPT
        !.loading = loading, !.pauseWhenLoaded = FALSE, !.track = t, !.fade = f, !.tgen = g]

\* What a new track, or none, leaves of the player.
LEMMA InstallKeeps ==
    ASSUME NEW p, PlayerOK(p), NEW t \in Track, NEW loading \in AnySong,
           NEW f \in {p.fade, "none"}, NEW g \in Nat,
           t.song = NoSong \/ loading = NoSong, t.playing => t.song # NoSong
    PROVE  LET q == Installed(p, t, loading, f, g) IN
           /\ PlayerOK(q) /\ q.track = t /\ q.loading = loading /\ q.tgen = g
           /\ q.expected = p.expected /\ q.prepared = NoCandidate
<1> DEFINE q == Installed(p, t, loading, f, g)
<1>1. p \in Player /\ NoCandidate \in Candidate /\ p.fade \in {"none", "in", "out", "seek"}
  BY DEF PlayerOK, NoCandidate, Candidate, AnySong, Player
<1>2. q = [p EXCEPT !.loading = loading, !.pauseWhenLoaded = FALSE, !.track = t, !.fade = f,
                    !.tgen = g, !.prepared = NoCandidate, !.crossfade = NoCandidate,
                    !.announced = NoSong]
  BY <1>1 DEF Installed, CancelCrossfadeAndPrepared, Player
<1>3. q \in Player
  <2> HIDE DEF q
  <2> QED BY <1>1, <1>2 DEF Player, AnySong
<1>4. /\ q.track = t /\ q.loading = loading /\ q.tgen = g /\ q.expected = p.expected
      /\ q.prepared = NoCandidate /\ q.crossfade = NoCandidate /\ q.announced = NoSong
  <2> HIDE DEF q
  <2> QED BY <1>1, <1>2 DEF Player
<1>5. PlayerOK(q)
  <2> HIDE DEF q
  <2> QED BY <1>3, <1>4 DEF PlayerOK, Prepares, Loaded, Loading
<1> QED BY <1>4, <1>5

\* clear_track leaves nothing loaded or loading.
LEMMA ClearTrackInstalls ==
    ASSUME NEW p, PlayerOK(p)
    PROVE  LET q == ClearTrack(p) IN
           /\ PlayerOK(q) /\ q.track = NoTrack /\ q.loading = NoSong /\ q.tgen = p.tgen
           /\ q.expected = p.expected /\ q.prepared = NoCandidate
<1> DEFINE q == Installed(p, NoTrack, NoSong, "none", p.tgen)
<1>1. /\ NoTrack \in Track /\ NoTrack.song = NoSong /\ ~NoTrack.playing
      /\ NoSong \in AnySong
  BY DEF NoTrack, Track, AnySong
<1>2. p \in Player /\ p.tgen \in Nat
  BY DEF PlayerOK, Player
<1>3. ClearTrack(p) = q
  BY <1>2 DEF ClearTrack, Installed, CancelCrossfadeAndPrepared, Player
<1> HIDE DEF q
<1>4. /\ PlayerOK(q) /\ q.track = NoTrack /\ q.loading = NoSong /\ q.tgen = p.tgen
      /\ q.expected = p.expected /\ q.prepared = NoCandidate
  BY <1>1, <1>2, InstallKeeps DEF q
<1> QED BY <1>3, <1>4

\* A loading song has no track, and a generation of its own.
LEMMA StartTrackLoadingInstalls ==
    ASSUME NEW p, PlayerOK(p), NEW song \in Songs
    PROVE  LET q == StartTrackLoading(p, song) IN
           /\ PlayerOK(q) /\ q.track = NoTrack /\ q.loading = song /\ q.tgen = p.tgen + 1
           /\ q.expected = p.expected /\ q.prepared = NoCandidate
<1> DEFINE q == Installed(p, NoTrack, song, p.fade, p.tgen + 1)
<1>1. /\ NoTrack \in Track /\ NoTrack.song = NoSong /\ ~NoTrack.playing
      /\ song \in AnySong
  BY DEF NoTrack, Track, AnySong
<1>2. p \in Player /\ p.tgen + 1 \in Nat
  BY DEF PlayerOK, Player
<1>3. StartTrackLoading(p, song) = q
  BY <1>2 DEF StartTrackLoading, Installed, CancelCrossfadeAndPrepared, Bumped, Player
<1> HIDE DEF q
<1>4. /\ PlayerOK(q) /\ q.track = NoTrack /\ q.loading = song /\ q.tgen = p.tgen + 1
      /\ q.expected = p.expected /\ q.prepared = NoCandidate
  BY <1>1, <1>2, InstallKeeps DEF q
<1> QED BY <1>3, <1>4

\* An installed track is the one asked for, and nothing loads.
LEMMA StartTrackInstalls ==
    ASSUME NEW p, PlayerOK(p), NEW song \in Songs, NEW req \in Nat, NEW streaming \in BOOLEAN
    PROVE  LET q == StartTrack(p, song, req, streaming) IN
           /\ PlayerOK(q) /\ q.track.song = song /\ q.track.req = req /\ q.loading = NoSong
           /\ q.tgen = p.tgen /\ q.expected = p.expected /\ q.prepared = NoCandidate
           /\ q.track.streaming = streaming
<1> DEFINE t == [song |-> song, req |-> req, streaming |-> streaming, stems |-> FALSE,
                 playing |-> ~p.pauseWhenLoaded, atEnd |-> FALSE]
           q == Installed(p, t, NoSong, p.fade, p.tgen)
<1>1. /\ t \in Track /\ t.song = song /\ t.req = req /\ t.streaming = streaming
      /\ NoSong \in AnySong /\ song # NoSong
  BY SongFacts DEF Track, AnySong, PlayerOK, Player
<1>2. p \in Player /\ p.tgen \in Nat
  BY DEF PlayerOK, Player
<1>3. StartTrack(p, song, req, streaming) = q
  BY <1>2 DEF StartTrack, Installed, CancelCrossfadeAndPrepared, Player
<1>4. /\ PlayerOK(q) /\ q.track = t /\ q.loading = NoSong /\ q.tgen = p.tgen
      /\ q.expected = p.expected /\ q.prepared = NoCandidate
  <2> HIDE DEF t
  <2> QED BY <1>1, <1>2, InstallKeeps
<1> HIDE DEF t
<1> QED BY <1>1, <1>3, <1>4

\* Cancelling a load leaves the track alone.
LEMMA CancelLoadingKeeps ==
    ASSUME NEW p, PlayerOK(p)
    PROVE  LET q == CancelLoading(p) IN
           /\ PlayerOK(q) /\ q.track = p.track /\ q.loading = NoSong /\ q.tgen = p.tgen
           /\ q.expected = p.expected /\ q.prepared = p.prepared /\ q.fade = p.fade
<1> DEFINE q == CancelLoading(p)
<1>1. p \in Player /\ q \in Player
  BY DEF PlayerOK, CancelLoading, Player, AnySong
<1>2. /\ q.track = p.track /\ q.loading = NoSong /\ q.tgen = p.tgen
      /\ q.expected = p.expected /\ q.prepared = p.prepared
      /\ q.crossfade = p.crossfade /\ q.announced = p.announced /\ q.fade = p.fade
  BY <1>1 DEF CancelLoading, Player
<1>3. PlayerOK(q)
  <2> HIDE DEF q
  <2> QED BY <1>1, <1>2 DEF PlayerOK, Prepares, Loaded, Loading
<1> QED BY <1>2, <1>3

\* A song that is invalidated neither plays nor loads any more.
LEMMA InvalidateSongKeeps ==
    ASSUME NEW p, PlayerOK(p), NEW song \in Songs
    PROVE  LET q == InvalidateSong(p, song) IN
           /\ PlayerOK(q) /\ q.tgen = p.tgen /\ q.expected = p.expected
           /\ q.prepared \in {p.prepared, NoCandidate}
           /\ \/ q.track = NoTrack /\ p.track.song = song
              \/ q.track = p.track /\ p.track.song # song
           /\ q.loading \in {p.loading, NoSong}
           /\ Stopped(p) => ~q.track.playing
<1> DEFINE c == IF p.track.song = song THEN ClearTrack(p) ELSE p
<1>1. /\ PlayerOK(c) /\ c.tgen = p.tgen /\ c.expected = p.expected
      /\ c.prepared \in {p.prepared, NoCandidate}
      /\ \/ c.track = NoTrack /\ p.track.song = song
         \/ c.track = p.track /\ p.track.song # song
      /\ c.loading \in {p.loading, NoSong}
  BY ClearTrackInstalls
<1> HIDE DEF c
<1>2. InvalidateSong(p, song) = IF c.loading = song THEN CancelLoading(c) ELSE c
  BY DEF InvalidateSong, c
<1>3. /\ PlayerOK(CancelLoading(c)) /\ CancelLoading(c).track = c.track
      /\ CancelLoading(c).loading = NoSong /\ CancelLoading(c).tgen = c.tgen
      /\ CancelLoading(c).expected = c.expected /\ CancelLoading(c).prepared = c.prepared
  BY <1>1, CancelLoadingKeeps
<1>4. ~NoTrack.playing
  BY DEF NoTrack
<1> QED BY <1>1, <1>2, <1>3, <1>4 DEF Stopped

-----------------------------------------------------------------------------
(* Types.                                                                  *)

NamesSong == {"BeginLoad", "InstallReady", "FailLoad", "ReplaceStreamingSource",
              "CancelPreview", "AttachStems", "InvalidateDeletedSongs"}

GoodCommand ==
    {c \in Command : /\ c.op \in NamesSong => c.song \in Songs
                     /\ c.op = "PrepareNext" => c.song \in Preparable
                     /\ c.op = "InstallReady" /\ c.song \in Preparable => c.streaming}

GoodLoad == {l \in Load : l.phase \notin {"none", "done"} => l.song \in Songs}

CountersTyped ==
    /\ latest \in Nat /\ worker \in Nat /\ begun \in Nat
    /\ dismissed \subseteq Nat /\ recalled \in BOOLEAN

RequestsTyped == CountersTyped /\ loads \in [Requests -> GoodLoad]

ChannelTyped == queue \in Seq(GoodCommand) /\ co \in Working /\ co.cmd \in GoodCommand

PreloadsTyped ==
    /\ asked \in Nat /\ inputs \in Nat
    /\ preloads \in [Preloads -> Preload]
    /\ \A g \in Preloads : preloads[g].phase \in {"spawned", "prepared"}
                              => preloads[g].song \in Preparable

CommandsTyped ==
    /\ PreloadsTyped
    /\ stemsJob \in Job /\ (stemsJob = NoJob \/ stemsJob.song \in Songs)

RuntimeTyped ==
    /\ slot \in Slot /\ output \in {"closed", "opening", "open", "rebuilding"} /\ format \in Nat
    /\ library \subseteq Songs /\ clear \in Clear

TypeInv == RequestsTyped /\ ChannelTyped /\ CommandsTyped /\ RuntimeTyped /\ PlayerOK(player)

\* The initial state is typed.
LEMMA TypeInvInit == Init => TypeInv
<1> SUFFICES ASSUME Init PROVE TypeInv
  OBVIOUS
<1> USE DEF Init
<1>1. RequestsTyped
  BY DEF RequestsTyped, CountersTyped, NoLoad, GoodLoad, Load, LoadPhases, AnySong
<1>2. ChannelTyped
  BY DEF ChannelTyped, Idle, Working, NoCommand, GoodCommand, Command, AnySong, NamesSong
<1>3. CommandsTyped
  BY DEF CommandsTyped, PreloadsTyped, NoPreload, Preload, NoJob, Job, AnySong
<1>4. RuntimeTyped
  BY SongsAssumption DEF RuntimeTyped, NoSlot, Slot, NoClear, Clear, AnySong
<1>5. PlayerOK(player)
  <2>1. player \in Player
    BY DEF Player, Track, NoTrack, NoCandidate, Candidate, AnySong
  <2>2. /\ player.track.song = NoSong /\ ~player.track.playing /\ player.loading = NoSong
        /\ player.announced = NoSong /\ player.prepared = NoCandidate
        /\ player.crossfade = NoCandidate
    BY DEF NoTrack
  <2> QED BY <2>1, <2>2 DEF PlayerOK, Loaded, Loading, Prepares
<1> QED BY <1>1, <1>2, <1>3, <1>4, <1>5 DEF TypeInv

\* An installation leaves the player alone or installs the track it carries.
LEMMA InstallReadySteps ==
    ASSUME PlayerOK(player), co.cmd \in GoodCommand, HandleInstallReady
    PROVE  \/ UNCHANGED player /\ ThenIdle
           \/ /\ ThenSlot /\ PlayerOK(player')
              /\ Loaded(player') /\ player'.track.song = co.cmd.song
              /\ player'.track.req = co.cmd.req /\ player'.track.streaming = co.cmd.streaming
              /\ player'.loading = NoSong /\ player'.tgen = player.tgen
              /\ player'.expected = player.expected /\ player'.prepared = NoCandidate
<1> DEFINE started == StartTrack(player, co.cmd.song, co.cmd.req, co.cmd.streaming)
<1>1. co.cmd.song \in Songs /\ co.cmd.req \in Nat /\ co.cmd.streaming \in BOOLEAN
  BY DEF HandleInstallReady, Handling, GoodCommand, NamesSong, Command
<1>2. /\ PlayerOK(started) /\ started.track.song = co.cmd.song /\ Loaded(started)
      /\ started.track.req = co.cmd.req /\ started.track.streaming = co.cmd.streaming
      /\ started.loading = NoSong /\ started.tgen = player.tgen
      /\ started.expected = player.expected /\ started.prepared = NoCandidate
  BY <1>1, StartTrackInstalls, SongFacts DEF Loaded
<1>3. CASE ~Latest(co.cmd.req)
  BY <1>3 DEF HandleInstallReady
<1>4. CASE Latest(co.cmd.req)
  <2>1. ThenSlot /\ (player' = started \/ player' = AttachStems(started))
    BY <1>4 DEF HandleInstallReady
  <2> HIDE DEF started
  <2>2. CASE player' = started
    BY <1>2, <2>1, <2>2
  <2>3. CASE player' = AttachStems(started)
    BY <1>2, <2>1, <2>3, AttachStemsKeeps DEF Keeps, Loaded
  <2> QED BY <2>1, <2>2, <2>3
<1> QED BY <1>3, <1>4

\* Every step leaves the player alone or uses one operator of the controller.
LEMMA PlayerStaysOK == ASSUME TypeInv, [Next]_vars PROVE PlayerOK(player')
<1>1. PlayerOK(player) /\ co.cmd \in GoodCommand /\ co.cmd \in Command
  BY DEF TypeInv, ChannelTyped, GoodCommand
<1>2. CASE UNCHANGED player
  BY <1>1, <1>2
<1>3. CASE Render
  <2>1. PICK level \in Levels, over \in Clock, overLater \in Clock, overlap \in Overlaps,
             eof \in BOOLEAN : player' = Rendered(player, level, over, overLater, overlap, eof)
    BY <1>3 DEF Render
  <2>2. over \in BOOLEAN /\ overLater \in BOOLEAN
    BY DEF Clock
  <2> QED BY <1>1, <2>1, <2>2, RenderedContinues DEF Continues
<1>4. CASE OutputOpened
  BY <1>1, <1>4, CancelCandidatesContinues DEF OutputOpened, Continues
<1>5. CASE EmitTransition
  <2> DEFINE q == Trimmed(player, player.fade, player.buffering, player.prepared,
                          player.crossfade, NoSong)
  <2>1. player \in Player /\ player.buffering \in BOOLEAN
    BY <1>1 DEF PlayerOK, Player
  <2>2. player' = q
    BY <1>5, <2>1 DEF EmitTransition, Player, Trimmed
  <2>3. Continues(player, q)
    BY <1>1, <2>1, TrimContinues
  <2> QED BY <2>2, <2>3 DEF Continues
<1>6. CASE ClearDirectly
  BY <1>1, <1>6, ClearTrackInstalls DEF ClearDirectly
<1>7. CASE HandleBeginLoad
  BY <1>1, <1>7, StartTrackLoadingInstalls DEF HandleBeginLoad, Handling, GoodCommand, NamesSong
<1>8. CASE HandleInstallReady
  BY <1>1, <1>8, InstallReadySteps
<1>9. CASE HandleFailLoad
  BY <1>1, <1>9, CancelLoadingKeeps DEF HandleFailLoad
<1>10. CASE HandleReplaceStreamingSource
  <2>1. co.cmd.song # NoSong
    BY <1>1, <1>10, SongFacts
       DEF HandleReplaceStreamingSource, Handling, GoodCommand, NamesSong
  <2> QED BY <1>1, <1>10, <2>1, ReplaceSourceKeeps
        DEF HandleReplaceStreamingSource, Keeps, Loaded
<1>11. CASE HandleCancelPreview
  BY <1>1, <1>11, ClearTrackInstalls DEF HandleCancelPreview
<1>12. CASE HandleResume \/ HandlePause \/ HandleSeek
  BY <1>1, <1>12, PlayKeeps, PauseKeeps, SeekKeeps
     DEF HandleResume, HandlePause, HandleSeek, Keeps
<1>13. CASE HandleAttachStems
  <2>1. co.cmd.song # NoSong
    BY <1>1, <1>13, SongFacts DEF HandleAttachStems, Handling, GoodCommand, NamesSong
  <2> QED BY <1>1, <1>13, <2>1, AttachStemsKeeps DEF HandleAttachStems, Keeps, Loaded
<1>14. CASE HandlePrepareNext
  <2> DEFINE c == [song |-> co.cmd.song, gen |-> co.cmd.gen]
             q == [player EXCEPT !.prepared = c]
  <2>1. c \in Candidate /\ c.song \in Preparable
    BY <1>1, <1>14 DEF HandlePrepareNext, Handling, GoodCommand, Command, Candidate
  <2>2. player \in Player
    BY <1>1 DEF PlayerOK
  <2> HIDE DEF c
  <2>3. q \in Player
    BY <2>1, <2>2 DEF Player
  <2>4. /\ q.track = player.track /\ q.loading = player.loading /\ q.prepared = c
        /\ q.announced = player.announced /\ q.crossfade = player.crossfade
    BY <2>2 DEF Player
  <2> HIDE DEF q
  <2>5. PlayerOK(q)
    BY <1>1, <2>1, <2>3, <2>4 DEF PlayerOK, Prepares, Loaded, Loading
  <2> QED BY <1>1, <1>14, <2>5 DEF HandlePrepareNext, q, c
<1>15. CASE HandleCancelPreparedNext
  <2> DEFINE q == [player EXCEPT !.expected = co.cmd.gen, !.prepared = NoCandidate]
  <2>1. /\ co.cmd.gen \in Nat /\ NoCandidate \in Candidate /\ player \in Player
    BY <1>1 DEF GoodCommand, Command, NoCandidate, Candidate, AnySong, PlayerOK
  <2>2. q \in Player
    BY <2>1 DEF Player
  <2>3. /\ q.track = player.track /\ q.loading = player.loading /\ q.prepared = NoCandidate
        /\ q.announced = player.announced /\ q.crossfade = player.crossfade
    BY <2>1 DEF Player
  <2> HIDE DEF q
  <2>4. PlayerOK(q)
    BY <1>1, <2>2, <2>3 DEF PlayerOK, Prepares, Loaded, Loading
  <2> QED BY <1>15, <2>4 DEF HandleCancelPreparedNext, q
<1>16. CASE HandleInvalidateDeletedSongs
  <2>1. co.cmd.song \in Songs
    BY <1>1, <1>16 DEF HandleInvalidateDeletedSongs, Handling, GoodCommand, NamesSong
  <2> QED BY <1>1, <1>16, <2>1, InvalidateSongKeeps DEF HandleInvalidateDeletedSongs
<1>17. CASE ReportInstallOutputFailure
  BY <1>1, <1>17, ClearTrackInstalls DEF ReportInstallOutputFailure
<1> QED
  <2>1. CASE Coordinate
    BY <2>1, <1>2, <1>7, <1>8, <1>9, <1>10, <1>11, <1>12, <1>13, <1>14, <1>15, <1>16, <1>17
       DEF Coordinate, Receive, HandleSlot, EnsureOutput
  <2>2. CASE RebuildOutput \/ ActivateLibrary \/ DeleteRows \/ ClearSlot \/ LoadStems \/ StemsDecoded
    BY <2>2, <1>2 DEF RebuildOutput, ActivateLibrary, DeleteRows, ClearSlot, LoadStems, StemsDecoded
  <2>3. CASE \E r \in Requests : RunLoad(r) \/ FallBackToFullFile(r) \/ Reconnect(r) \/ CancelPreview(r)
    BY <2>3, <1>2 DEF RunLoad, RetirePrevious, EndRetired, Deliver, FallBackToFullFile, Reconnect,
       CancelPreview
  <2>4. CASE \/ \E song \in Songs : Begin(song) \/ DeleteSongs(song) \/ RemoveMissing(song)
             \/ \E op \in {"Resume", "Pause", "Seek"} : TransportCommand(op)
             \/ \E song \in Preparable \cup {NoSong} : SetPreloadCandidate(song)
             \/ \E g \in Preloads : PrepareNextTrack(g) \/ SendPrepared(g)
    BY <2>4, <1>2 DEF Begin, DeleteSongs, RemoveMissing, TransportCommand, SetPreloadCandidate,
       PrepareNextTrack, SendPrepared
  <2>5. CASE UNCHANGED vars
    BY <2>5, <1>2 DEF vars
  <2> QED BY <1>3, <1>4, <1>5, <1>6, <2>1, <2>2, <2>3, <2>4, <2>5 DEF Next, ClearRuntimeState

\* What the messages of each sender look like.
LEMMA SentIsGood ==
    ASSUME NEW c \in GoodCommand, Send(c), queue \in Seq(GoodCommand)
    PROVE  queue' \in Seq(GoodCommand)
BY DEF Send

\* Request ids, candidate ids and formats stay numbers.
LEMMA CountersStayTyped == ASSUME TypeInv, [Next]_vars PROVE CountersTyped'
<1> USE DEF TypeInv, RequestsTyped, CountersTyped, requestVars, historyVars
<1>1. /\ co.cmd.req \in Nat /\ latest + 1 \in Nat /\ \A r \in Requests : r \in Nat
  BY DEF ChannelTyped, GoodCommand, Command, Requests
<1>2. CASE UNCHANGED <<latest, worker, historyVars>>
  BY <1>2
<1>3. CASE \/ HandleBeginLoad \/ HandleCancelPreview \/ HandleInvalidateDeletedSongs
           \/ HandleSeek
  BY <1>1, <1>3 DEF HandleBeginLoad, HandleCancelPreview, HandleInvalidateDeletedSongs,
     HandleSeek, Supersede, handlerRest
<1> QED
  <2>1. CASE Coordinate
    BY <2>1, <1>2, <1>3 DEF Coordinate, Receive, HandleSlot, HandleInstallReady, HandleFailLoad,
       HandleReplaceStreamingSource, HandleResume, HandlePause, HandleAttachStems,
       HandlePrepareNext, HandleCancelPreparedNext, EnsureOutput,
       ReportInstallOutputFailure, handlerRest
  <2>2. CASE \/ Render \/ RebuildOutput \/ OutputOpened \/ EmitTransition \/ ActivateLibrary
             \/ ClearRuntimeState \/ LoadStems \/ StemsDecoded
    BY <2>2, <1>2 DEF Render, RebuildOutput, OutputOpened, EmitTransition, ActivateLibrary,
       ClearRuntimeState, DeleteRows, ClearDirectly, ClearSlot, LoadStems, StemsDecoded
  <2>3. CASE \/ \E song \in Songs : DeleteSongs(song) \/ RemoveMissing(song)
             \/ \E op \in {"Resume", "Pause", "Seek"} : TransportCommand(op)
             \/ \E song \in Preparable \cup {NoSong} : SetPreloadCandidate(song)
             \/ \E g \in Preloads : PrepareNextTrack(g) \/ SendPrepared(g)
             \/ \E r \in Requests : \/ EndRetired(r) \/ Deliver(r) \/ FallBackToFullFile(r)
                                    \/ Reconnect(r) \/ CancelPreview(r)
    BY <2>3, <1>2 DEF DeleteSongs, RemoveMissing, TransportCommand, SetPreloadCandidate,
       PrepareNextTrack, SendPrepared, EndRetired, Deliver, FallBackToFullFile, Reconnect,
       CancelPreview
  <2>4. CASE (\E song \in Songs : Begin(song)) \/ (\E r \in Requests : RetirePrevious(r))
    BY <2>4, <1>1 DEF Begin, RetirePrevious
  <2>5. CASE UNCHANGED vars
    BY <2>5, <1>2 DEF vars
  <2> QED BY <2>1, <2>2, <2>3, <2>4, <2>5 DEF Next, RunLoad

\* One thread, its phase and its flag; every other thread is left alone.
LEMMA LoadStaysGood ==
    ASSUME NEW l \in GoodLoad
    PROVE  /\ Ended(l) \in GoodLoad /\ [l EXCEPT !.retired = TRUE] \in GoodLoad
           /\ \A phase \in LoadPhases :
                phase \in {"none", "done"} \/ l.song \in Songs
                    => [l EXCEPT !.phase = phase] \in GoodLoad
           /\ \A song \in Songs : [song |-> song, phase |-> "begun", retired |-> FALSE] \in GoodLoad
BY DEF GoodLoad, Ended, Load, LoadPhases, AnySong

\* A thread that works or serves has a song that fits its phase.
LEMMA LoadsStayTyped == ASSUME TypeInv, [Next]_vars PROVE loads' \in [Requests -> GoodLoad]
<1> USE DEF TypeInv, RequestsTyped, requestVars
<1>1. CASE UNCHANGED loads
  BY <1>1
<1>2. ASSUME NEW song \in Songs, Begin(song) PROVE loads' \in [Requests -> GoodLoad]
  <2>1. [song |-> song, phase |-> "begun", retired |-> FALSE] \in GoodLoad
    BY DEF GoodLoad, Load, LoadPhases, AnySong
  <2> QED BY <1>2, <2>1 DEF Begin
<1>3. ASSUME NEW r \in Requests
      PROVE  /\ loads[r] \in GoodLoad /\ Ended(loads[r]) \in GoodLoad
             /\ [loads[r] EXCEPT !.retired = TRUE] \in GoodLoad
             /\ loads[r].phase \notin {"none", "done"} =>
                  /\ [loads[r] EXCEPT !.phase = "asked"] \in GoodLoad
                  /\ [loads[r] EXCEPT !.phase = "serving"] \in GoodLoad
  <2>1. loads[r] \in GoodLoad
    OBVIOUS
  <2>2. loads[r].phase \notin {"none", "done"} => loads[r].song \in Songs
    BY <2>1 DEF GoodLoad
  <2> QED BY <2>1, <2>2, LoadStaysGood DEF LoadPhases
<1>4. ASSUME NEW r \in Requests, RetirePrevious(r) PROVE loads' \in [Requests -> GoodLoad]
  BY <1>3, <1>4 DEF RetirePrevious
<1>5. ASSUME NEW r \in Requests, EndRetired(r) \/ Deliver(r) \/ FallBackToFullFile(r) \/ CancelPreview(r)
      PROVE  loads' \in [Requests -> GoodLoad]
  BY <1>3, <1>5 DEF EndRetired, Deliver, FallBackToFullFile, CancelPreview
<1>6. CASE Receive
  BY <1>3, <1>6 DEF Receive
<1>7. CASE HandleSlot
  <2>1. ASSUME co.cmd.op = "BeginLoad", co.cmd.req \in Requests
        PROVE  [loads[co.cmd.req] EXCEPT !.song = co.cmd.song, !.phase = "working"] \in GoodLoad
    <3>1. loads[co.cmd.req] \in GoodLoad /\ co.cmd.song \in Songs
      BY <2>1 DEF ChannelTyped, GoodCommand, NamesSong
    <3> QED BY <3>1 DEF GoodLoad, Load, LoadPhases, AnySong
  <2> QED BY <1>3, <1>7, <2>1 DEF HandleSlot
<1> QED
  <2>1. CASE Coordinate
    BY <2>1, <1>1, <1>6, <1>7 DEF Coordinate, HandleBeginLoad, HandleInstallReady,
       HandleFailLoad, HandleReplaceStreamingSource, HandleCancelPreview, HandleResume,
       HandlePause, HandleSeek, HandleAttachStems, HandlePrepareNext, HandleCancelPreparedNext,
       HandleInvalidateDeletedSongs, EnsureOutput, ReportInstallOutputFailure, handlerRest
  <2>2. CASE \/ Render \/ RebuildOutput \/ OutputOpened \/ EmitTransition \/ ActivateLibrary
             \/ ClearRuntimeState \/ LoadStems \/ StemsDecoded
    BY <2>2, <1>1 DEF Render, RebuildOutput, OutputOpened, EmitTransition, ActivateLibrary,
       ClearRuntimeState, DeleteRows, ClearDirectly, ClearSlot, LoadStems, StemsDecoded
  <2>3. CASE \/ \E song \in Songs : DeleteSongs(song) \/ RemoveMissing(song)
             \/ \E op \in {"Resume", "Pause", "Seek"} : TransportCommand(op)
             \/ \E song \in Preparable \cup {NoSong} : SetPreloadCandidate(song)
             \/ \E g \in Preloads : PrepareNextTrack(g) \/ SendPrepared(g)
             \/ \E r \in Requests : Reconnect(r)
    BY <2>3, <1>1 DEF DeleteSongs, RemoveMissing, TransportCommand, SetPreloadCandidate,
       PrepareNextTrack, SendPrepared, Reconnect
  <2>4. CASE UNCHANGED vars
    BY <2>4, <1>1 DEF vars
  <2> QED BY <1>2, <1>4, <1>5, <2>1, <2>2, <2>3, <2>4 DEF Next, RunLoad

\* Every message is NoCommand with some of its fields set.
Message(op, req, song, streaming, gen, fmt) ==
    [NoCommand EXCEPT !.op = op, !.req = req, !.song = song, !.streaming = streaming,
                      !.gen = gen, !.format = fmt]

\* A message with fields of the right types names a song where it must.
LEMMA MessageIsGood ==
    ASSUME NEW op \in Ops, NEW req \in Nat, NEW song \in AnySong, NEW streaming \in BOOLEAN,
           NEW gen \in Nat, NEW fmt \in Nat,
           op \in NamesSong => song \in Songs, op = "PrepareNext" => song \in Preparable,
           op = "InstallReady" /\ song \in Preparable => streaming
    PROVE  Message(op, req, song, streaming, gen, fmt) \in GoodCommand
BY DEF Message, NoCommand, GoodCommand, Command, Ops

\* The fields of the empty command.
LEMMA NoCommandFields ==
    /\ NoCommand \in Command /\ NoCommand.req = 0 /\ NoCommand.song = NoSong
    /\ NoCommand.streaming = FALSE /\ NoCommand.gen = 0 /\ NoCommand.format = 0
BY DEF NoCommand, Command, AnySong

\* Channel and coordinator hold good commands only.
LEMMA ChannelStaysTyped == ASSUME TypeInv, [Next]_vars PROVE ChannelTyped'
<1> USE DEF ChannelTyped, TypeInv
<1>1. CASE UNCHANGED <<queue, co>>
  BY <1>1
<1>2. ASSUME NEW c \in GoodCommand, Send(c), UNCHANGED co PROVE ChannelTyped'
  BY <1>2, SentIsGood
<1>3. NoCommand \in Command /\ NoCommand \in GoodCommand
  BY DEF NoCommand, GoodCommand, Command, AnySong, NamesSong
<1>4. /\ 0 \in Nat /\ NoSong \in AnySong /\ Songs \subseteq AnySong /\ FALSE \in BOOLEAN
      /\ TRUE \in BOOLEAN /\ NamesSong \subseteq Ops /\ Requests \subseteq Nat
      /\ Preloads \subseteq Nat
  BY DEF AnySong, NamesSong, Ops, Requests, Preloads
<1>5. ASSUME NEW r \in Requests, NEW op \in NamesSong, NEW streaming \in BOOLEAN,
             loads[r].phase \notin {"none", "done"},
             op = "InstallReady" /\ loads[r].song \in Preparable => streaming,
             Send(Message(op, r, loads[r].song, streaming, 0, 0)), UNCHANGED co
      PROVE  ChannelTyped'
  <2>1. loads[r].song \in Songs
    BY <1>5 DEF RequestsTyped, GoodLoad
  <2>2. op # "PrepareNext"
    BY DEF NamesSong
  <2>3. Message(op, r, loads[r].song, streaming, 0, 0) \in GoodCommand
    BY <1>4, <1>5, <2>1, <2>2, MessageIsGood
  <2> QED BY <1>2, <1>5, <2>3
<1>6. ASSUME NEW r \in Requests,
             \/ RetirePrevious(r) \/ Deliver(r) \/ FallBackToFullFile(r) \/ Reconnect(r)
             \/ CancelPreview(r)
      PROVE  ChannelTyped'
  <2> USE DEF NamesSong
  <2> DEFINE Simple(op) == Message(op, r, loads[r].song, FALSE, 0, 0)
             Ready(s) == Message("InstallReady", r, loads[r].song, s, 0, 0)
  <2>7. \A op \in NamesSong :
          [NoCommand EXCEPT !.op = op, !.req = r, !.song = loads[r].song] = Simple(op)
    BY NoCommandFields DEF Message, Command
  <2>8. \A s \in BOOLEAN :
          [NoCommand EXCEPT !.op = "InstallReady", !.req = r, !.song = loads[r].song,
                            !.streaming = s] = Ready(s)
    BY NoCommandFields DEF Message, Command
  <2>9. ASSUME NEW op \in NamesSong, loads[r].phase \notin {"none", "done"}, UNCHANGED co,
               Send(Simple(op)), op = "InstallReady" => loads[r].song \notin Preparable
        PROVE  ChannelTyped'
    BY <1>4, <1>5, <2>9
  <2>10. ASSUME NEW s \in Streaming(loads[r].song), loads[r].phase \notin {"none", "done"},
                Send(Ready(s)), UNCHANGED co
         PROVE  ChannelTyped'
    <3>1. s \in BOOLEAN /\ (loads[r].song \in Preparable => s)
      BY SongFacts DEF Streaming
    <3> QED BY <1>5, <2>10, <3>1
  <2> HIDE DEF Simple, Ready
  <2>1. loads[r].phase \notin {"none", "done"} /\ UNCHANGED co
    BY <1>6 DEF RetirePrevious, Deliver, FallBackToFullFile, Reconnect, CancelPreview
  <2>2. RetirePrevious(r) => UNCHANGED queue \/ Send(Simple("BeginLoad"))
    BY <2>7 DEF RetirePrevious
  <2>3. Deliver(r) => \/ \E s \in Streaming(loads[r].song) : Send(Ready(s))
                      \/ Send(Simple("FailLoad"))
    BY <2>7, <2>8 DEF Deliver, FailLoad, Streaming
  <2>4. FallBackToFullFile(r) => \/ /\ Send(Simple("InstallReady"))
                                    /\ loads[r].song \notin Preparable
                                 \/ Send(Simple("FailLoad")) \/ UNCHANGED queue
    <3>1. FallBackToFullFile(r) => loads[r].song \notin Preparable
      BY SongFacts DEF FallBackToFullFile
    <3> QED BY <2>7, <3>1 DEF FallBackToFullFile, FailLoad
  <2>5. Reconnect(r) => Send(Simple("ReplaceStreamingSource"))
    BY <2>7 DEF Reconnect
  <2>6. CancelPreview(r) => Send(Simple("CancelPreview"))
    BY <2>7 DEF CancelPreview
  <2> QED BY <1>1, <1>6, <2>1, <2>2, <2>3, <2>4, <2>5, <2>6, <2>9, <2>10
<1>7. ASSUME NEW song \in Songs, RemoveMissing(song) PROVE ChannelTyped'
  <2>1. [NoCommand EXCEPT !.op = "InvalidateDeletedSongs", !.song = song] \in GoodCommand
    BY DEF NoCommand, GoodCommand, Command, NamesSong, AnySong, Ops
  <2> QED BY <1>2, <1>7, <2>1 DEF RemoveMissing
<1>8. ASSUME NEW op \in {"Resume", "Pause", "Seek"}, TransportCommand(op) PROVE ChannelTyped'
  <2>1. [NoCommand EXCEPT !.op = op] \in GoodCommand
    BY DEF NoCommand, GoodCommand, Command, NamesSong, AnySong, Ops
  <2> QED BY <1>2, <1>8, <2>1 DEF TransportCommand
<1>9. CASE StemsDecoded
  <2>1. stemsJob.song \in Songs /\ stemsJob.req \in Nat
    BY <1>9 DEF StemsDecoded, CommandsTyped, Job
  <2>2. Message("AttachStems", stemsJob.req, stemsJob.song, FALSE, 0, 0) \in GoodCommand
    BY <1>4, <2>1, MessageIsGood DEF NamesSong
  <2>3. [NoCommand EXCEPT !.op = "AttachStems", !.req = stemsJob.req, !.song = stemsJob.song]
          = Message("AttachStems", stemsJob.req, stemsJob.song, FALSE, 0, 0)
    BY NoCommandFields DEF Message, Command
  <2> QED BY <1>2, <1>9, <2>2, <2>3 DEF StemsDecoded
<1>10. ASSUME NEW song, SetPreloadCandidate(song) PROVE ChannelTyped'
  <2>1. asked + 1 \in Nat
    BY DEF CommandsTyped, PreloadsTyped
  <2> DEFINE c == Message("CancelPreparedNext", 0, NoSong, FALSE, asked + 1, 0)
  <2>2. c \in GoodCommand
    BY <1>4, <2>1, MessageIsGood DEF NamesSong, Ops
  <2>3. [NoCommand EXCEPT !.op = "CancelPreparedNext", !.gen = asked + 1] = c
    BY NoCommandFields DEF Message, Command
  <2> HIDE DEF c
  <2> QED BY <1>2, <1>10, <2>2, <2>3 DEF SetPreloadCandidate
<1>16. ASSUME NEW g \in Preloads, SendPrepared(g) PROVE ChannelTyped'
  <2>1. /\ preloads[g].song \in Preparable /\ preloads[g].song \in AnySong
        /\ preloads[g].format \in Nat /\ g \in Nat
    BY <1>16 DEF SendPrepared, CommandsTyped, PreloadsTyped, Preload, Preloads
  <2> DEFINE c == Message("PrepareNext", 0, preloads[g].song, FALSE, g, preloads[g].format)
  <2>2. c \in GoodCommand
    BY <1>4, <2>1, MessageIsGood DEF NamesSong, Ops
  <2>3. [NoCommand EXCEPT !.op = "PrepareNext", !.song = preloads[g].song, !.gen = g,
                          !.format = preloads[g].format] = c
    BY NoCommandFields DEF Message, Command
  <2> HIDE DEF c
  <2> QED BY <1>2, <1>16, <2>2, <2>3 DEF SendPrepared
<1>11. ASSUME UNCHANGED queue, co' = Idle PROVE ChannelTyped'
  BY <1>3, <1>11 DEF Idle, Working
<1>12. CASE Receive
  <2>1. queue' \in Seq(GoodCommand) /\ Head(queue) \in GoodCommand
    BY <1>12 DEF Receive
  <2> QED BY <1>12, <2>1 DEF Receive, Working, GoodCommand
<1>13. player'.tgen \in Nat
  BY PlayerStaysOK DEF PlayerOK, Player
<1>14. ASSUME UNCHANGED queue, ThenSlot PROVE ChannelTyped'
  BY <1>13, <1>14 DEF ThenSlot, Working
<1>15. ASSUME UNCHANGED queue, NEW stage \in {"output", "failed"},
              co' = [co EXCEPT !.stage = stage]
       PROVE  ChannelTyped'
  BY <1>15 DEF Working
<1> QED
  <2>1. CASE Coordinate
    BY <2>1, <1>1, <1>11, <1>12, <1>14, <1>15 DEF Coordinate, HandleBeginLoad,
       HandleInstallReady, HandleFailLoad, HandleReplaceStreamingSource, HandleCancelPreview,
       HandleResume, HandlePause, HandleSeek, HandleAttachStems, HandlePrepareNext,
       HandleCancelPreparedNext, HandleInvalidateDeletedSongs, HandleSlot, EnsureOutput,
       ReportInstallOutputFailure, handlerRest, ThenIdle
  <2>2. CASE \/ Render \/ RebuildOutput \/ OutputOpened \/ EmitTransition \/ ActivateLibrary
             \/ ClearRuntimeState \/ LoadStems
    BY <2>2, <1>1, <1>11 DEF Render, RebuildOutput, OutputOpened, EmitTransition,
       ActivateLibrary, ClearRuntimeState, DeleteRows, ClearDirectly, ClearSlot, LoadStems
  <2>3. CASE \/ \E song \in Songs : Begin(song) \/ DeleteSongs(song)
             \/ \E g \in Preloads : PrepareNextTrack(g)
             \/ \E r \in Requests : EndRetired(r)
    BY <2>3, <1>1 DEF Begin, DeleteSongs, PrepareNextTrack, EndRetired
  <2>4. CASE UNCHANGED vars
    BY <2>4, <1>1 DEF vars
  <2> QED BY <1>6, <1>7, <1>8, <1>9, <1>10, <1>16, <2>1, <2>2, <2>3, <2>4
        DEF Next, RunLoad

\* What the commands outside the coordinator captured stays typed.
LEMMA CommandsStayTyped == ASSUME TypeInv, [Next]_vars PROVE CommandsTyped'
<1> USE DEF TypeInv, CommandsTyped, preloadVars
<1>1. CASE UNCHANGED <<preloadVars, stemsJob>> /\ inputs' \in Nat
  BY <1>1 DEF PreloadsTyped
<1>2. inputs + 1 \in Nat /\ inputs \in Nat
  BY DEF PreloadsTyped
<1>3. CASE LoadStems
  <2>1. player.track.song \in Songs /\ latest \in Nat
    BY <1>3 DEF LoadStems, RuntimeTyped, RequestsTyped, CountersTyped
  <2> QED BY <1>3, <1>2, <2>1 DEF LoadStems, PreloadsTyped, Job, AnySong, Input
<1>4. CASE StemsDecoded
  BY <1>4 DEF StemsDecoded, NoJob, Job, AnySong, PreloadsTyped
<1>5. ASSUME NEW song \in Preparable \cup {NoSong}, SetPreloadCandidate(song) PROVE CommandsTyped'
  <2>1. song \in AnySong
    BY SongFacts DEF AnySong
  <2> DEFINE new == IF song \in Preparable
                    THEN [song |-> song, phase |-> "spawned", format |-> 0] ELSE DonePreload
  <2>2. /\ new \in Preload
        /\ new.phase \in {"spawned", "prepared"} => new.song \in Preparable
    BY <2>1 DEF Preload, DonePreload, NoPreload, AnySong
  <2>3. asked + 1 \in Nat
    BY DEF PreloadsTyped
  <2> HIDE DEF new
  <2>4. /\ asked' = asked + 1 /\ inputs' = inputs + 1 /\ UNCHANGED stemsJob
        /\ preloads' = [preloads EXCEPT ![asked + 1] = new]
    BY <1>5 DEF SetPreloadCandidate, Input, new
  <2> QED BY <1>2, <2>2, <2>3, <2>4 DEF PreloadsTyped
<1>6. ASSUME NEW g \in Preloads, PrepareNextTrack(g) PROVE CommandsTyped'
  <2>1. preloads[g].song \in Preparable
    BY <1>6 DEF PrepareNextTrack, PreloadsTyped
  <2> QED BY <1>6, <2>1 DEF PrepareNextTrack, PreloadsTyped, Preload, DonePreload,
        NoPreload, RuntimeTyped, AnySong
<1>7. ASSUME NEW g \in Preloads, SendPrepared(g) PROVE CommandsTyped'
  BY <1>7 DEF SendPrepared, PreloadsTyped, Preload, DonePreload, NoPreload, AnySong
<1> QED
  <2>1. CASE Coordinate
    BY <2>1, <1>1, <1>2 DEF Coordinate, Receive, HandleBeginLoad,
       HandleInstallReady, HandleFailLoad, HandleReplaceStreamingSource, HandleCancelPreview,
       HandleResume, HandlePause, HandleSeek, HandleAttachStems, HandlePrepareNext,
       HandleCancelPreparedNext, HandleInvalidateDeletedSongs, HandleSlot, EnsureOutput,
       ReportInstallOutputFailure, handlerRest
  <2>2. CASE \/ Render \/ RebuildOutput \/ OutputOpened \/ EmitTransition \/ ActivateLibrary
             \/ ClearRuntimeState
    BY <2>2, <1>1, <1>2 DEF Render, RebuildOutput, OutputOpened, EmitTransition,
       ActivateLibrary, ClearRuntimeState, DeleteRows, ClearDirectly, ClearSlot, Input
  <2>3. CASE \/ \E song \in Songs : Begin(song) \/ DeleteSongs(song) \/ RemoveMissing(song)
             \/ \E op \in {"Resume", "Pause", "Seek"} : TransportCommand(op)
             \/ \E r \in Requests : \/ RunLoad(r) \/ FallBackToFullFile(r)
                                    \/ Reconnect(r) \/ CancelPreview(r)
    BY <2>3, <1>1, <1>2 DEF Begin, DeleteSongs, RemoveMissing, TransportCommand, RunLoad,
       RetirePrevious, EndRetired, Deliver, FallBackToFullFile, Reconnect, CancelPreview, Input
  <2>4. CASE UNCHANGED vars
    BY <2>4, <1>1, <1>2 DEF vars
  <2> QED BY <1>3, <1>4, <1>5, <1>6, <1>7, <2>1, <2>2, <2>3, <2>4 DEF Next

\* Slot, output and library stay typed.
LEMMA RuntimeStaysTyped == ASSUME TypeInv, [Next]_vars PROVE RuntimeTyped'
<1> USE DEF TypeInv, RuntimeTyped, outputVars
<1>1. CASE UNCHANGED <<slot, outputVars, library, clear>>
  BY <1>1
<1>2. NoSlot \in Slot /\ NoClear \in Clear
  BY DEF NoSlot, Slot, NoClear, Clear, AnySong
<1>3. CASE HandleSlot
  <2>1. co.cmd \in Command /\ co.gen \in Nat
    BY DEF ChannelTyped, GoodCommand, Working
  <2>2. SlotAfter(co.cmd, co.gen) \subseteq Slot
    BY <1>2, <2>1 DEF SlotAfter, MarkCdgSeek, UpdateCdgGeneration, Slot, Command
  <2> QED BY <1>3, <2>2 DEF HandleSlot
<1>4. CASE EnsureOutput \/ RebuildOutput \/ OutputOpened
  BY <1>4 DEF EnsureOutput, RebuildOutput, OutputOpened
<1>5. ASSUME NEW song \in Songs, DeleteSongs(song) PROVE RuntimeTyped'
  <2>1. player.track.song \in AnySong /\ song \in AnySong
    BY DEF PlayerOK, Player, Track, AnySong
  <2> QED BY <1>5, <2>1 DEF DeleteSongs, Clear
<1>6. CASE DeleteRows \/ ActivateLibrary \/ ClearDirectly
  BY <1>2, <1>6 DEF DeleteRows, ActivateLibrary, ClearDirectly, Clear
<1>7. CASE ClearSlot
  BY <1>2, <1>7 DEF ClearSlot
<1>8. ASSUME NEW song \in Songs, RemoveMissing(song) PROVE RuntimeTyped'
  BY <1>8 DEF RemoveMissing
<1> QED
  <2>1. CASE Coordinate
    BY <2>1, <1>1, <1>3, <1>4 DEF Coordinate, Receive, HandleBeginLoad, HandleInstallReady,
       HandleFailLoad, HandleReplaceStreamingSource, HandleCancelPreview, HandleResume,
       HandlePause, HandleSeek, HandleAttachStems, HandlePrepareNext, HandleCancelPreparedNext,
       HandleInvalidateDeletedSongs, ReportInstallOutputFailure, handlerRest
  <2>2. CASE Render \/ EmitTransition \/ LoadStems \/ StemsDecoded
    BY <2>2, <1>1 DEF Render, EmitTransition, LoadStems, StemsDecoded
  <2>3. CASE \/ \E song \in Songs : Begin(song)
             \/ \E op \in {"Resume", "Pause", "Seek"} : TransportCommand(op)
             \/ \E song \in Preparable \cup {NoSong} : SetPreloadCandidate(song)
             \/ \E g \in Preloads : PrepareNextTrack(g) \/ SendPrepared(g)
             \/ \E r \in Requests : \/ RunLoad(r) \/ FallBackToFullFile(r)
                                    \/ Reconnect(r) \/ CancelPreview(r)
    BY <2>3, <1>1 DEF Begin, TransportCommand, SetPreloadCandidate, PrepareNextTrack, SendPrepared,
       RunLoad, RetirePrevious, EndRetired, Deliver, FallBackToFullFile, Reconnect, CancelPreview
  <2>4. CASE UNCHANGED vars
    BY <2>4, <1>1 DEF vars
  <2> QED BY <1>4, <1>5, <1>6, <1>7, <1>8, <2>1, <2>2, <2>3, <2>4 DEF Next, ClearRuntimeState

\* Every step keeps the strengthened type invariant.
LEMMA TypeInvStep == ASSUME TypeInv, [Next]_vars PROVE TypeInv'
<1>1. RequestsTyped'
  BY CountersStayTyped, LoadsStayTyped DEF RequestsTyped
<1> QED BY <1>1, ChannelStaysTyped, CommandsStayTyped, RuntimeStaysTyped, PlayerStaysOK DEF TypeInv

\* It implies the type invariant.
LEMMA TypeInvImpliesTypeOK == TypeInv => TypeOK
<1> SUFFICES ASSUME TypeInv PROVE TypeOK
  OBVIOUS
<1>1. loads \in [Requests -> Load]
  BY DEF TypeInv, RequestsTyped, GoodLoad
<1>2. queue \in Seq(Command)
  BY DEF TypeInv, ChannelTyped, GoodCommand
<1> QED BY <1>1, <1>2 DEF TypeInv, TypeOK, RequestsTyped, CountersTyped, ChannelTyped,
      CommandsTyped, PreloadsTyped, RuntimeTyped, PlayerOK

\* Every variable keeps its type, and no song is loading and loaded at once,
\* whatever handlers, threads, callback and direct clears do to the controller.
THEOREM TypeCorrect == Spec => []TypeOK
<1>1. TypeInv /\ [Next]_vars => TypeInv'
  BY TypeInvStep
<1> QED BY <1>1, TypeInvInit, TypeInvImpliesTypeOK, PTL DEF Spec

\* The strengthened type invariant holds in every state.
THEOREM TypeInvHolds == Spec => []TypeInv
<1>1. TypeInv /\ [Next]_vars => TypeInv'
  BY TypeInvStep
<1> QED BY <1>1, TypeInvInit, PTL DEF Spec

\* A transition the window has not heard of leads to the track that plays
\* (pending_transition_out).
THEOREM AnnouncementsAreCurrent == Spec => []AnnouncedIsCurrent
<1>1. TypeInv => AnnouncedIsCurrent
  BY DEF TypeInv, PlayerOK, AnnouncedIsCurrent
<1> QED BY <1>1, TypeInvHolds, PTL

-----------------------------------------------------------------------------
(* What a step does to the controller and to the channel.                  *)

ExpectationSteps ==
    \/ player'.expected = player.expected
       /\ \/ player'.prepared \in {player.prepared, NoCandidate}
          \/ HandlePrepareNext \/ HandleSeek
    \/ HandleCancelPreparedNext

TrackSteps ==
    /\ Loaded(player') => /\ Loaded(player) /\ player'.track.req = player.track.req
                          /\ player'.track.song \in Preparable \cup {player.track.song}
    /\ \/ player'.tgen = player.tgen
       \/ player'.track.song \in Preparable \cup {NoSong}
       \/ HandleResume \/ HandlePause \/ HandleSeek
    /\ Stopped(player) => ~player'.track.playing \/ HandleResume
    /\ Loaded(player') /\ player.track.streaming
          => /\ player'.track.streaming /\ player'.track.song = player.track.song
             /\ \/ player'.tgen = player.tgen
                \/ HandleResume \/ HandlePause \/ HandleSeek

\* Every step but an installation continues, keeps or clears the track.
LEMMA ControllerSteps ==
    ASSUME TypeInv, [Next]_vars PROVE ExpectationSteps /\ (TrackSteps \/ HandleInstallReady)
<1>1. /\ PlayerOK(player) /\ co.cmd \in GoodCommand /\ co.cmd \in Command /\ player \in Player
      /\ ~NoTrack.playing /\ NoTrack.song = NoSong
  BY DEF TypeInv, ChannelTyped, GoodCommand, PlayerOK, NoTrack
<1> USE DEF ExpectationSteps, TrackSteps
<1>2. CASE Continues(player, player')
  BY <1>1, <1>2 DEF Continues, PlayerOK, Stopped, Loaded
<1>3. CASE UNCHANGED player
  BY <1>1, <1>3, <1>2, Standstill
<1>4. ASSUME Keeps(player, player'), player'.prepared = player.prepared \/ HandleSeek
      PROVE  /\ ExpectationSteps
             /\ Loaded(player') => /\ Loaded(player) /\ player'.track.req = player.track.req
                                   /\ player'.track.song \in Preparable \cup {player.track.song}
             /\ player'.track.song = player.track.song
             /\ player.track.streaming => player'.track.streaming
  BY <1>4 DEF Keeps, Loaded
<1>5. CASE Render
  <2>1. PICK level \in Levels, over \in Clock, overLater \in Clock, overlap \in Overlaps,
             eof \in BOOLEAN : player' = Rendered(player, level, over, overLater, overlap, eof)
    BY <1>5 DEF Render
  <2>2. over \in BOOLEAN /\ overLater \in BOOLEAN
    BY DEF Clock
  <2>3. Continues(player, player')
    BY <1>1, <2>1, <2>2, RenderedContinues
  <2> QED BY <1>2, <2>3
<1>6. CASE OutputOpened
  <2>1. Continues(player, player')
    BY <1>1, <1>6, Standstill, CancelCandidatesContinues DEF OutputOpened
  <2> QED BY <1>2, <2>1
<1>7. CASE EmitTransition
  <2> DEFINE q == Trimmed(player, player.fade, player.buffering, player.prepared,
                          player.crossfade, NoSong)
  <2>1. player.buffering \in BOOLEAN
    BY <1>1 DEF Player
  <2>2. player' = q
    BY <1>1, <1>7, <2>1 DEF EmitTransition, Player, Trimmed
  <2>3. Continues(player, player')
    BY <1>1, <2>1, <2>2, TrimContinues
  <2> QED BY <1>2, <2>3
<1>8. CASE ClearDirectly \/ ReportInstallOutputFailure \/ HandleCancelPreview
  <2>1. player' \in {player, ClearTrack(player)}
    BY <1>8 DEF ClearDirectly, ReportInstallOutputFailure, HandleCancelPreview
  <2> QED BY <1>1, <1>3, <2>1, ClearTrackInstalls DEF Loaded
<1>9. CASE HandleBeginLoad
  <2>1. co.cmd.song \in Songs /\ player' = StartTrackLoading(player, co.cmd.song)
    BY <1>1, <1>9 DEF HandleBeginLoad, Handling, GoodCommand, NamesSong
  <2> QED BY <1>1, <2>1, StartTrackLoadingInstalls DEF Loaded
<1>10. CASE HandleInstallReady
  BY <1>1, <1>3, <1>10, InstallReadySteps
<1>11. CASE HandleFailLoad
  <2>1. player' \in {player, CancelLoading(player)}
    BY <1>11 DEF HandleFailLoad
  <2> QED BY <1>1, <1>3, <2>1, CancelLoadingKeeps DEF Loaded, Stopped
<1>12. CASE HandleReplaceStreamingSource
  <2>1. co.cmd.song # NoSong
    BY <1>1, <1>12, SongFacts
       DEF HandleReplaceStreamingSource, Handling, GoodCommand, NamesSong
  <2>2. CASE Loaded(player) /\ \E toEnd \in BOOLEAN : player' = ReplaceStreamingSource(player, toEnd)
    BY <1>1, <1>4, <2>2, ReplaceSourceKeeps DEF Stopped
  <2> QED BY <1>3, <1>12, <2>1, <2>2 DEF HandleReplaceStreamingSource, Loaded
<1>13. CASE HandleResume
  <2>1. player' \in {player, Play(player)}
    BY <1>13 DEF HandleResume
  <2> QED BY <1>1, <1>3, <1>4, <1>13, <2>1, PlayKeeps
<1>14. CASE HandlePause
  <2>1. player' \in {player, Pause(player)}
    BY <1>14 DEF HandlePause
  <2> QED BY <1>1, <1>3, <1>4, <1>14, <2>1, PauseKeeps DEF Stopped
<1>15. CASE HandleSeek
  <2>1. player' = player \/ \E toEnd \in BOOLEAN : player' = SeekTo(player, toEnd)
    BY <1>15 DEF HandleSeek
  <2> QED BY <1>1, <1>3, <1>4, <1>15, <2>1, SeekKeeps DEF Stopped
<1>16. CASE HandleAttachStems
  <2>1. co.cmd.song # NoSong
    BY <1>1, <1>16, SongFacts DEF HandleAttachStems, Handling, GoodCommand, NamesSong
  <2>2. CASE Loaded(player) /\ player' = AttachStems(player)
    BY <1>1, <2>2, AttachStemsKeeps DEF Stopped, Keeps, Loaded
  <2> QED BY <1>3, <1>16, <2>1, <2>2 DEF HandleAttachStems, Loaded
<1>17. CASE HandlePrepareNext
  <2>1. \/ player' = player
        \/ player' = [player EXCEPT !.prepared = [song |-> co.cmd.song, gen |-> co.cmd.gen]]
    BY <1>17 DEF HandlePrepareNext
  <2>2. /\ player'.track = player.track /\ player'.tgen = player.tgen
        /\ player'.expected = player.expected
    BY <1>1, <2>1 DEF Player
  <2> QED BY <1>17, <2>2 DEF Loaded, Stopped
<1>18. CASE HandleCancelPreparedNext
  <2>1. player'.track = player.track /\ player'.tgen = player.tgen
    BY <1>1, <1>18 DEF HandleCancelPreparedNext, Player
  <2> QED BY <1>18, <2>1 DEF Loaded, Stopped
<1>19. CASE HandleInvalidateDeletedSongs
  <2>1. co.cmd.song \in Songs /\ player' = InvalidateSong(player, co.cmd.song)
    BY <1>1, <1>19 DEF HandleInvalidateDeletedSongs, Handling, GoodCommand, NamesSong
  <2> QED BY <1>1, <2>1, InvalidateSongKeeps DEF Loaded
<1> QED
  <2>1. CASE Coordinate
    BY <2>1, <1>3, <1>8, <1>9, <1>10, <1>11, <1>12, <1>13, <1>14, <1>15, <1>16, <1>17, <1>18, <1>19
       DEF Coordinate, Receive, HandleSlot, EnsureOutput
  <2>2. CASE RebuildOutput \/ ActivateLibrary \/ DeleteRows \/ ClearSlot \/ LoadStems \/ StemsDecoded
    BY <2>2, <1>3 DEF RebuildOutput, ActivateLibrary, DeleteRows, ClearSlot, LoadStems, StemsDecoded
  <2>3. CASE \E r \in Requests : RunLoad(r) \/ FallBackToFullFile(r) \/ Reconnect(r) \/ CancelPreview(r)
    BY <2>3, <1>3 DEF RunLoad, RetirePrevious, EndRetired, Deliver, FallBackToFullFile, Reconnect,
       CancelPreview
  <2>4. CASE \/ \E song \in Songs : Begin(song) \/ DeleteSongs(song) \/ RemoveMissing(song)
             \/ \E op \in {"Resume", "Pause", "Seek"} : TransportCommand(op)
             \/ \E song \in Preparable \cup {NoSong} : SetPreloadCandidate(song)
             \/ \E g \in Preloads : PrepareNextTrack(g) \/ SendPrepared(g)
    BY <2>4, <1>3 DEF Begin, DeleteSongs, RemoveMissing, TransportCommand, SetPreloadCandidate,
       PrepareNextTrack, SendPrepared
  <2>5. CASE UNCHANGED vars
    BY <2>5, <1>3 DEF vars
  <2> QED BY <1>5, <1>6, <1>7, <1>8, <2>1, <2>2, <2>3, <2>4, <2>5 DEF Next, ClearRuntimeState

\* A track that stopped starts only by a resume or a new installation
\* (current_track_is_playing).
THEOREM StoppedTracksStayStopped == Spec => StoppedStaysStopped
<1> DEFINE A == Stopped(player) /\ player'.track.playing
                  => Handling("Resume") \/ Handling("InstallReady")
<1>1. TypeInv /\ [Next]_vars => A
  BY ControllerSteps DEF TrackSteps, HandleResume, HandleInstallReady
<1>2. TypeInv /\ [Next]_vars => [A]_vars
  BY <1>1
<1> QED BY <1>2, TypeInvHolds, PTL DEF Spec, StoppedStaysStopped

\* Who sends what.
SentBy(c) ==
    /\ Send(c) /\ UNCHANGED <<latest, co, player, slot, begun, dismissed, recalled>>
    /\ c.op = "InstallReady" =>
         \E r \in Requests : c.req = r /\ loads[r].phase \in {"working", "serving"}
    /\ IF c.op = "CancelPreparedNext" THEN asked' = asked + 1 /\ c.gen = asked + 1
       ELSE asked' = asked

QueueSteps ==
    \/ UNCHANGED <<queue, asked>>
    \/ Receive /\ UNCHANGED asked
    \/ \E c : SentBy(c)

\* Every step sends one command, takes one, or leaves the channel alone.
LEMMA ChannelSteps == ASSUME TypeInv, [Next]_vars PROVE QueueSteps
<1> USE DEF QueueSteps, preloadVars, requestVars, historyVars
<1>1. CASE UNCHANGED <<queue, asked>>
  BY <1>1
<1>2. ASSUME NEW c, Send(c), UNCHANGED <<latest, co, player, slot, begun, dismissed, recalled, asked>>,
             c.op \notin {"CancelPreparedNext"},
             c.op = "InstallReady" =>
               \E r \in Requests : c.req = r /\ loads[r].phase \in {"working", "serving"}
      PROVE  QueueSteps
  BY <1>2 DEF SentBy
<1>3. ASSUME NEW r \in Requests,
             RetirePrevious(r) \/ Deliver(r) \/ FallBackToFullFile(r) \/ Reconnect(r) \/ CancelPreview(r)
      PROVE  QueueSteps
  <2> USE DEF NamesSong
  <2> DEFINE Simple(op) == Message(op, r, loads[r].song, FALSE, 0, 0)
             Ready(s) == Message("InstallReady", r, loads[r].song, s, 0, 0)
  <2>1. \A op \in NamesSong :
          [NoCommand EXCEPT !.op = op, !.req = r, !.song = loads[r].song] = Simple(op)
    BY NoCommandFields DEF Message, Command
  <2>2. \A s \in BOOLEAN :
          [NoCommand EXCEPT !.op = "InstallReady", !.req = r, !.song = loads[r].song,
                            !.streaming = s] = Ready(s)
    BY NoCommandFields DEF Message, Command
  <2>3. /\ \A op \in NamesSong : Simple(op).op = op /\ Simple(op).req = r
        /\ \A s \in BOOLEAN : Ready(s).op = "InstallReady" /\ Ready(s).req = r
    BY NoCommandFields DEF Message, Command
  <2> HIDE DEF Simple, Ready
  <2>4. \/ UNCHANGED queue
        \/ \E op \in {"BeginLoad", "FailLoad", "ReplaceStreamingSource", "CancelPreview"} :
             Send(Simple(op))
        \/ /\ (\E s \in BOOLEAN : Send(Ready(s))) \/ Send(Simple("InstallReady"))
           /\ loads[r].phase \in {"working", "serving"}
    BY <1>3, <2>1, <2>2 DEF RetirePrevious, Deliver, FallBackToFullFile, FailLoad, Reconnect,
       CancelPreview, Streaming
  <2>5. UNCHANGED <<latest, co, player, slot, begun, dismissed, recalled, asked>>
    BY <1>3 DEF RetirePrevious, Deliver, FallBackToFullFile, Reconnect, CancelPreview
  <2>6. CASE UNCHANGED queue
    BY <1>1, <2>5, <2>6
  <2>7. ASSUME NEW op \in {"BeginLoad", "FailLoad", "ReplaceStreamingSource", "CancelPreview"},
               Send(Simple(op))
        PROVE  QueueSteps
    BY <1>2, <2>3, <2>5, <2>7
  <2>8. CASE /\ (\E s \in BOOLEAN : Send(Ready(s))) \/ Send(Simple("InstallReady"))
             /\ loads[r].phase \in {"working", "serving"}
    BY <1>2, <2>3, <2>5, <2>8
  <2> QED BY <2>4, <2>6, <2>7, <2>8
<1>4. ASSUME NEW song \in Songs, RemoveMissing(song) PROVE QueueSteps
  <2>1. [NoCommand EXCEPT !.op = "InvalidateDeletedSongs", !.song = song].op = "InvalidateDeletedSongs"
    BY DEF NoCommand
  <2> QED BY <1>2, <1>4, <2>1 DEF RemoveMissing
<1>5. ASSUME NEW op \in {"Resume", "Pause", "Seek"}, TransportCommand(op) PROVE QueueSteps
  <2>1. [NoCommand EXCEPT !.op = op].op = op
    BY DEF NoCommand
  <2> QED BY <1>2, <1>5, <2>1 DEF TransportCommand
<1>6. CASE StemsDecoded
  <2>1. [NoCommand EXCEPT !.op = "AttachStems", !.req = stemsJob.req, !.song = stemsJob.song].op
          = "AttachStems"
    BY DEF NoCommand
  <2> QED BY <1>2, <1>6, <2>1 DEF StemsDecoded
<1>7. ASSUME NEW g \in Preloads, SendPrepared(g) PROVE QueueSteps
  <2>1. [NoCommand EXCEPT !.op = "PrepareNext", !.song = preloads[g].song, !.gen = g,
                          !.format = preloads[g].format].op = "PrepareNext"
    BY DEF NoCommand
  <2> QED BY <1>2, <1>7, <2>1 DEF SendPrepared
<1>8. ASSUME NEW song, SetPreloadCandidate(song) PROVE QueueSteps
  <2> DEFINE c == [NoCommand EXCEPT !.op = "CancelPreparedNext", !.gen = asked + 1]
  <2>1. c.op = "CancelPreparedNext" /\ c.gen = asked + 1
    BY DEF NoCommand
  <2>2. Send(c) /\ asked' = asked + 1
        /\ UNCHANGED <<latest, co, player, slot, begun, dismissed, recalled>>
    BY <1>8 DEF SetPreloadCandidate
  <2> HIDE DEF c
  <2> QED BY <2>1, <2>2 DEF SentBy
<1>9. CASE Receive
  BY <1>9 DEF Receive
<1> QED
  <2>1. CASE Coordinate
    BY <2>1, <1>1, <1>9 DEF Coordinate, HandleBeginLoad,
       HandleInstallReady, HandleFailLoad, HandleReplaceStreamingSource, HandleCancelPreview,
       HandleResume, HandlePause, HandleSeek, HandleAttachStems, HandlePrepareNext,
       HandleCancelPreparedNext, HandleInvalidateDeletedSongs, HandleSlot, EnsureOutput,
       ReportInstallOutputFailure, handlerRest
  <2>2. CASE \/ Render \/ RebuildOutput \/ OutputOpened \/ EmitTransition \/ ActivateLibrary
             \/ ClearRuntimeState \/ LoadStems
    BY <2>2, <1>1 DEF Render, RebuildOutput, OutputOpened, EmitTransition,
       ActivateLibrary, ClearRuntimeState, DeleteRows, ClearDirectly, ClearSlot, LoadStems
  <2>3. CASE \/ \E song \in Songs : Begin(song) \/ DeleteSongs(song)
             \/ \E g \in Preloads : PrepareNextTrack(g)
             \/ \E r \in Requests : EndRetired(r)
    BY <2>3, <1>1 DEF Begin, DeleteSongs, PrepareNextTrack, EndRetired
  <2>4. CASE UNCHANGED vars
    BY <2>4, <1>1 DEF vars
  <2> QED BY <1>3, <1>4, <1>5, <1>6, <1>7, <1>8, <2>1, <2>2, <2>3, <2>4 DEF Next, RunLoad

-----------------------------------------------------------------------------
(* The request that plays.                                                 *)

\* No track is delivered before the loading state of its request was shown.
DeliveredFor(request) == {c \in Command : c.op = "InstallReady" => c.req <= request}

DeliveriesBegun ==
    /\ queue \in Seq(DeliveredFor(begun)) /\ co.cmd \in DeliveredFor(begun)
    /\ \A r \in Requests : loads[r].phase \in {"working", "serving"} => r <= begun

BeginsInOrder ==
    /\ begun <= latest
    /\ Handling("BeginLoad") => begun <= co.cmd.req /\ co.cmd.req <= latest
    /\ co.stage = "slot" /\ co.cmd.op = "BeginLoad" => co.cmd.req <= begun

DismissedAreOld == \A r \in dismissed : r < latest

RequestInv ==
    /\ TypeInv
    /\ DeliveriesBegun /\ BeginsInOrder /\ DismissedAreOld
    /\ LatestRequestWins /\ DismissedStaysGone

\* Initially nothing was requested.
LEMMA RequestInvInit == Init => RequestInv
<1> SUFFICES ASSUME Init PROVE RequestInv
  OBVIOUS
<1>1. ~Loaded(player) /\ co.stage = "idle" /\ co.cmd = NoCommand
  BY DEF Init, NoTrack, Loaded, Idle
<1>2. DeliveriesBegun
  BY <1>1, NoCommandFields DEF Init, DeliveriesBegun, DeliveredFor, NoLoad, NoCommand
<1> QED BY <1>1, <1>2, TypeInvInit DEF Init, RequestInv, BeginsInOrder, DismissedAreOld,
      LatestRequestWins, DismissedStaysGone, Handling

\* The types of the request ids.
LEMMA RequestTypes ==
    ASSUME TypeInv
    PROVE  /\ latest \in Nat /\ begun \in Nat /\ dismissed \subseteq Nat
           /\ co.cmd \in Command /\ co.cmd.req \in Nat
BY DEF TypeInv, RequestsTyped, CountersTyped, ChannelTyped, GoodCommand, Command

\* The loading state of a request is shown only while no newer one's is.
LEMMA BegunGrows ==
    ASSUME RequestInv, [Next]_vars
    PROVE  /\ begun <= begun' /\ latest <= latest' /\ begun' <= latest'
           /\ begun' # begun => HandleBeginLoad
<1>1. latest \in Nat /\ begun \in Nat /\ co.cmd.req \in Nat
  BY RequestTypes DEF RequestInv
<1>2. CASE UNCHANGED begun /\ latest' \in {latest, latest + 1}
  BY <1>1, <1>2 DEF RequestInv, BeginsInOrder
<1>3. CASE HandleBeginLoad
  BY <1>1, <1>3 DEF HandleBeginLoad, RequestInv, BeginsInOrder
<1> USE DEF historyVars, requestVars
<1> QED
  <2>1. CASE Coordinate
    BY <2>1, <1>2, <1>3 DEF Coordinate, Receive, HandleSlot, HandleInstallReady, HandleFailLoad,
       HandleReplaceStreamingSource, HandleResume, HandlePause, HandleAttachStems, HandleSeek,
       HandlePrepareNext, HandleCancelPreparedNext, EnsureOutput, HandleCancelPreview,
       HandleInvalidateDeletedSongs, Supersede, ReportInstallOutputFailure
  <2>2. CASE \/ Render \/ RebuildOutput \/ OutputOpened \/ EmitTransition \/ ActivateLibrary
             \/ ClearRuntimeState \/ LoadStems \/ StemsDecoded
    BY <2>2, <1>2 DEF Render, RebuildOutput, OutputOpened, EmitTransition, ActivateLibrary,
       ClearRuntimeState, DeleteRows, ClearDirectly, ClearSlot, LoadStems, StemsDecoded
  <2>3. CASE \/ \E song \in Songs : Begin(song) \/ DeleteSongs(song) \/ RemoveMissing(song)
             \/ \E op \in {"Resume", "Pause", "Seek"} : TransportCommand(op)
             \/ \E song \in Preparable \cup {NoSong} : SetPreloadCandidate(song)
             \/ \E g \in Preloads : PrepareNextTrack(g) \/ SendPrepared(g)
             \/ \E r \in Requests : \/ RunLoad(r) \/ FallBackToFullFile(r)
                                    \/ Reconnect(r) \/ CancelPreview(r)
    BY <2>3, <1>2 DEF Begin, DeleteSongs, RemoveMissing, TransportCommand, SetPreloadCandidate,
       PrepareNextTrack, SendPrepared, RunLoad, RetirePrevious, EndRetired, Deliver,
       FallBackToFullFile, Reconnect, CancelPreview
  <2>4. CASE UNCHANGED vars
    BY <2>4, <1>2 DEF vars
  <2> QED BY <2>1, <2>2, <2>3, <2>4 DEF Next

\* Threads start working only after their request has begun.
LEMMA WorkStartsBegun ==
    ASSUME RequestInv, [Next]_vars
    PROVE  \A r \in Requests :
             loads'[r].phase \in {"working", "serving"} =>
               \/ loads[r].phase \in {"working", "serving"}
               \/ HandleSlot /\ co.cmd.op = "BeginLoad" /\ r = co.cmd.req
<1>1. loads \in [Requests -> GoodLoad]
  BY DEF RequestInv, TypeInv, RequestsTyped
<1>2. CASE UNCHANGED loads
  BY <1>2
<1>3. CASE Receive
  BY <1>1, <1>3 DEF Receive, Ended, GoodLoad, Load
<1>4. CASE HandleSlot
  BY <1>1, <1>4 DEF HandleSlot, GoodLoad, Load
<1>5. ASSUME NEW song \in Songs, Begin(song)
      PROVE  \A r \in Requests : loads'[r].phase \in {"working", "serving"}
                                  => loads[r].phase \in {"working", "serving"}
  BY <1>1, <1>5 DEF Begin
<1>6. ASSUME NEW q \in Requests, RunLoad(q) \/ FallBackToFullFile(q) \/ CancelPreview(q)
      PROVE  \A r \in Requests : loads'[r].phase \in {"working", "serving"}
                                  => loads[r].phase \in {"working", "serving"}
  <2>1. \A r \in Requests : /\ Ended(loads[r]).phase = "done"
                            /\ [loads[r] EXCEPT !.retired = TRUE].phase = loads[r].phase
                            /\ [loads[r] EXCEPT !.phase = "asked"].phase = "asked"
    BY <1>1 DEF Ended, GoodLoad, Load
  <2>2. CASE RetirePrevious(q)
    BY <1>1, <2>1, <2>2 DEF RetirePrevious
  <2>3. CASE Deliver(q)
    <3>1. loads[q].phase = "working" /\ \A r \in Requests \ {q} : loads'[r] = loads[r]
      BY <1>1, <2>3 DEF Deliver
    <3> QED BY <3>1
  <2>4. CASE EndRetired(q) \/ FallBackToFullFile(q) \/ CancelPreview(q)
    <3>1. \A r \in Requests :
            loads'[r] \in {loads[r], Ended(loads[r]), [loads[r] EXCEPT !.retired = TRUE]}
      BY <1>1, <2>4 DEF EndRetired, FallBackToFullFile, CancelPreview
    <3> QED BY <2>1, <3>1
  <2> QED BY <1>6, <2>2, <2>3, <2>4 DEF RunLoad
<1> USE DEF requestVars
<1> QED
  <2>1. CASE Coordinate
    BY <2>1, <1>2, <1>3, <1>4 DEF Coordinate, HandleBeginLoad, HandleInstallReady,
       HandleFailLoad, HandleReplaceStreamingSource, HandleCancelPreview, HandleResume,
       HandlePause, HandleSeek, HandleAttachStems, HandlePrepareNext, HandleCancelPreparedNext,
       HandleInvalidateDeletedSongs, EnsureOutput, ReportInstallOutputFailure, handlerRest
  <2>2. CASE \/ Render \/ RebuildOutput \/ OutputOpened \/ EmitTransition \/ ActivateLibrary
             \/ ClearRuntimeState \/ LoadStems \/ StemsDecoded
    BY <2>2, <1>2 DEF Render, RebuildOutput, OutputOpened, EmitTransition, ActivateLibrary,
       ClearRuntimeState, DeleteRows, ClearDirectly, ClearSlot, LoadStems, StemsDecoded
  <2>3. CASE \/ \E song \in Songs : DeleteSongs(song) \/ RemoveMissing(song)
             \/ \E op \in {"Resume", "Pause", "Seek"} : TransportCommand(op)
             \/ \E song \in Preparable \cup {NoSong} : SetPreloadCandidate(song)
             \/ \E g \in Preloads : PrepareNextTrack(g) \/ SendPrepared(g)
             \/ \E r \in Requests : Reconnect(r)
    BY <2>3, <1>2 DEF DeleteSongs, RemoveMissing, TransportCommand, SetPreloadCandidate,
       PrepareNextTrack, SendPrepared, Reconnect
  <2>4. CASE UNCHANGED vars
    BY <2>4, <1>2 DEF vars
  <2> QED BY <1>5, <1>6, <2>1, <2>2, <2>3, <2>4 DEF Next

\* What is delivered or installed is of a request that has begun.
LEMMA DeliveriesStayBegun == ASSUME RequestInv, [Next]_vars PROVE DeliveriesBegun'
<1> DEFINE D == DeliveredFor(begun)
           E == DeliveredFor(begun')
<1>1. /\ TypeInv /\ queue \in Seq(D) /\ co.cmd \in D /\ latest \in Nat /\ begun \in Nat
      /\ begun' \in Nat
  BY RequestTypes, CountersStayTyped DEF RequestInv, DeliveriesBegun, CountersTyped
<1>2. begun <= begun'
  BY BegunGrows
<1>3. D \subseteq E
  BY <1>1, <1>2 DEF DeliveredFor, Command
<1>4. queue' \in Seq(E)
  <2>1. queue \in Seq(E)
    <3> HIDE DEF D, E
    <3> QED BY <1>1, <1>3
  <2>2. CASE UNCHANGED queue
    BY <2>1, <2>2
  <2>3. CASE Receive
    <3> HIDE DEF E
    <3> QED BY <2>1, <2>3 DEF Receive
  <2>4. ASSUME NEW c, SentBy(c) PROVE queue' \in Seq(E)
    <3>1. queue' = Append(queue, c) /\ begun' = begun
      BY <2>4 DEF SentBy, Send
    <3>2. queue' \in Seq(GoodCommand)
      BY <1>1, ChannelStaysTyped DEF ChannelTyped
    <3>3. queue \in Seq(GoodCommand)
      BY <1>1 DEF TypeInv, ChannelTyped
    <3>4. c \in GoodCommand
      <4>1. Len(queue) + 1 \in 1..Len(queue') /\ queue'[Len(queue) + 1] = c
        BY <3>1, <3>3
      <4> QED BY <3>2, <4>1
    <3>5. c.op = "InstallReady" => c.req <= begun
      BY <2>4 DEF SentBy, RequestInv, DeliveriesBegun
    <3>6. c \in E
      BY <3>1, <3>4, <3>5 DEF DeliveredFor, GoodCommand
    <3> HIDE DEF E
    <3> QED BY <2>1, <3>1, <3>6
  <2> QED BY <1>1, <2>2, <2>3, <2>4, ChannelSteps DEF QueueSteps
<1>5. co'.cmd \in E
  <2>1. NoCommand \in E
    BY NoCommandFields DEF DeliveredFor, NoCommand
  <2>2. CASE Receive
    <3> HIDE DEF D, E
    <3> QED BY <1>1, <1>3, <2>2 DEF Receive
  <2>3. co' \in {co, Idle} \/ (\E stage, g : co' = [co EXCEPT !.stage = stage, !.gen = g]) \/ Receive
    <3> USE DEF vars
    <3>1. ThenSlot => \E stage, g : co' = [co EXCEPT !.stage = stage, !.gen = g]
      BY DEF ThenSlot
    <3>2. ASSUME NEW x, co' = [co EXCEPT !.stage = x]
          PROVE  \E stage, g : co' = [co EXCEPT !.stage = stage, !.gen = g]
      <4>1. co \in Working
        BY <1>1 DEF TypeInv, ChannelTyped
      <4>2. [co EXCEPT !.stage = x] = [co EXCEPT !.stage = x, !.gen = co.gen]
        BY <4>1 DEF Working
      <4> QED BY <3>2, <4>2
    <3>3. CASE Coordinate
      BY <3>3, <3>1, <3>2 DEF Coordinate, HandleBeginLoad, HandleInstallReady, HandleFailLoad,
         HandleReplaceStreamingSource, HandleCancelPreview, HandleResume, HandlePause, HandleSeek,
         HandleAttachStems, HandlePrepareNext, HandleCancelPreparedNext,
         HandleInvalidateDeletedSongs, HandleSlot, EnsureOutput, ReportInstallOutputFailure,
         ThenIdle
    <3>4. CASE \/ Render \/ RebuildOutput \/ OutputOpened \/ EmitTransition \/ ActivateLibrary
               \/ ClearRuntimeState \/ LoadStems \/ StemsDecoded
      BY <3>4 DEF Render, RebuildOutput, OutputOpened, EmitTransition, ActivateLibrary,
         ClearRuntimeState, DeleteRows, ClearDirectly, ClearSlot, LoadStems, StemsDecoded
    <3>5. CASE \/ \E song \in Songs : Begin(song) \/ DeleteSongs(song) \/ RemoveMissing(song)
               \/ \E op \in {"Resume", "Pause", "Seek"} : TransportCommand(op)
               \/ \E song \in Preparable \cup {NoSong} : SetPreloadCandidate(song)
               \/ \E g \in Preloads : PrepareNextTrack(g) \/ SendPrepared(g)
               \/ \E r \in Requests : \/ RunLoad(r) \/ FallBackToFullFile(r)
                                      \/ Reconnect(r) \/ CancelPreview(r)
      BY <3>5 DEF Begin, DeleteSongs, RemoveMissing, TransportCommand, SetPreloadCandidate,
         PrepareNextTrack, SendPrepared, RunLoad, RetirePrevious, EndRetired, Deliver,
         FallBackToFullFile, Reconnect, CancelPreview
    <3> QED BY <3>3, <3>4, <3>5 DEF Next
  <2>4. \A stage, g : [co EXCEPT !.stage = stage, !.gen = g].cmd = co.cmd
    BY <1>1 DEF TypeInv, ChannelTyped, Working
  <2>5. Idle.cmd = NoCommand
    BY DEF Idle
  <2> HIDE DEF D, E
  <2> QED BY <1>1, <1>3, <2>1, <2>2, <2>3, <2>4, <2>5
<1>6. \A r \in Requests : loads'[r].phase \in {"working", "serving"} => r <= begun'
  <2> TAKE r \in Requests
  <2> HAVE loads'[r].phase \in {"working", "serving"}
  <2>1. CASE loads[r].phase \in {"working", "serving"}
    BY <1>1, <1>2, <2>1 DEF RequestInv, DeliveriesBegun, Requests
  <2>2. CASE HandleSlot /\ co.cmd.op = "BeginLoad" /\ r = co.cmd.req
    BY <1>1, <1>2, <2>2 DEF RequestInv, BeginsInOrder, HandleSlot, Requests
  <2> QED BY <2>1, <2>2, WorkStartsBegun
<1> QED BY <1>4, <1>5, <1>6 DEF DeliveriesBegun

\* Which commands withdraw a request, and what plays afterwards.
LEMMA DismissalSteps ==
    ASSUME RequestInv, [Next]_vars
    PROVE  \/ UNCHANGED dismissed
           \/ /\ ~Loaded(player') /\ latest' = latest + 1
              /\ dismissed' \in {dismissed \cup {begun}, dismissed \cup {latest}}
<1>1. PlayerOK(player) /\ co.cmd \in GoodCommand
  BY DEF RequestInv, TypeInv, ChannelTyped
<1>2. CASE HandleCancelPreview
  BY <1>1, <1>2, ClearTrackInstalls DEF HandleCancelPreview, Supersede, Latest, Loaded, NoTrack
<1>3. CASE HandleInvalidateDeletedSongs
  <2>1. co.cmd.song \in Songs /\ player' = InvalidateSong(player, co.cmd.song)
    BY <1>1, <1>3 DEF HandleInvalidateDeletedSongs, Handling, GoodCommand, NamesSong
  <2>2. CASE player.loading = co.cmd.song
    <3>1. ~Loaded(player)
      BY <1>1, <2>1, <2>2, SongFacts DEF PlayerOK, Loading
    <3>2. ~Loaded(player')
      BY <1>1, <2>1, <3>1, InvalidateSongKeeps DEF Loaded, NoTrack
    <3> QED BY <1>3, <2>2, <3>2 DEF HandleInvalidateDeletedSongs, Supersede
  <2> QED BY <1>3, <2>2 DEF HandleInvalidateDeletedSongs
<1> USE DEF historyVars
<1> QED
  <2>1. CASE Coordinate
    BY <2>1, <1>2, <1>3 DEF Coordinate, Receive, HandleBeginLoad, HandleInstallReady,
       HandleFailLoad, HandleReplaceStreamingSource, HandleResume, HandlePause, HandleSeek,
       HandleAttachStems, HandlePrepareNext, HandleCancelPreparedNext, HandleSlot, EnsureOutput,
       ReportInstallOutputFailure
  <2>2. CASE \/ Render \/ RebuildOutput \/ OutputOpened \/ EmitTransition \/ ActivateLibrary
             \/ ClearRuntimeState \/ LoadStems \/ StemsDecoded
    BY <2>2 DEF Render, RebuildOutput, OutputOpened, EmitTransition, ActivateLibrary,
       ClearRuntimeState, DeleteRows, ClearDirectly, ClearSlot, LoadStems, StemsDecoded
  <2>3. CASE \/ \E song \in Songs : Begin(song) \/ DeleteSongs(song) \/ RemoveMissing(song)
             \/ \E op \in {"Resume", "Pause", "Seek"} : TransportCommand(op)
             \/ \E song \in Preparable \cup {NoSong} : SetPreloadCandidate(song)
             \/ \E g \in Preloads : PrepareNextTrack(g) \/ SendPrepared(g)
             \/ \E r \in Requests : \/ RunLoad(r) \/ FallBackToFullFile(r)
                                    \/ Reconnect(r) \/ CancelPreview(r)
    BY <2>3 DEF Begin, DeleteSongs, RemoveMissing, TransportCommand, SetPreloadCandidate,
       PrepareNextTrack, SendPrepared, RunLoad, RetirePrevious, EndRetired, Deliver,
       FallBackToFullFile, Reconnect, CancelPreview
  <2>4. CASE UNCHANGED vars
    BY <2>4 DEF vars
  <2> QED BY <2>1, <2>2, <2>3, <2>4 DEF Next

\* An installation is for the request that has begun and is still the newest.
LEMMA InstallIsForLatest ==
    ASSUME RequestInv, HandleInstallReady
    PROVE  \/ UNCHANGED player
           \/ player'.track.req = latest /\ latest = begun
<1>1. /\ PlayerOK(player) /\ co.cmd \in GoodCommand /\ latest \in Nat /\ begun \in Nat
      /\ co.cmd.req \in Nat
  BY RequestTypes DEF RequestInv, TypeInv, ChannelTyped
<1>2. co.cmd.song \in Songs /\ co.cmd.streaming \in BOOLEAN
  BY <1>1 DEF HandleInstallReady, Handling, GoodCommand, NamesSong, Command
<1>3. CASE Latest(co.cmd.req)
  <2>1. UNCHANGED player \/ player'.track.req = co.cmd.req
    BY <1>1, InstallReadySteps
  <2>2. co.cmd.req <= begun
    BY DEF HandleInstallReady, Handling, RequestInv, DeliveriesBegun, DeliveredFor
  <2> QED BY <1>1, <1>3, <2>1, <2>2 DEF Latest, RequestInv, BeginsInOrder
<1> QED BY <1>3 DEF HandleInstallReady

\* A BeginLoad in hand is of no older request than the one that has begun.
LEMMA BeginsStayInOrder == ASSUME RequestInv, [Next]_vars PROVE BeginsInOrder'
<1>1. /\ begun <= begun' /\ latest <= latest' /\ begun' <= latest'
      /\ begun' # begun => HandleBeginLoad
  BY BegunGrows
<1>2. /\ latest \in Nat /\ begun \in Nat /\ co.cmd.req \in Nat /\ latest' \in Nat
      /\ co \in Working
  BY RequestTypes, CountersStayTyped
     DEF RequestInv, CountersTyped, TypeInv, ChannelTyped
<1> USE DEF BeginsInOrder, RequestInv
<1>3. CASE UNCHANGED co
  <2>1. begun' = begun
    <3>1. CASE HandleBeginLoad
      BY <1>2, <1>3, <3>1 DEF HandleBeginLoad, Handling, ThenSlot, Working
    <3> QED BY <1>1, <3>1
  <2> QED BY <1>1, <1>2, <1>3, <2>1 DEF Handling
<1>4. CASE co' = Idle
  BY <1>1, <1>4 DEF Idle, Handling
<1>5. CASE Receive
  <2>1. ~Stale(Head(queue)) \/ UNCHANGED co
    BY <1>5 DEF Receive
  <2>2. CASE UNCHANGED co
    BY <1>3, <2>2
  <2>3. CASE ~Stale(Head(queue))
    <3>1. co' = [stage |-> "handle", cmd |-> Head(queue), gen |-> 0]
      BY <1>5, <2>3 DEF Receive
    <3>2. Head(queue).op = "BeginLoad" => Head(queue).req = latest
      BY <2>3 DEF Stale, Latest
    <3>3. UNCHANGED <<begun, latest>>
      BY <1>5 DEF Receive, historyVars
    <3> QED BY <1>1, <1>2, <3>1, <3>2, <3>3 DEF Handling
  <2> QED BY <2>1, <2>2, <2>3
<1>6. CASE HandleBeginLoad
  <2>1. /\ co'.stage = "slot" /\ co'.cmd = co.cmd /\ begun' = co.cmd.req
    BY <1>2, <1>6 DEF HandleBeginLoad, ThenSlot, Working
  <2> QED BY <1>1, <1>2, <2>1 DEF Handling
<1>7. ASSUME co.cmd.op # "BeginLoad", ThenSlot PROVE BeginsInOrder'
  BY <1>1, <1>2, <1>7 DEF ThenSlot, Working, Handling
<1>8. ASSUME NEW stage \in {"output", "failed"}, co' = [co EXCEPT !.stage = stage]
      PROVE  BeginsInOrder'
  BY <1>1, <1>2, <1>8 DEF Working, Handling
<1> QED
  <2>1. CASE Coordinate
    BY <2>1, <1>3, <1>4, <1>5, <1>6, <1>7, <1>8 DEF Coordinate, HandleInstallReady,
       HandleFailLoad, HandleReplaceStreamingSource, HandleCancelPreview, HandleResume,
       HandlePause, HandleSeek, HandleAttachStems, HandlePrepareNext, HandleCancelPreparedNext,
       HandleInvalidateDeletedSongs, HandleSlot, EnsureOutput, ReportInstallOutputFailure,
       ThenIdle, Handling
  <2>2. CASE \/ Render \/ RebuildOutput \/ OutputOpened \/ EmitTransition \/ ActivateLibrary
             \/ ClearRuntimeState \/ LoadStems \/ StemsDecoded
    BY <2>2, <1>3, <1>4 DEF Render, RebuildOutput, OutputOpened, EmitTransition,
       ActivateLibrary, ClearRuntimeState, DeleteRows, ClearDirectly, ClearSlot, LoadStems,
       StemsDecoded
  <2>3. CASE \/ \E song \in Songs : Begin(song) \/ DeleteSongs(song) \/ RemoveMissing(song)
             \/ \E op \in {"Resume", "Pause", "Seek"} : TransportCommand(op)
             \/ \E song \in Preparable \cup {NoSong} : SetPreloadCandidate(song)
             \/ \E g \in Preloads : PrepareNextTrack(g) \/ SendPrepared(g)
             \/ \E r \in Requests : \/ RunLoad(r) \/ FallBackToFullFile(r)
                                    \/ Reconnect(r) \/ CancelPreview(r)
    BY <2>3, <1>3 DEF Begin, DeleteSongs, RemoveMissing, TransportCommand, SetPreloadCandidate,
       PrepareNextTrack, SendPrepared, RunLoad, RetirePrevious, EndRetired, Deliver,
       FallBackToFullFile, Reconnect, CancelPreview
  <2>4. CASE UNCHANGED vars
    BY <2>4, <1>3 DEF vars
  <2> QED BY <2>1, <2>2, <2>3, <2>4 DEF Next

\* Every step keeps the invariant of the requests.
LEMMA RequestInvStep == ASSUME RequestInv, [Next]_vars PROVE RequestInv'
<1>1. TypeInv' /\ DeliveriesBegun' /\ BeginsInOrder'
  BY TypeInvStep, DeliveriesStayBegun, BeginsStayInOrder DEF RequestInv
<1>2. /\ latest \in Nat /\ begun \in Nat /\ dismissed \subseteq Nat /\ begun <= latest
      /\ latest <= latest' /\ latest' \in Nat /\ (begun' # begun => HandleBeginLoad)
  BY RequestTypes, CountersStayTyped, BegunGrows
     DEF RequestInv, CountersTyped, BeginsInOrder
<1>3. DismissedAreOld'
  <2>1. CASE UNCHANGED dismissed
    BY <1>2, <2>1 DEF RequestInv, DismissedAreOld
  <2>2. CASE /\ latest' = latest + 1
             /\ dismissed' \in {dismissed \cup {begun}, dismissed \cup {latest}}
    <3>1. \A r \in dismissed' : r \in dismissed \/ r \in {begun, latest}
      BY <2>2
    <3>2. \A r \in dismissed : r \in Nat /\ r < latest
      BY <1>2 DEF RequestInv, DismissedAreOld
    <3> QED BY <1>2, <2>2, <3>1, <3>2 DEF DismissedAreOld
  <2> QED BY <2>1, <2>2, DismissalSteps
<1>4. HandleBeginLoad => ~Loaded(player')
  <2> SUFFICES ASSUME HandleBeginLoad PROVE ~Loaded(player')
    OBVIOUS
  <2>1. co.cmd.song \in Songs /\ PlayerOK(player)
    BY DEF HandleBeginLoad, Handling, RequestInv, TypeInv, ChannelTyped, GoodCommand, NamesSong
  <2> QED BY <2>1, StartTrackLoadingInstalls DEF HandleBeginLoad, Loaded, NoTrack
<1>5. TrackSteps \/ HandleInstallReady
  BY ControllerSteps DEF RequestInv
<1>6. HandleInstallReady => UNCHANGED <<begun, dismissed>>
  BY DEF HandleInstallReady, historyVars
<1>7. LatestRequestWins'
  <2>1. CASE TrackSteps
    BY <1>2, <1>4, <2>1 DEF TrackSteps, RequestInv, LatestRequestWins
  <2>2. CASE HandleInstallReady
    BY <1>6, <2>2, InstallIsForLatest DEF RequestInv, LatestRequestWins
  <2> QED BY <1>5, <2>1, <2>2
<1>8. DismissedStaysGone'
  <2>1. CASE TrackSteps
    BY <2>1, DismissalSteps DEF TrackSteps, RequestInv, DismissedStaysGone
  <2>2. CASE HandleInstallReady
    BY <1>2, <1>6, <2>2, InstallIsForLatest DEF RequestInv, DismissedStaysGone, DismissedAreOld
  <2> QED BY <1>5, <2>1, <2>2
<1> QED BY <1>1, <1>3, <1>7, <1>8 DEF RequestInv

\* The invariant of the requests holds in every state.
THEOREM RequestInvHolds == Spec => []RequestInv
<1>1. RequestInv /\ [Next]_vars => RequestInv'
  BY RequestInvStep
<1> QED BY <1>1, RequestInvInit, PTL DEF Spec

\* What plays is of the request whose loading state was shown last: no slow
\* load, fallback, reconnect or transition brings back a replaced request
\* (handle_install_ready).
THEOREM TheLatestRequestWins == Spec => []LatestRequestWins
<1>1. RequestInv => LatestRequestWins
  BY DEF RequestInv
<1> QED BY <1>1, RequestInvHolds, PTL

\* A request that was withdrawn while it loaded never plays
\* (handle_cancel_preview, handle_invalidate_deleted_songs).
THEOREM DismissedRequestsStayGone == Spec => []DismissedStaysGone
<1>1. RequestInv => DismissedStaysGone
  BY DEF RequestInv
<1> QED BY <1>1, RequestInvHolds, PTL

-----------------------------------------------------------------------------
(* How far the coordinator is, and the prepared track.                     *)

\* Between its two locks a handler holds the generation it left behind.
TransportCalls == HandleResume \/ HandlePause \/ HandleSeek \/ HandleInstallReady

StageSteps ==
    \/ HandleSlot
    \/ Receive /\ UNCHANGED <<player, slot>>
    \/ /\ co.stage = "handle" /\ co'.stage = "slot" /\ co'.gen = player'.tgen
       /\ co'.cmd = co.cmd /\ (co.cmd.op = "InstallReady" => HandleInstallReady)
       /\ UNCHANGED slot
    \/ /\ UNCHANGED slot \/ slot' = NoSlot
       /\ UNCHANGED player \/ ~TransportCalls
       /\ \/ UNCHANGED co
          \/ co.stage # "slot" /\ co'.stage \notin {"slot", "handle"}

\* What a step does to the command in hand, the slot and the player.
LEMMA CoordinatorSteps ==
    ASSUME TypeInv, [Next]_vars
    PROVE  /\ StageSteps
           /\ Handling("CancelPreparedNext") => UNCHANGED co \/ HandleCancelPreparedNext
           /\ UNCHANGED recalled \/ HandleSeek
<1>1. co \in Working /\ co.cmd \in GoodCommand
  BY DEF TypeInv, ChannelTyped
<1> USE DEF StageSteps
<1>2. UNCHANGED co => ~TransportCalls
  <2>1. ThenSlot => co'.stage = "slot"
    BY <1>1 DEF ThenSlot, Working
  <2>2. ThenIdle => co'.stage = "idle"
    BY DEF ThenIdle, Idle
  <2>3. TransportCalls => co.stage = "handle" /\ (ThenSlot \/ ThenIdle)
    BY DEF TransportCalls, HandleResume, HandlePause, HandleSeek, HandleInstallReady, Handling
  <2> QED BY <2>1, <2>2, <2>3
<1>3. ASSUME UNCHANGED co, UNCHANGED slot \/ slot' = NoSlot
      PROVE  /\ StageSteps
             /\ Handling("CancelPreparedNext") => UNCHANGED co \/ HandleCancelPreparedNext
  BY <1>2, <1>3
<1>4. ASSUME co.stage = "handle", ThenSlot, UNCHANGED slot,
             co.cmd.op = "InstallReady" => HandleInstallReady
      PROVE  StageSteps
  BY <1>1, <1>4 DEF ThenSlot, Working
<1>5. ASSUME co.stage # "slot", ThenIdle, UNCHANGED slot, UNCHANGED player \/ ~TransportCalls
      PROVE  StageSteps
  BY <1>5 DEF ThenIdle, Idle
<1> USE DEF historyVars, handlerRest
<1>6. CASE \/ HandleBeginLoad \/ HandleInstallReady \/ HandleFailLoad \/ HandleCancelPreview
           \/ HandleResume \/ HandlePause \/ HandleSeek
  BY <1>4, <1>5, <1>6 DEF HandleBeginLoad, HandleInstallReady, HandleFailLoad,
     HandleCancelPreview, HandleResume, HandlePause, HandleSeek, Handling, TransportCalls
<1>7. CASE \/ HandleReplaceStreamingSource \/ HandleAttachStems \/ HandlePrepareNext
           \/ HandleCancelPreparedNext \/ HandleInvalidateDeletedSongs
  <2>1. ~TransportCalls
    BY <1>7 DEF HandleReplaceStreamingSource, HandleAttachStems, HandlePrepareNext,
       HandleCancelPreparedNext, HandleInvalidateDeletedSongs, TransportCalls, HandleResume,
       HandlePause, HandleSeek, HandleInstallReady, Handling
  <2> QED BY <1>4, <1>5, <1>7, <2>1 DEF HandleReplaceStreamingSource, HandleAttachStems,
       HandlePrepareNext, HandleCancelPreparedNext, HandleInvalidateDeletedSongs, Handling
<1>8. CASE EnsureOutput \/ ReportInstallOutputFailure
  <2>1. ~TransportCalls
    BY <1>8 DEF EnsureOutput, ReportInstallOutputFailure, TransportCalls, HandleResume,
       HandlePause, HandleSeek, HandleInstallReady, Handling
  <2>2. ASSUME co.stage \in {"output", "failed"}, co' = [co EXCEPT !.stage = "failed"],
               UNCHANGED slot
        PROVE  StageSteps
    BY <1>1, <2>1, <2>2 DEF Working
  <2> QED BY <1>3, <1>5, <1>8, <2>1, <2>2 DEF EnsureOutput, ReportInstallOutputFailure,
       Handling, ThenIdle
<1>9. CASE Receive
  BY <1>9 DEF Receive, Handling
<1>10. CASE OutputOpened
  <2>1. ~TransportCalls
    BY <1>10 DEF OutputOpened, TransportCalls, HandleResume, HandlePause, HandleSeek,
       HandleInstallReady, Handling, outputVars, handlerRest
  <2> QED BY <1>3, <1>5, <1>10, <2>1 DEF OutputOpened, Handling, ThenIdle
<1> QED
  <2>1. CASE Coordinate
    BY <2>1, <1>6, <1>7, <1>8, <1>9 DEF Coordinate, HandleBeginLoad, HandleInstallReady,
       HandleFailLoad, HandleReplaceStreamingSource, HandleCancelPreview, HandleResume,
       HandlePause, HandleSeek, HandleAttachStems, HandlePrepareNext, HandleCancelPreparedNext,
       HandleInvalidateDeletedSongs, HandleSlot, EnsureOutput, ReportInstallOutputFailure,
       Receive, Handling
  <2>2. CASE \/ Render \/ RebuildOutput \/ OutputOpened \/ EmitTransition \/ ActivateLibrary
             \/ ClearRuntimeState \/ LoadStems \/ StemsDecoded
    BY <2>2, <1>3, <1>10 DEF Render, RebuildOutput, OutputOpened, EmitTransition,
       ActivateLibrary, ClearRuntimeState, DeleteRows, ClearDirectly, ClearSlot, LoadStems,
       StemsDecoded
  <2>3. CASE \/ \E song \in Songs : Begin(song) \/ DeleteSongs(song) \/ RemoveMissing(song)
             \/ \E op \in {"Resume", "Pause", "Seek"} : TransportCommand(op)
             \/ \E song \in Preparable \cup {NoSong} : SetPreloadCandidate(song)
             \/ \E g \in Preloads : PrepareNextTrack(g) \/ SendPrepared(g)
             \/ \E r \in Requests : \/ RunLoad(r) \/ FallBackToFullFile(r)
                                    \/ Reconnect(r) \/ CancelPreview(r)
    BY <2>3, <1>3 DEF Begin, DeleteSongs, RemoveMissing, TransportCommand, SetPreloadCandidate,
       PrepareNextTrack, SendPrepared, RunLoad, RetirePrevious, EndRetired, Deliver,
       FallBackToFullFile, Reconnect, CancelPreview
  <2>4. CASE UNCHANGED vars
    BY <2>4, <1>3 DEF vars
  <2> QED BY <2>1, <2>2, <2>3, <2>4 DEF Next

\* The last cancellation on its way is the newest; once it was handled, the
\* controller waits for the newest candidate.
IsCancel(c) == c.op = "CancelPreparedNext"

LastCancelIsNewest ==
    \A i \in 1..Len(queue) :
        IsCancel(queue[i]) /\ (\A j \in 1..Len(queue) : i < j => ~IsCancel(queue[j]))
            => queue[i].gen = asked

CancelIsNewest ==
    (\A j \in 1..Len(queue) : ~IsCancel(queue[j])) /\ Handling("CancelPreparedNext")
        => co.cmd.gen = asked

CandidateInv ==
    /\ TypeInv
    /\ LastCancelIsNewest /\ CancelIsNewest
    /\ ~CancellationPending => player.expected = asked
    /\ player.prepared # NoCandidate /\ ~recalled => player.prepared.gen = player.expected

\* Initially no candidate was asked for.
LEMMA CandidateInvInit == Init => CandidateInv
BY TypeInvInit DEF Init, CandidateInv, LastCancelIsNewest, CancelIsNewest, CancellationPending,
   Handling, Idle

\* A cancellation that is sent is the newest one.
LEMMA SendKeepsCancels ==
    ASSUME CandidateInv, NEW c, SentBy(c)
    PROVE  /\ LastCancelIsNewest' /\ CancelIsNewest'
           /\ ~CancellationPending' => player'.expected = asked'
<1>1. /\ queue \in Seq(GoodCommand) /\ queue' = Append(queue, c)
      /\ UNCHANGED <<co, player>>
  BY DEF CandidateInv, TypeInv, ChannelTyped, SentBy, Send
<1>2. /\ Len(queue) \in Nat /\ Len(queue') = Len(queue) + 1 /\ queue'[Len(queue) + 1] = c
      /\ \A i \in 1..Len(queue) : queue'[i] = queue[i]
  BY <1>1
<1> DEFINE n == Len(queue)
           m == Len(queue')
<1>3. CASE c.op = "CancelPreparedNext"
  <2>1. IsCancel(queue'[n + 1])
    BY <1>2, <1>3 DEF IsCancel
  <2>2. \A i \in 1..m : i < n + 1 \/ i = n + 1
    BY <1>2
  <2>3. LastCancelIsNewest'
    BY <1>2, <1>3, <2>1, <2>2 DEF SentBy, LastCancelIsNewest
  <2>4. CancellationPending'
    BY <1>2, <1>3, <2>1 DEF CancellationPending
  <2> QED BY <1>2, <2>1, <2>3, <2>4 DEF CancelIsNewest
<1>4. CASE c.op # "CancelPreparedNext"
  <2>1. asked' = asked /\ ~IsCancel(queue'[n + 1])
    BY <1>2, <1>4 DEF SentBy, IsCancel
  <2>2. \A i \in 1..n : IsCancel(queue'[i]) <=> IsCancel(queue[i])
    BY <1>2 DEF IsCancel
  <2>3. 1..n \subseteq 1..m /\ (\A i \in 1..m : i \in 1..n \/ i = n + 1)
    BY <1>2
  <2>4. ASSUME NEW i \in 1..m, IsCancel(queue'[i]), \A j \in 1..m : i < j => ~IsCancel(queue'[j])
        PROVE  queue'[i].gen = asked'
    <3>1. i \in 1..n /\ IsCancel(queue[i])
      BY <2>1, <2>2, <2>3, <2>4
    <3>2. \A j \in 1..n : i < j => ~IsCancel(queue[j])
      BY <2>2, <2>3, <2>4
    <3> QED BY <1>2, <2>1, <3>1, <3>2 DEF CandidateInv, LastCancelIsNewest
  <2>5. LastCancelIsNewest'
    BY <2>4 DEF LastCancelIsNewest
  <2>6. (\A j \in 1..m : ~IsCancel(queue'[j])) => \A j \in 1..n : ~IsCancel(queue[j])
    BY <2>2, <2>3
  <2>7. CancelIsNewest'
    BY <1>1, <2>1, <2>6 DEF CandidateInv, CancelIsNewest, Handling
  <2>8. CancellationPending => CancellationPending'
    BY <1>1, <2>2, <2>3 DEF CancellationPending, IsCancel, Handling
  <2> QED BY <1>1, <2>1, <2>5, <2>7, <2>8 DEF CandidateInv
<1> QED BY <1>3, <1>4

\* Cancellations are received in the order they were sent.
LEMMA ReceiveKeepsCancels ==
    ASSUME CandidateInv, Receive, UNCHANGED asked
    PROVE  /\ LastCancelIsNewest' /\ CancelIsNewest'
           /\ ~CancellationPending' => player'.expected = asked'
<1>1. /\ queue \in Seq(GoodCommand) /\ queue # <<>> /\ queue' = Tail(queue)
      /\ UNCHANGED player /\ co.stage = "idle"
  BY DEF CandidateInv, TypeInv, ChannelTyped, Receive
<1>2. /\ Len(queue) \in Nat \ {0} /\ Len(queue') = Len(queue) - 1 /\ Head(queue) = queue[1]
      /\ \A i \in 1..Len(queue') : queue'[i] = queue[i + 1]
  BY <1>1
<1> DEFINE n == Len(queue)
           m == Len(queue')
<1>3. \A i \in 1..m : i + 1 \in 1..n /\ (IsCancel(queue'[i]) <=> IsCancel(queue[i + 1]))
  BY <1>2 DEF IsCancel
<1>4. \A j \in 1..n :
        j # 1 => j - 1 \in 1..m /\ (IsCancel(queue[j]) <=> IsCancel(queue'[j - 1]))
  <2> SUFFICES ASSUME NEW j \in 1..n, j # 1
               PROVE  j - 1 \in 1..m /\ (IsCancel(queue[j]) <=> IsCancel(queue'[j - 1]))
    OBVIOUS
  <2>1. j - 1 \in 1..m /\ (j - 1) + 1 = j
    BY <1>2
  <2>2. queue'[j - 1] = queue[(j - 1) + 1]
    BY <1>2, <2>1
  <2> QED BY <2>1, <2>2
<1>5. ASSUME NEW i \in 1..m, IsCancel(queue'[i]), \A j \in 1..m : i < j => ~IsCancel(queue'[j])
      PROVE  queue'[i].gen = asked'
  <2>1. i + 1 \in 1..n /\ IsCancel(queue[i + 1])
    BY <1>3, <1>5
  <2>2. \A j \in 1..n : i + 1 < j => ~IsCancel(queue[j])
    BY <1>2, <1>4, <1>5
  <2> QED BY <1>2, <2>1, <2>2 DEF CandidateInv, LastCancelIsNewest
<1>6. LastCancelIsNewest'
  BY <1>5 DEF LastCancelIsNewest
<1>7. \/ UNCHANGED co /\ ~IsCancel(queue[1])
      \/ co' = [stage |-> "handle", cmd |-> queue[1], gen |-> 0]
  BY <1>2 DEF Receive, Stale, IsCancel
<1>8. CancelIsNewest'
  <2>1. CASE IsCancel(queue[1]) /\ \A j \in 1..m : ~IsCancel(queue'[j])
    <3>1. \A j \in 1..n : 1 < j => ~IsCancel(queue[j])
      BY <1>2, <1>4, <2>1
    <3>2. queue[1].gen = asked
      BY <1>2, <2>1, <3>1 DEF CandidateInv, LastCancelIsNewest
    <3> QED BY <1>7, <2>1, <3>2 DEF CancelIsNewest
  <2>2. CASE ~IsCancel(queue[1])
    BY <1>1, <1>7, <2>2 DEF CancelIsNewest, Handling, IsCancel
  <2> QED BY <2>1, <2>2 DEF CancelIsNewest
<1>9. CancellationPending => CancellationPending'
  <2>1. ASSUME NEW i \in 1..n, IsCancel(queue[i]) PROVE CancellationPending'
    <3>1. CASE i = 1
      BY <1>7, <2>1, <3>1 DEF CancellationPending, Handling, IsCancel
    <3>2. CASE i # 1
      <4>1. i - 1 \in 1..m /\ IsCancel(queue'[i - 1])
        BY <1>4, <2>1, <3>2
      <4> QED BY <4>1 DEF CancellationPending, IsCancel
    <3> QED BY <3>1, <3>2
  <2> QED BY <1>1, <2>1 DEF CancellationPending, Handling, IsCancel
<1> QED BY <1>1, <1>6, <1>8, <1>9 DEF CandidateInv

\* Every step keeps the invariant of the candidates.
LEMMA CandidateInvStep == ASSUME CandidateInv, [Next]_vars PROVE CandidateInv'
<1>1. /\ TypeInv /\ TypeInv' /\ ExpectationSteps /\ StageSteps
      /\ Handling("CancelPreparedNext") => UNCHANGED co \/ HandleCancelPreparedNext
      /\ UNCHANGED recalled \/ HandleSeek
  BY TypeInvStep, ControllerSteps, CoordinatorSteps DEF CandidateInv
<1>2. PlayerOK(player) /\ player \in Player /\ co \in Working /\ NoCandidate \in Candidate
  BY <1>1 DEF TypeInv, PlayerOK, ChannelTyped, NoCandidate, Candidate, AnySong
<1>3. /\ LastCancelIsNewest' /\ CancelIsNewest'
      /\ ~CancellationPending' => player'.expected = asked'
  <2>1. CASE UNCHANGED <<queue, asked>> /\ ~Receive
    <3>1. co' = co \/ ~Handling("CancelPreparedNext")'
      BY <1>1, <2>1 DEF StageSteps, HandleSlot, Handling, Idle, Working, TypeInv, ChannelTyped
    <3>2. LastCancelIsNewest' /\ CancelIsNewest'
      BY <2>1, <3>1 DEF CandidateInv, LastCancelIsNewest, CancelIsNewest, Handling
    <3>3. CASE HandleCancelPreparedNext
      <4>1. player'.expected = co.cmd.gen /\ Handling("CancelPreparedNext")
        BY <1>2, <3>3 DEF HandleCancelPreparedNext, Player
      <4> QED BY <2>1, <3>2, <4>1 DEF CandidateInv, CancelIsNewest, CancellationPending, IsCancel
    <3>4. CASE ~HandleCancelPreparedNext
      <4>1. player'.expected = player.expected
        BY <1>1, <3>4 DEF ExpectationSteps
      <4>2. CancellationPending => CancellationPending'
        BY <1>1, <2>1, <3>4 DEF CancellationPending, Handling
      <4> QED BY <2>1, <3>2, <4>1, <4>2 DEF CandidateInv
    <3> QED BY <3>2, <3>3, <3>4
  <2>2. CASE Receive /\ UNCHANGED asked
    BY <2>2, ReceiveKeepsCancels
  <2>3. CASE \E c : SentBy(c)
    BY <2>3, SendKeepsCancels
  <2>4. Receive => UNCHANGED asked
    BY DEF Receive, preloadVars
  <2> QED BY <1>1, <2>1, <2>2, <2>3, <2>4, ChannelSteps DEF QueueSteps
<1>4. player'.prepared # NoCandidate /\ ~recalled' => player'.prepared.gen = player'.expected
  <2>1. CASE HandleCancelPreparedNext
    BY <1>2, <2>1 DEF HandleCancelPreparedNext, Player
  <2>2. CASE HandlePrepareNext
    <3>1. CASE ~Installable(co.cmd)
      BY <1>1, <2>2, <3>1 DEF HandlePrepareNext, CandidateInv, historyVars
    <3>2. CASE Installable(co.cmd)
      <4>1. /\ player'.prepared = [song |-> co.cmd.song, gen |-> co.cmd.gen]
            /\ player'.expected = player.expected
        BY <1>2, <2>2, <3>2 DEF HandlePrepareNext, Player
      <4> QED BY <3>2, <4>1 DEF Installable
    <3> QED BY <3>1, <3>2
  <2>3. CASE HandleSeek
    <3>1. CASE UNCHANGED player
      BY <2>3, <3>1 DEF HandleSeek, CandidateInv
    <3>2. CASE \E toEnd \in BOOLEAN : player' = SeekTo(player, toEnd)
      <4>1. /\ player'.expected = player.expected
            /\ \/ player'.prepared = player.prepared
               \/ /\ Loaded(player) /\ player.crossfade # NoCandidate
                  /\ player'.prepared = player.crossfade
        BY <1>2, <3>2, SeekKeeps DEF Keeps
      <4>2. recalled' => recalled \/ player.crossfade.gen # player.expected
        BY <2>3 DEF HandleSeek
      <4>3. recalled => recalled'
        BY <2>3 DEF HandleSeek
      <4>4. /\ Loaded(player) /\ player.crossfade # NoCandidate
            /\ player.crossfade.gen # player.expected
            => recalled' \/ UNCHANGED player
        BY <2>3 DEF HandleSeek
      <4> QED BY <3>1, <4>1, <4>3, <4>4 DEF CandidateInv
    <3> QED BY <2>3, <3>1, <3>2 DEF HandleSeek
  <2>4. CASE /\ player'.expected = player.expected /\ UNCHANGED recalled
             /\ player'.prepared \in {player.prepared, NoCandidate}
    BY <2>4 DEF CandidateInv
  <2> QED BY <1>1, <2>1, <2>2, <2>3, <2>4 DEF ExpectationSteps
<1> QED BY <1>1, <1>3, <1>4 DEF CandidateInv

\* The track prepared to follow is of the newest set_preload_candidate
\* (install_prepared_track).
THEOREM CandidatesAreLastRequested == Spec => []CandidateIsLastRequested
<1>1. CandidateInv /\ [Next]_vars => CandidateInv'
  BY CandidateInvStep
<1>2. CandidateInv => CandidateIsLastRequested
  BY DEF CandidateInv, CandidateIsLastRequested
<1> QED BY <1>1, <1>2, CandidateInvInit, PTL DEF Spec

-----------------------------------------------------------------------------
(* The graphics.                                                           *)

\* The song the slot shows, or is about to show, when the handler is done.
SlotSong == IF co.stage = "slot" /\ co.cmd.op = "InstallReady" THEN co.cmd.song ELSE slot.song

SlotIsAboutASong ==
    slot.state = "ready" \/ (co.stage = "slot" /\ co.cmd.op = "InstallReady")

\* A song that could also have followed gaplessly is streamed when its graphics
\* are loaded: the track that plays is then not one that took over.
PreparableIsStreamed ==
    SlotIsAboutASong /\ SlotSong \in Preparable /\ Loaded(player)
        => player.track.song = SlotSong /\ player.track.streaming

HandlerSawTheTrack ==
    co.stage = "slot" /\ SlotIsAboutASong /\ Loaded(player) /\ player.track.song = SlotSong
        => co.gen = player.tgen

CdgInv ==
    /\ TypeInv
    /\ slot.state = "ready" => slot.song \in Graphics
    /\ PreparableIsStreamed
    /\ HandlerSawTheTrack
    /\ CdgFollowsTransport

\* Initially the slot is empty.
LEMMA CdgInvInit == Init => CdgInv
BY TypeInvInit DEF Init, CdgInv, PreparableIsStreamed, HandlerSawTheTrack, SlotIsAboutASong,
   CdgFollowsTransport, NoSlot, Idle

\* What a handler leaves in the slot carries the generation it saw.
LEMMA SlotAfterHandler ==
    ASSUME CdgInv, HandleSlot
    PROVE  /\ UNCHANGED player /\ co.stage = "slot" /\ co'.stage # "slot"
           /\ slot'.state = "ready" => /\ SlotIsAboutASong /\ slot'.song = SlotSong
                                       /\ slot'.song \in Graphics /\ slot'.gen = co.gen
<1>1. slot \in Slot /\ co \in Working
  BY DEF CdgInv, TypeInv, RuntimeTyped, ChannelTyped
<1>2. UNCHANGED player /\ co.stage = "slot" /\ co'.stage # "slot"
  BY <1>1 DEF HandleSlot, Idle, Working
<1>3. slot' \in SlotAfter(co.cmd, co.gen)
  BY DEF HandleSlot
<1> DEFINE Relabelled == [slot EXCEPT !.gen = co.gen]
<1>4. /\ NoSlot.state = "none" /\ Relabelled.gen = co.gen
      /\ Relabelled.state = slot.state /\ Relabelled.song = slot.song
  BY <1>1 DEF NoSlot, Slot
<1> DEFINE Answers == slot'.state = "ready" => /\ SlotIsAboutASong /\ slot'.song = SlotSong
                                               /\ slot'.song \in Graphics /\ slot'.gen = co.gen
<1>5. slot' = NoSlot \/ (slot' = Relabelled /\ co.cmd.op # "InstallReady") => Answers
  BY <1>4 DEF CdgInv, SlotIsAboutASong, SlotSong
<1>6. slot' = [state |-> "loading", song |-> co.cmd.song, gen |-> co.gen] => Answers
  OBVIOUS
<1>7. ASSUME co.cmd.op = "InstallReady", co.cmd.song \in Graphics, NEW s \in {"ready", "error"},
             slot' = [state |-> s, song |-> co.cmd.song, gen |-> co.gen]
      PROVE  Answers
  BY <1>2, <1>7 DEF SlotIsAboutASong, SlotSong
<1>8. Answers
  <2> HIDE DEF Answers
  <2> QED BY <1>3, <1>5, <1>6, <1>7 DEF SlotAfter, MarkCdgSeek, UpdateCdgGeneration
<1> QED BY <1>2, <1>8

\* A handler that released the controller's lock saw the generation it left.
LEMMA HandlerKeepsCdg ==
    ASSUME CdgInv, TypeInv', TrackSteps \/ HandleInstallReady,
           co.stage = "handle", co'.stage = "slot", co'.gen = player'.tgen, co'.cmd = co.cmd,
           co.cmd.op = "InstallReady" => HandleInstallReady, UNCHANGED slot
    PROVE  CdgInv'
<1>1. slot.state = "ready" => slot.song \in Graphics
  BY DEF CdgInv
<1>2. PreparableIsStreamed'
  <2>1. CASE co.cmd.op = "InstallReady"
    <3>1. PlayerOK(player) /\ co.cmd \in GoodCommand
      BY DEF CdgInv, TypeInv, ChannelTyped
    <3>2. ThenIdle => co'.stage = "idle"
      BY DEF ThenIdle, Idle
    <3>3. /\ player'.track.song = co.cmd.song
          /\ player'.track.streaming = co.cmd.streaming
      BY <2>1, <3>1, <3>2, InstallReadySteps
    <3>4. co.cmd.song \in Preparable => co.cmd.streaming
      BY <2>1, <3>1 DEF GoodCommand
    <3> QED BY <2>1, <3>3, <3>4 DEF PreparableIsStreamed, SlotIsAboutASong, SlotSong
  <2>2. CASE co.cmd.op # "InstallReady"
    <3>1. TrackSteps
      BY <2>2 DEF HandleInstallReady, Handling
    <3> QED BY <2>2, <3>1 DEF CdgInv, PreparableIsStreamed, SlotIsAboutASong, SlotSong, TrackSteps
  <2> QED BY <2>1, <2>2
<1> QED BY <1>1, <1>2 DEF CdgInv, HandlerSawTheTrack, CdgFollowsTransport

\* What happens beside the handlers of the transport changes no generation of a
\* track whose graphics the slot shows.
LEMMA OthersKeepCdg ==
    ASSUME CdgInv, TypeInv', TrackSteps \/ HandleInstallReady,
           UNCHANGED slot \/ slot' = NoSlot, UNCHANGED player \/ ~TransportCalls,
           UNCHANGED co \/ (co.stage # "slot" /\ co'.stage \notin {"slot", "handle"})
    PROVE  CdgInv'
<1>1. /\ slot.state = "ready" => slot.song \in Graphics
      /\ NoSlot.state = "none" /\ NoSong \notin Songs /\ Preparable \subseteq Songs
  BY SongFacts DEF CdgInv, NoSlot
<1>2. SlotIsAboutASong' => SlotIsAboutASong /\ SlotSong' = SlotSong
  BY <1>1 DEF SlotIsAboutASong, SlotSong
<1>3. UNCHANGED player \/ TrackSteps
  BY DEF TransportCalls
<1>4. Loaded(player') => Loaded(player)
  BY <1>3 DEF TrackSteps
<1>5. PreparableIsStreamed'
  BY <1>2, <1>3, <1>4 DEF CdgInv, PreparableIsStreamed, TrackSteps
<1>6. SlotIsAboutASong' /\ Loaded(player') /\ player'.track.song = SlotSong'
        => player.track.song = SlotSong /\ player'.tgen = player.tgen
  <2>1. CASE UNCHANGED player
    BY <1>2, <2>1
  <2>2. CASE TrackSteps /\ ~TransportCalls /\ SlotSong \notin Preparable
    BY <1>2, <2>2 DEF TrackSteps, TransportCalls, Loaded
  <2>3. CASE TrackSteps /\ ~TransportCalls /\ SlotSong \in Preparable
    BY <1>2, <1>4, <2>3 DEF CdgInv, PreparableIsStreamed, TrackSteps, TransportCalls
  <2> QED BY <1>3, <2>1, <2>2, <2>3
<1>7. HandlerSawTheTrack'
  BY <1>2, <1>4, <1>6 DEF CdgInv, HandlerSawTheTrack
<1>8. CdgFollowsTransport'
  <2>1. SUFFICES ASSUME co'.stage # "slot", slot'.state = "ready", slot'.song = player'.track.song
                 PROVE  slot'.gen = player'.tgen
    BY DEF CdgFollowsTransport
  <2>2. UNCHANGED slot /\ co.stage # "slot" /\ slot.song \in Graphics
    BY <1>1, <2>1
  <2>3. SlotIsAboutASong' /\ SlotSong' = slot.song /\ SlotSong = slot.song
    BY <2>1, <2>2 DEF SlotIsAboutASong, SlotSong
  <2>4. Loaded(player')
    BY <1>1, <2>1, <2>2, SongsAssumption DEF Loaded
  <2> QED BY <1>6, <2>1, <2>2, <2>3, <2>4 DEF CdgInv, CdgFollowsTransport
<1>9. (slot.state = "ready" => slot.song \in Graphics)'
  BY <1>1
<1> QED BY <1>5, <1>7, <1>8, <1>9 DEF CdgInv

\* Every step keeps the invariant of the slot.
LEMMA CdgInvStep == ASSUME CdgInv, [Next]_vars PROVE CdgInv'
<1>1. TypeInv /\ TypeInv' /\ StageSteps /\ (TrackSteps \/ HandleInstallReady)
  BY TypeInvStep, ControllerSteps, CoordinatorSteps DEF CdgInv
<1>2. CASE HandleSlot
  <2>1. /\ UNCHANGED player /\ co.stage = "slot" /\ co'.stage # "slot"
        /\ slot'.state = "ready" => /\ SlotIsAboutASong /\ slot'.song = SlotSong
                                    /\ slot'.song \in Graphics /\ slot'.gen = co.gen
    BY <1>2, SlotAfterHandler
  <2>2. SlotIsAboutASong' <=> slot'.state = "ready"
    BY <2>1 DEF SlotIsAboutASong
  <2>3. SlotSong' = slot'.song
    BY <2>1 DEF SlotSong
  <2>4. PreparableIsStreamed' /\ HandlerSawTheTrack'
    BY <2>1, <2>2, <2>3 DEF CdgInv, PreparableIsStreamed, HandlerSawTheTrack
  <2>5. CdgFollowsTransport'
    <3>1. ASSUME slot'.state = "ready", slot'.song = player'.track.song
          PROVE  slot'.gen = player'.tgen
      <4>1. Loaded(player) /\ player.track.song = SlotSong
        BY <2>1, <3>1, SongsAssumption DEF Loaded
      <4> QED BY <2>1, <3>1, <4>1 DEF CdgInv, HandlerSawTheTrack
    <3> QED BY <3>1 DEF CdgFollowsTransport
  <2> QED BY <1>1, <2>1, <2>4, <2>5 DEF CdgInv
<1>3. CASE Receive /\ UNCHANGED <<player, slot>>
  <2>1. co.stage = "idle" /\ co'.stage \in {"idle", "handle"}
    BY <1>3 DEF Receive
  <2> QED BY <1>1, <1>3, <2>1 DEF CdgInv, CdgFollowsTransport, PreparableIsStreamed,
       HandlerSawTheTrack, SlotIsAboutASong, SlotSong
<1> QED BY <1>1, <1>2, <1>3, HandlerKeepsCdg, OthersKeepCdg DEF StageSteps

\* The graphics answer to the present generation of the track that plays, be it
\* streamed, replaced after a broken fetch or decoded whole, through every pause,
\* seek and transition of the tracks around it (update_cdg_generation,
\* mark_cdg_seek).
THEOREM CdgAnswersToTheTrack == Spec => []CdgFollowsTransport
<1>1. CdgInv /\ [Next]_vars => CdgInv'
  BY CdgInvStep
<1>2. CdgInv => CdgFollowsTransport
  BY DEF CdgInv
<1> QED BY <1>1, <1>2, CdgInvInit, PTL DEF Spec
=============================================================================
