------------------------------ MODULE Playback ------------------------------
(***************************************************************************)
(* The transport: which song plays, and who may change it.  The module     *)
(* composes                                                                *)
(*   - the coordinator thread (audio/coordinator.rs), which takes commands *)
(*     from one channel in order and changes the controller under its lock;*)
(*   - the controller (audio/playback.rs): one operator for each method;   *)
(*   - the load requests and their threads (services/track_load);          *)
(*   - the preload threads of the next song (services/next_track.rs);      *)
(*   - the output callback and device thread (audio/output);               *)
(*   - the CDG slot, changed after the controller's lock is released       *)
(*     (services/cdg.rs);                                                  *)
(*   - the commands that clear the track without the coordinator           *)
(*     (delete_songs, activating another library).                         *)
(*                                                                         *)
(* One step is one critical section of the controller's lock, one message  *)
(* sent or received, or one access to a shared flag.  Left out are audio,  *)
(* volumes and the equalizer; positions, except for being at the end of    *)
(* the song; clocks, so that a fade may have expired at any reading; and   *)
(* the crossfade setting, so that any callback may find it on or off.      *)
(***************************************************************************)
EXTENDS Naturals, Sequences

CONSTANTS
    Songs,          \* ids the user can ask for
    NoSong,         \* Option::None
    Graphics,       \* songs with a CDG file, named by their row or beside the audio
    MediaG,         \* songs whose row names a container or a CDG file
    Whole,          \* songs decoded whole: Media+G ZIP files and remote stems
    Remote,         \* songs of the library whose audio is in the repository
    Previews,       \* tracks of a streaming source, not in the library
    MaxRequests,    \* bound: play commands
    Choices,        \* bound: the songs each of them may ask for
    Removable,      \* bound: the songs that may be deleted or go missing
    MaxInputs,      \* bound: other commands, lost devices and reconnects
    MaxQueue        \* bound: commands waiting in the channel

ASSUME SongsAssumption ==
    /\ Graphics \cup MediaG \cup Remote \subseteq Songs \ Previews
    /\ Previews \subseteq Songs /\ NoSong \notin Songs
    /\ Whole \subseteq MediaG \cup Remote
ASSUME LimitsAssumption ==
    /\ MaxRequests \in Nat /\ MaxInputs \in Nat /\ MaxQueue \in Nat
    /\ Choices \in [1..MaxRequests -> SUBSET Songs] /\ Removable \subseteq Songs

VARIABLES
    latest,     \* playback_request_id: the id of the newest request
    loads,      \* each request with its song, thread and shutdown flag
    worker,     \* the request that owns background_shutdown, 0 at the start
    preloads,   \* each set_preload_candidate with its song and thread
    asked,      \* preload_request_generation
    stemsJob,   \* what a load_stems command captured
    queue,      \* the coordinator's channel
    co,         \* the command the coordinator works on, and how far it is
    player,     \* the controller
    slot,       \* cdg_state
    output,     \* the output thread: closed, opening, open or rebuilding its stream
    format,     \* generation of output_format, 0 for none
    library,    \* songs the library database holds
    clear,      \* a command that clears the track directly, and how far it is
    inputs,     \* other commands, lost devices and reconnects so far
    (* history, read by the properties only *)
    begun,      \* the request whose BeginLoad was handled last
    dismissed,  \* requests withdrawn before a newer one replaced them
    recalled    \* an aborted crossfade brought back a withdrawn candidate

requestVars == <<latest, loads, worker>>
preloadVars == <<preloads, asked>>
outputVars  == <<output, format>>
historyVars == <<begun, dismissed, recalled>>
vars == <<requestVars, preloadVars, stemsJob, queue, co, player, slot, outputVars,
          library, clear, inputs, historyVars>>

-----------------------------------------------------------------------------
Requests == 1..MaxRequests
Preloads == 1..MaxInputs
AnySong  == Songs \cup {NoSong}

\* Only a local song that is not Media+G is prepared for a gapless change; a
\* CDG file beside it that its row does not name makes no difference.
Preparable == Songs \ (MediaG \cup Remote \cup Previews)

\* Whether the track of a song is streamed: a remote one is decoded whole when
\* its server cannot serve ranges.
Streaming(song) ==
    {streaming \in BOOLEAN :
        IF streaming THEN song \notin Whole ELSE song \in Whole \cup Remote}

LoadPhases == {"none", "begun", "asked", "working", "serving", "done"}
Load    == [song : AnySong, phase : LoadPhases, retired : BOOLEAN]
Preload == [song : AnySong, phase : {"none", "spawned", "prepared", "done"}, format : Nat]
Job     == [song : AnySong, req : Nat]

Track     == [song : AnySong, req : Nat, streaming : BOOLEAN, stems : BOOLEAN,
              playing : BOOLEAN, atEnd : BOOLEAN]
Candidate == [song : AnySong, gen : Nat]
Player    == [track : Track, loading : AnySong, pauseWhenLoaded : BOOLEAN, tgen : Nat,
              buffering : BOOLEAN, fade : {"none", "in", "out", "seek"},
              prepared : Candidate, crossfade : Candidate, expected : Nat,
              announced : AnySong]
Slot      == [state : {"none", "loading", "ready", "error"}, song : AnySong, gen : Nat]

Ops == {"BeginLoad", "InstallReady", "FailLoad", "ReplaceStreamingSource", "CancelPreview",
        "Resume", "Pause", "Seek", "AttachStems", "PrepareNext",
        "CancelPreparedNext", "InvalidateDeletedSongs"}
Command == [op : Ops \cup {"none"}, req : Nat, song : AnySong, streaming : BOOLEAN,
            gen : Nat, format : Nat]
Working == [stage : {"idle", "handle", "slot", "output", "failed"}, cmd : Command, gen : Nat]
Clear   == [stage : {"idle", "delete", "track", "slot"}, song : AnySong, playing : AnySong]

NoTrack     == [song |-> NoSong, req |-> 0, streaming |-> FALSE, stems |-> FALSE,
                playing |-> FALSE, atEnd |-> FALSE]
NoCandidate == [song |-> NoSong, gen |-> 0]
NoSlot      == [state |-> "none", song |-> NoSong, gen |-> 0]
NoCommand   == [op |-> "none", req |-> 0, song |-> NoSong, streaming |-> FALSE,
                gen |-> 0, format |-> 0]
NoJob       == [song |-> NoSong, req |-> 0]
Idle        == [stage |-> "idle", cmd |-> NoCommand, gen |-> 0]
NoClear     == [stage |-> "idle", song |-> NoSong, playing |-> NoSong]
NoLoad      == [song |-> NoSong, phase |-> "none", retired |-> FALSE]
NoPreload   == [song |-> NoSong, phase |-> "none", format |-> 0]
Ended(load) == [load EXCEPT !.phase = "done", !.song = NoSong]
DonePreload == [NoPreload EXCEPT !.phase = "done"]

Loaded(p)  == p.track.song # NoSong
Loading(p) == p.loading # NoSong

\* A song is loading or loaded, never both.
TypeOK ==
    /\ Loading(player) => ~Loaded(player)
    /\ latest \in Nat /\ worker \in Nat /\ asked \in Nat
    /\ loads \in [Requests -> Load] /\ preloads \in [Preloads -> Preload]
    /\ stemsJob \in Job /\ queue \in Seq(Command) /\ co \in Working
    /\ player \in Player /\ slot \in Slot
    /\ output \in {"closed", "opening", "open", "rebuilding"} /\ format \in Nat
    /\ library \subseteq Songs /\ clear \in Clear
    /\ inputs \in Nat
    /\ begun \in Nat /\ dismissed \subseteq Nat /\ recalled \in BOOLEAN

Init ==
    /\ latest = 0 /\ worker = 0 /\ asked = 0
    /\ loads = [r \in Requests |-> NoLoad]
    /\ preloads = [g \in Preloads |-> NoPreload]
    /\ stemsJob = NoJob /\ queue = <<>> /\ co = Idle
    /\ player = [track |-> NoTrack, loading |-> NoSong, pauseWhenLoaded |-> FALSE,
                 tgen |-> 0, buffering |-> FALSE, fade |-> "none",
                 prepared |-> NoCandidate, crossfade |-> NoCandidate, expected |-> 0,
                 announced |-> NoSong]
    /\ slot = NoSlot /\ output = "closed" /\ format = 0
    /\ library = Songs \ Previews /\ clear = NoClear
    /\ inputs = 0
    /\ begun = 0 /\ dismissed = {} /\ recalled = FALSE

-----------------------------------------------------------------------------
(* The controller.  Every operator takes and returns a Player.             *)

Bumped(p) == [p EXCEPT !.tgen = @ + 1]

\* Taking a snapshot stops a track whose position reached its duration.
Snapshot(p) == IF p.track.atEnd THEN [p EXCEPT !.track.playing = FALSE] ELSE p

\* Mutant of CancelCrossfadeAndPrepared: a pending transition is left behind.
CancelCandidates(p) ==
    [p EXCEPT !.crossfade = NoCandidate, !.prepared = NoCandidate]

CancelCrossfadeAndPrepared(p) ==
    [p EXCEPT !.crossfade = NoCandidate, !.prepared = NoCandidate, !.announced = NoSong]

AbortCrossfade(p) ==
    IF p.crossfade = NoCandidate THEN p
    ELSE [p EXCEPT !.prepared = p.crossfade, !.crossfade = NoCandidate]

\* Mutant of StartTrack: the track is installed and still loading.
StartTrackStillLoading(p, song, req, streaming) ==
    [p EXCEPT !.track = [song |-> song, req |-> req, streaming |-> streaming,
                         stems |-> FALSE, playing |-> TRUE, atEnd |-> FALSE]]

StartTrack(p, song, req, streaming) ==
    [CancelCrossfadeAndPrepared(p) EXCEPT
        !.loading = NoSong, !.pauseWhenLoaded = FALSE,
        !.track = [song |-> song, req |-> req, streaming |-> streaming, stems |-> FALSE,
                   playing |-> ~p.pauseWhenLoaded, atEnd |-> FALSE]]

StartTrackLoading(p, song) ==
    [CancelCrossfadeAndPrepared(Bumped(p)) EXCEPT
        !.track = NoTrack, !.loading = song, !.pauseWhenLoaded = FALSE]

Play(p) ==
    IF Loaded(p) THEN Snapshot([Bumped(p) EXCEPT !.track.playing = TRUE, !.fade = "in"])
    ELSE [p EXCEPT !.pauseWhenLoaded = FALSE]

Pause(p) ==
    IF Loaded(p) THEN Snapshot([Bumped(p) EXCEPT !.fade = "out"])
    ELSE [p EXCEPT !.pauseWhenLoaded = TRUE]

SeekTo(p, toEnd) ==
    IF Loaded(p)
    THEN Snapshot([AbortCrossfade(Bumped(p)) EXCEPT
             !.fade = "seek", !.track.atEnd = toEnd,
             !.buffering = @ \/ p.track.streaming])
    ELSE p

AttachStems(p) == [CancelCrossfadeAndPrepared(p) EXCEPT !.track.stems = TRUE]

ReplaceStreamingSource(p, toEnd) ==
    Snapshot([p EXCEPT !.track.streaming = TRUE, !.track.atEnd = toEnd, !.buffering = TRUE])

ClearTrack(p) ==
    [CancelCrossfadeAndPrepared(p) EXCEPT
        !.track = NoTrack, !.loading = NoSong, !.pauseWhenLoaded = FALSE, !.fade = "none"]

CancelLoading(p) == [p EXCEPT !.loading = NoSong, !.pauseWhenLoaded = FALSE]

InvalidateSong(p, song) ==
    LET q == IF p.track.song = song THEN ClearTrack(p) ELSE p
    IN  IF q.loading = song THEN CancelLoading(q) ELSE q

-----------------------------------------------------------------------------
(* The output callback.  A prepared track replaces the current one at its  *)
(* end, or after the overlap of a crossfade.                               *)

\* Mutant of CurrentTrackIsPlaying: the end of a stopped track advances too.
AnyTrackIsPlaying(p) == Loaded(p)

CurrentTrackIsPlaying(p) ==
    Loaded(p) /\ p.fade # "out" /\ (p.track.playing \/ p.fade = "in")

\* Mutant of BecomeCurrent when used alone: the generation is not bumped.
TakeOver(p, next) ==
    [p EXCEPT
        !.track = [song |-> next.song, req |-> p.track.req, streaming |-> FALSE,
                   stems |-> FALSE, playing |-> TRUE, atEnd |-> FALSE],
        !.buffering = FALSE, !.announced = next.song]

BecomeCurrent(p, next) == Bumped(TakeOver(p, next))

PerformGaplessSwap(p) ==
    [BecomeCurrent(p, p.prepared) EXCEPT
        !.prepared = NoCandidate, !.fade = IF @ = "in" THEN "in" ELSE "none"]

PromoteCrossfade(p) ==
    [BecomeCurrent(p, p.crossfade) EXCEPT !.crossfade = NoCandidate, !.fade = "none"]

\* How full the rings of a streaming track are decides about buffering.
CheckLevel(p, level) ==
    IF ~p.track.streaming THEN p
    ELSE CASE level = "low"  -> [p EXCEPT !.buffering = TRUE,
                                          !.fade = IF @ = "in" THEN "none" ELSE @]
           [] level = "high" -> [p EXCEPT !.buffering = FALSE]
           [] OTHER          -> p

FinalizeFade(p, over) ==
    IF p.fade = "out" /\ over
    THEN [p EXCEPT !.fade = "none", !.track.playing = FALSE] ELSE p

TakeFadeGain(p, over) == IF over THEN [p EXCEPT !.fade = "none"] ELSE p

Silent(p) ==
    \/ p.buffering
    \/ ~p.track.playing /\ p.fade \notin {"out", "in"}
    \/ ~Loaded(p)

Overlapping(p) ==
    /\ ~p.track.streaming /\ ~p.track.stems
    /\ {p.crossfade, p.prepared} # {NoCandidate}

\* Crossfading may be switched off and the end may be far: then no overlap
\* begins.  A complete one promotes.
RenderOverlap(p, overlap) ==
    LET q == IF p.crossfade = NoCandidate /\ overlap # "early"
             THEN [p EXCEPT !.crossfade = p.prepared, !.prepared = NoCandidate] ELSE p
    IN  IF overlap = "complete" /\ CurrentTrackIsPlaying(q) THEN PromoteCrossfade(q) ELSE q

\* A streaming track stops at its natural end, a decoded one is followed by
\* the prepared track.
RenderEnd(p, eof) ==
    LET q == [p EXCEPT !.track.atEnd = @ \/ eof,
                       !.track.playing = @ /\ ~(p.track.streaming /\ eof)]
    IN  IF /\ ~q.track.streaming /\ q.track.atEnd
           /\ CurrentTrackIsPlaying(q) /\ q.prepared # NoCandidate
        THEN PerformGaplessSwap(q) ELSE q

\* The fade is finalized before and read after the audio is rendered; the
\* clock may pass its end in between.
Rendered(p, level, over, overLater, overlap, eof) ==
    LET q == Snapshot(FinalizeFade(CheckLevel(p, level), over))
        o == IF Overlapping(q) THEN RenderOverlap(q, overlap) ELSE q
    IN  IF Silent(q) THEN q ELSE RenderEnd(TakeFadeGain(o, overLater), eof)

\* What the callback finds, where anything depends on it.  Without a track it
\* only lets a fade-out expire.
Levels   == IF player.track.streaming THEN {"low", "middle", "high"} ELSE {"middle"}
Overlaps == IF Overlapping(player) THEN {"early", "partial", "complete"} ELSE {"early"}
Clock    == IF player.fade = "none" THEN {FALSE} ELSE BOOLEAN

Render ==
    /\ output = "open"
    /\ Loaded(player) \/ player.fade = "out"
    /\ \E level \in Levels, over, overLater \in Clock, overlap \in Overlaps,
          eof \in BOOLEAN :
         /\ over => overLater
         /\ player' = Rendered(player, level, over, overLater, overlap, eof)
    /\ UNCHANGED <<requestVars, preloadVars, stemsJob, queue, co, slot, outputVars,
                   library, clear, inputs, historyVars>>

-----------------------------------------------------------------------------
(* Play commands and their threads.                                        *)

Input == inputs < MaxInputs /\ inputs' = inputs + 1

Send(command) ==
    /\ Len(queue) < MaxQueue
    /\ queue' = Append(queue, command)

\* The id is taken under the controller's lock, before the song is looked up.
Begin(song) ==
    /\ latest < MaxRequests /\ song \in Choices[latest + 1]
    /\ latest' = latest + 1
    /\ loads' = [loads EXCEPT ![latest + 1] =
                    [song |-> song, phase |-> "begun", retired |-> FALSE]]
    /\ UNCHANGED <<worker, preloadVars, stemsJob, queue, co, player, slot, outputVars,
                   library, clear, inputs, historyVars>>

\* The flag of whoever owns background_shutdown is set, then replaced; then
\* the song is looked up.
RetirePrevious(r) ==
    /\ loads[r].phase = "begun"
    /\ worker' = r
    /\ LET found == loads[r].song \in library \cup Previews IN
         /\ loads' = [q \in Requests |->
               IF q = r THEN IF found THEN [loads[q] EXCEPT !.phase = "asked"] ELSE Ended(loads[q])
               ELSE IF q = worker THEN [loads[q] EXCEPT !.retired = TRUE] ELSE loads[q]]
         /\ IF found
            THEN Send([NoCommand EXCEPT !.op = "BeginLoad", !.req = r, !.song = loads[r].song])
            ELSE UNCHANGED queue
    /\ UNCHANGED <<latest, preloadVars, stemsJob, co, player, slot, outputVars,
                   library, clear, inputs, historyVars>>

\* A load thread that finds its flag set ends.  Otherwise it installs its track,
\* and the flag may be set between the last look at it and that; or it fails,
\* whatever the flag says.  Who fetches the source goes on listening.
EndRetired(r) ==
    /\ loads[r].phase = "working" /\ loads[r].retired
    /\ loads' = [loads EXCEPT ![r] = Ended(@)]
    /\ UNCHANGED <<latest, worker, preloadVars, stemsJob, queue, co, player, slot, outputVars,
                   library, clear, inputs, historyVars>>

\* Mutant of FailLoad: an error ends the thread without a word.
FailQuietly(r) == UNCHANGED queue

FailLoad(r) == Send([NoCommand EXCEPT !.op = "FailLoad", !.req = r, !.song = loads[r].song])

Deliver(r) ==
    /\ loads[r].phase = "working"
    /\ \/ \E streaming \in Streaming(loads[r].song) :
          /\ Send([NoCommand EXCEPT !.op = "InstallReady", !.req = r,
                      !.song = loads[r].song, !.streaming = streaming])
          /\ loads' = [loads EXCEPT ![r] = IF streaming /\ @.song \in Remote \cup Previews
                                          THEN [@ EXCEPT !.phase = "serving"] ELSE Ended(@)]
       \/ /\ FailLoad(r)
          /\ loads' = [loads EXCEPT ![r] = Ended(@)]
    /\ UNCHANGED <<latest, worker, preloadVars, stemsJob, co, player, slot, outputVars,
                   library, clear, inputs, historyVars>>

\* A server without range requests: the file is decoded whole and installed,
\* unless the thread was retired.
FallBackToFullFile(r) ==
    /\ loads[r].phase = "serving" /\ loads[r].song \in Remote
    /\ \/ /\ loads[r].song \in library
          /\ Send([NoCommand EXCEPT !.op = "InstallReady", !.req = r, !.song = loads[r].song])
       \/ FailLoad(r)
       \/ loads[r].retired /\ UNCHANGED queue
    /\ loads' = [loads EXCEPT ![r] = Ended(@)]
    /\ UNCHANGED <<latest, worker, preloadVars, stemsJob, co, player, slot, outputVars,
                   library, clear, inputs, historyVars>>

\* A broken fetch is replaced by a new one for the track that is playing.
Reconnect(r) ==
    /\ loads[r].phase = "serving" /\ latest = r
    /\ loads[r].song \in Previews => ~loads[r].retired
    /\ player.track.song = loads[r].song
    /\ Input
    /\ Send([NoCommand EXCEPT !.op = "ReplaceStreamingSource", !.req = r,
                !.song = loads[r].song])
    /\ UNCHANGED <<requestVars, preloadVars, stemsJob, co, player, slot, outputVars,
                   library, clear, historyVars>>

\* The source of a preview was disabled or removed: its supervisor says so,
\* once.  Of a request that a newer one retired, the command would be dropped.
CancelPreview(r) ==
    /\ loads[r].song \in Previews /\ ~loads[r].retired
    /\ loads[r].phase \in {"working", "serving"}
    /\ loads' = [loads EXCEPT ![r].retired = TRUE]
    /\ Send([NoCommand EXCEPT !.op = "CancelPreview", !.req = r, !.song = loads[r].song])
    /\ UNCHANGED <<latest, worker, preloadVars, stemsJob, co, player, slot, outputVars,
                   library, clear, inputs, historyVars>>

-----------------------------------------------------------------------------
(* Other commands of the window.                                           *)

TransportCommand(op) ==
    /\ Input
    /\ Send([NoCommand EXCEPT !.op = op])
    /\ UNCHANGED <<requestVars, preloadVars, stemsJob, co, player, slot, outputVars,
                   library, clear, historyVars>>

\* load_stems remembers the song and the request, decodes, then attaches.
LoadStems ==
    /\ Input
    /\ stemsJob = NoJob /\ Loaded(player) /\ ~player.track.stems
    /\ player.track.song \in library
    /\ stemsJob' = [song |-> player.track.song, req |-> latest]
    /\ UNCHANGED <<requestVars, preloadVars, queue, co, player, slot, outputVars,
                   library, clear, historyVars>>

StemsDecoded ==
    /\ stemsJob # NoJob
    /\ stemsJob' = NoJob
    /\ Send([NoCommand EXCEPT !.op = "AttachStems", !.req = stemsJob.req,
                !.song = stemsJob.song])
    /\ UNCHANGED <<requestVars, preloadVars, co, player, slot, outputVars,
                   library, clear, inputs, historyVars>>

\* Counting, retiring the previous thread and the cancellation are one step
\* under preload_shutdown; a preload is retired once a newer one was asked for.
\* A song that cannot be prepared is treated like none.
SetPreloadCandidate(song) ==
    /\ Input
    /\ asked' = asked + 1
    /\ Send([NoCommand EXCEPT !.op = "CancelPreparedNext", !.gen = asked + 1])
    /\ preloads' = [preloads EXCEPT ![asked + 1] =
                       IF song \in Preparable
                       THEN [song |-> song, phase |-> "spawned", format |-> 0]
                       ELSE DonePreload]
    /\ UNCHANGED <<requestVars, stemsJob, co, player, slot, outputVars,
                   library, clear, historyVars>>

\* The preload thread reads the output format and decodes for it.
PrepareNextTrack(g) ==
    /\ preloads[g].phase = "spawned"
    /\ preloads' = [preloads EXCEPT ![g] =
           IF g = asked /\ preloads[g].song \in library /\ format # 0
           THEN [@ EXCEPT !.phase = "prepared", !.format = format]
           ELSE DonePreload]
    /\ UNCHANGED <<requestVars, asked, stemsJob, queue, co, player, slot, outputVars,
                   library, clear, inputs, historyVars>>

SendPrepared(g) ==
    /\ preloads[g].phase = "prepared"
    /\ Send([NoCommand EXCEPT !.op = "PrepareNext", !.song = preloads[g].song,
                !.gen = g, !.format = preloads[g].format])
    /\ preloads' = [preloads EXCEPT ![g] = DonePreload]
    /\ UNCHANGED <<requestVars, asked, stemsJob, co, player, slot, outputVars,
                   library, clear, inputs, historyVars>>

-----------------------------------------------------------------------------
(* Commands that reach the controller without the coordinator, and the     *)
(* integrity check, which does not.                                        *)

\* delete_songs reads what is playing before it deletes the rows.
DeleteSongs(song) ==
    /\ Input /\ clear = NoClear /\ song \in library \cap Removable
    /\ clear' = [stage |-> "delete", song |-> song, playing |-> player.track.song]
    /\ UNCHANGED <<requestVars, preloadVars, stemsJob, queue, co, player, slot, outputVars,
                   library, historyVars>>

DeleteRows ==
    /\ clear.stage = "delete"
    /\ library' = library \ {clear.song}
    /\ clear' = IF clear.playing = clear.song THEN [clear EXCEPT !.stage = "track"] ELSE NoClear
    /\ UNCHANGED <<requestVars, preloadVars, stemsJob, queue, co, player, slot, outputVars,
                   inputs, historyVars>>

ActivateLibrary ==
    /\ Input /\ clear = NoClear
    /\ clear' = [NoClear EXCEPT !.stage = "track"]
    /\ UNCHANGED <<requestVars, preloadVars, stemsJob, queue, co, player, slot, outputVars,
                   library, historyVars>>

ClearDirectly ==
    /\ clear.stage = "track"
    /\ player' = ClearTrack(player)
    /\ clear' = [clear EXCEPT !.stage = "slot"]
    /\ UNCHANGED <<requestVars, preloadVars, stemsJob, queue, co, slot, outputVars,
                   library, inputs, historyVars>>

\* The songs of the library that is activated are other songs.
ClearSlot ==
    /\ clear.stage = "slot"
    /\ slot' = NoSlot
    /\ library' = IF clear.song = NoSong THEN {} ELSE library
    /\ clear' = NoClear
    /\ UNCHANGED <<requestVars, preloadVars, stemsJob, queue, co, player, outputVars,
                   inputs, historyVars>>

RemoveMissing(song) ==
    /\ Input /\ clear = NoClear /\ song \in library \cap Removable
    /\ library' = library \ {song}
    /\ Send([NoCommand EXCEPT !.op = "InvalidateDeletedSongs", !.song = song])
    /\ UNCHANGED <<requestVars, preloadVars, stemsJob, co, player, slot, outputVars,
                   clear, historyVars>>

-----------------------------------------------------------------------------
(* The output thread.                                                      *)

\* A lost device: the format is published before the stream is rebuilt.
RebuildOutput ==
    /\ Input /\ output = "open"
    /\ output' = "rebuilding" /\ format' = format + 1
    /\ UNCHANGED <<requestVars, preloadVars, stemsJob, queue, co, player, slot,
                   library, clear, historyVars>>

\* Candidates of the old format are dropped, unless the lock is taken.
OutputOpened ==
    /\ output \in {"opening", "rebuilding"}
    /\ output' = "open"
    /\ player' \in {player, CancelCrossfadeAndPrepared(player)}
    /\ co' = IF co.stage = "output" /\ output = "opening" THEN Idle ELSE co
    /\ UNCHANGED <<requestVars, preloadVars, stemsJob, queue, slot, format,
                   library, clear, inputs, historyVars>>

\* The event thread tells the window about a transition.
EmitTransition ==
    /\ player.announced # NoSong
    /\ player' = [player EXCEPT !.announced = NoSong]
    /\ UNCHANGED <<requestVars, preloadVars, stemsJob, queue, co, slot, outputVars,
                   library, clear, inputs, historyVars>>

-----------------------------------------------------------------------------
(* The coordinator.                                                        *)

\* Mutant of Latest: requests are not compared.
AnyRequest(r) == TRUE

Latest(r) == latest = r

\* Commands that are dropped before anything is locked when they are stale.
Stale(c) ==
    \/ /\ c.op \in {"BeginLoad", "InstallReady", "FailLoad", "ReplaceStreamingSource",
                    "AttachStems"}
       /\ ~Latest(c.req)
    \/ c.op = "PrepareNext" /\ format \notin {0, c.format}

Receive ==
    /\ co.stage = "idle" /\ queue # <<>>
    /\ queue' = Tail(queue)
    /\ LET c == Head(queue) IN
         IF Stale(c)
         THEN /\ loads' = IF c.op = "BeginLoad" THEN [loads EXCEPT ![c.req] = Ended(@)]
                          ELSE loads
              /\ UNCHANGED co
         ELSE /\ co' = [stage |-> "handle", cmd |-> c, gen |-> 0]
              /\ UNCHANGED loads
    /\ UNCHANGED <<latest, worker, preloadVars, stemsJob, player, slot, outputVars,
                   library, clear, inputs, historyVars>>

Handling(op) == co.stage = "handle" /\ co.cmd.op = op

\* The rest of a handler touches the slot, with the generation it saw.
ThenSlot == co' = [co EXCEPT !.stage = "slot", !.gen = player'.tgen]
ThenIdle == co' = Idle

handlerRest == <<loads, worker, preloadVars, stemsJob, queue, slot, outputVars,
                 library, clear, inputs>>

HandleBeginLoad ==
    /\ Handling("BeginLoad")
    /\ player' = StartTrackLoading(player, co.cmd.song)
    /\ begun' = co.cmd.req
    /\ ThenSlot
    /\ UNCHANGED <<latest, dismissed, recalled, handlerRest>>

\* A track that was decoded may bring its stems with it.
HandleInstallReady ==
    /\ Handling("InstallReady")
    /\ IF Latest(co.cmd.req)
       THEN /\ LET started == StartTrack(player, co.cmd.song, co.cmd.req, co.cmd.streaming)
               IN  \/ player' = started
                   \/ ~co.cmd.streaming /\ player' = AttachStems(started)
            /\ ThenSlot
       ELSE ThenIdle /\ UNCHANGED player
    /\ UNCHANGED <<latest, historyVars, handlerRest>>

HandleFailLoad ==
    /\ Handling("FailLoad")
    /\ IF player.loading = co.cmd.song
       THEN player' = CancelLoading(player) /\ ThenSlot
       ELSE ThenIdle /\ UNCHANGED player
    /\ UNCHANGED <<latest, historyVars, handlerRest>>

\* A new position may lie at the end of the song.
HandleReplaceStreamingSource ==
    /\ Handling("ReplaceStreamingSource")
    /\ IF Latest(co.cmd.req) /\ player.track.song = co.cmd.song
       THEN \E toEnd \in BOOLEAN : player' = ReplaceStreamingSource(player, toEnd)
       ELSE UNCHANGED player
    /\ ThenIdle
    /\ UNCHANGED <<latest, historyVars, handlerRest>>

\* Mutant of Supersede: the request in flight stays the latest one.
KeepRequest == latest' = latest

\* No request in flight is the latest any more.
Supersede == latest' = latest + 1

HandleCancelPreview ==
    /\ Handling("CancelPreview")
    /\ IF Latest(co.cmd.req) /\ co.cmd.song \in {player.track.song, player.loading}
       THEN /\ Supersede
            /\ player' = ClearTrack(player)
            /\ dismissed' = dismissed \cup {co.cmd.req}
            /\ ThenSlot
       ELSE ThenIdle /\ UNCHANGED <<latest, player, dismissed>>
    /\ UNCHANGED <<begun, recalled, handlerRest>>

\* Resume, pause and seek fail when nothing plays and nothing loads.
HandleResume ==
    /\ Handling("Resume")
    /\ IF Loaded(player) \/ Loading(player)
       THEN player' = Play(player) /\ ThenSlot
       ELSE ThenIdle /\ UNCHANGED player
    /\ UNCHANGED <<latest, historyVars, handlerRest>>

HandlePause ==
    /\ Handling("Pause")
    /\ IF Loaded(player) \/ Loading(player)
       THEN player' = Pause(player) /\ ThenSlot
       ELSE ThenIdle /\ UNCHANGED player
    /\ UNCHANGED <<latest, historyVars, handlerRest>>

HandleSeek ==
    /\ Handling("Seek")
    /\ IF Loaded(player) \/ Loading(player)
       THEN /\ \E toEnd \in BOOLEAN : player' = SeekTo(player, toEnd)
            /\ recalled' = (recalled \/ (/\ Loaded(player) /\ player.crossfade # NoCandidate
                                         /\ player.crossfade.gen # player.expected))
            /\ ThenSlot
       ELSE ThenIdle /\ UNCHANGED <<player, recalled>>
    /\ UNCHANGED <<latest, begun, dismissed, handlerRest>>

HandleAttachStems ==
    /\ Handling("AttachStems")
    /\ player' = IF Latest(co.cmd.req) /\ player.track.song = co.cmd.song
                 THEN AttachStems(player) ELSE player
    /\ ThenIdle
    /\ UNCHANGED <<latest, historyVars, handlerRest>>

\* Mutant of Installable: only the output format is compared.
FitsOutput(c) == format = c.format /\ format # 0

Installable(c) == format = c.format /\ format # 0 /\ c.gen = player.expected

HandlePrepareNext ==
    /\ Handling("PrepareNext")
    /\ player' = IF Installable(co.cmd)
                 THEN [player EXCEPT !.prepared = [song |-> co.cmd.song, gen |-> co.cmd.gen]]
                 ELSE player
    /\ ThenIdle
    /\ UNCHANGED <<latest, historyVars, handlerRest>>

HandleCancelPreparedNext ==
    /\ Handling("CancelPreparedNext")
    /\ player' = [player EXCEPT !.expected = co.cmd.gen, !.prepared = NoCandidate]
    /\ ThenIdle
    /\ UNCHANGED <<latest, historyVars, handlerRest>>

\* A load of a deleted song is superseded, a track that played is cleared.
HandleInvalidateDeletedSongs ==
    /\ Handling("InvalidateDeletedSongs")
    /\ player' = InvalidateSong(player, co.cmd.song)
    /\ IF player.loading = co.cmd.song
       THEN Supersede /\ dismissed' = dismissed \cup {begun}
       ELSE UNCHANGED <<latest, dismissed>>
    /\ IF player.track.song = co.cmd.song THEN ThenSlot ELSE ThenIdle
    /\ UNCHANGED <<begun, recalled, handlerRest>>

\* Mutant of MarkCdgSeek: the decoder is told to seek, not its generation.
KeepSlot(gen) == slot

MarkCdgSeek(gen) == IF slot = NoSlot THEN NoSlot ELSE [slot EXCEPT !.gen = gen]

UpdateCdgGeneration(gen) == IF slot = NoSlot THEN NoSlot ELSE [slot EXCEPT !.gen = gen]

\* What each handler does to the slot.
SlotAfter(cmd, gen) ==
    CASE cmd.op = "BeginLoad" -> {[state |-> "loading", song |-> cmd.song, gen |-> gen]}
      [] cmd.op = "InstallReady" ->
           {NoSlot} \cup {[state |-> s, song |-> song, gen |-> gen] :
                              s \in {"ready", "error"}, song \in {cmd.song} \cap Graphics}
      [] cmd.op \in {"Resume", "Pause"} -> {UpdateCdgGeneration(gen)}
      [] cmd.op = "Seek" -> {MarkCdgSeek(gen)}
      [] OTHER -> {NoSlot}

\* The load thread starts once BeginLoad was answered, and ends at once if it
\* was retired by then.
HandleSlot ==
    /\ co.stage = "slot"
    /\ slot' \in SlotAfter(co.cmd, co.gen)
    /\ loads' = IF co.cmd.op = "BeginLoad"
                THEN [loads EXCEPT ![co.cmd.req] = IF @.retired THEN Ended(@) ELSE
                         [@ EXCEPT !.song = co.cmd.song, !.phase = "working"]]
                ELSE loads
    /\ co' = IF co.cmd.op \in {"InstallReady", "Resume"} THEN [co EXCEPT !.stage = "output"]
             ELSE Idle
    /\ UNCHANGED <<latest, worker, preloadVars, stemsJob, queue, player, outputVars,
                   library, clear, inputs, historyVars>>

\* ensure_output_thread: the first track opens the output, or fails to; an
\* output thread that was started is not waited for again.
EnsureOutput ==
    /\ co.stage = "output"
    /\ \/ output \in {"open", "rebuilding"} /\ ThenIdle /\ UNCHANGED outputVars
       \/ /\ output = "closed"
          /\ output' = "opening" /\ format' = format + 1
          /\ UNCHANGED co
       \/ /\ output = "closed" /\ UNCHANGED outputVars
          /\ co' = IF co.cmd.op = "InstallReady" /\ Latest(co.cmd.req)
                   THEN [co EXCEPT !.stage = "failed"] ELSE Idle
    /\ UNCHANGED <<requestVars, preloadVars, stemsJob, queue, player, slot,
                   library, clear, inputs, historyVars>>

ReportInstallOutputFailure ==
    /\ co.stage = "failed"
    /\ player' = IF player.track.song = co.cmd.song THEN ClearTrack(player) ELSE player
    /\ ThenIdle
    /\ UNCHANGED <<latest, historyVars, handlerRest>>

-----------------------------------------------------------------------------
Coordinate ==
    \/ Receive \/ HandleBeginLoad \/ HandleInstallReady \/ HandleFailLoad
    \/ HandleReplaceStreamingSource \/ HandleCancelPreview \/ HandleResume \/ HandlePause
    \/ HandleSeek \/ HandleAttachStems \/ HandlePrepareNext
    \/ HandleCancelPreparedNext \/ HandleInvalidateDeletedSongs
    \/ HandleSlot \/ EnsureOutput \/ ReportInstallOutputFailure

RunLoad(r) == RetirePrevious(r) \/ EndRetired(r) \/ Deliver(r)

ClearRuntimeState == DeleteRows \/ ClearDirectly \/ ClearSlot

Next ==
    \/ Coordinate \/ Render \/ RebuildOutput \/ OutputOpened \/ EmitTransition
    \/ \E song \in Songs : Begin(song) \/ DeleteSongs(song) \/ RemoveMissing(song)
    \/ \E r \in Requests : \/ RunLoad(r) \/ FallBackToFullFile(r)
                           \/ Reconnect(r) \/ CancelPreview(r)
    \/ \E op \in {"Resume", "Pause", "Seek"} : TransportCommand(op)
    \/ LoadStems \/ StemsDecoded
    \/ \E song \in Preparable \cup {NoSong} : SetPreloadCandidate(song)
    \/ \E g \in Preloads : PrepareNextTrack(g) \/ SendPrepared(g)
    \/ ActivateLibrary \/ ClearRuntimeState

\* The coordinator and the load threads are threads of the process and block
\* only on each other; the output thread answers or fails.
Fairness ==
    /\ WF_vars(Coordinate) /\ WF_vars(OutputOpened)
    /\ \A r \in Requests : WF_vars(RunLoad(r))

Spec == Init /\ [][Next]_vars /\ Fairness

-----------------------------------------------------------------------------
(* Properties.                                                             *)

\* What plays was installed for the request whose loading state was shown
\* last: neither a slow load nor a fallback, a reconnect or a transition ever
\* brings back the track of a request the user replaced (handle_install_ready).
LatestRequestWins == Loaded(player) => player.track.req = begun

\* A load that was withdrawn while it loaded, because its source or its song
\* went away, never starts to play (handle_cancel_preview,
\* handle_invalidate_deleted_songs).
DismissedStaysGone == Loaded(player) => player.track.req \notin dismissed

\* A transition the window has not heard of yet leads to the track that
\* plays: no load, deletion or second transition leaves a stale one behind
\* (pending_transition_out).
AnnouncedIsCurrent ==
    player.announced # NoSong => player.track.song = player.announced

\* Once the cancellation of older candidates was handled, the track prepared
\* to follow is of the newest set_preload_candidate, unless a seek brought
\* back the candidate of an aborted crossfade (install_prepared_track).
CancellationPending ==
    \/ \E i \in 1..Len(queue) : queue[i].op = "CancelPreparedNext"
    \/ Handling("CancelPreparedNext")
CandidateIsLastRequested ==
    player.prepared # NoCandidate /\ ~recalled /\ ~CancellationPending
        => player.prepared.gen = asked

\* The graphics of the track that plays answer to its present generation
\* whenever no handler is between the two locks; otherwise get_cdg_frame
\* refuses every frame and the picture freezes (services/cdg.rs).
CdgFollowsTransport ==
    co.stage # "slot" /\ slot.state = "ready" /\ slot.song = player.track.song
        => slot.gen = player.tgen

\* A track that stopped starts only by a resume or a new installation: the
\* output callback never starts it, nor the next one in its place
\* (current_track_is_playing).
Stopped(p) == Loaded(p) /\ ~p.track.playing /\ p.fade # "in"
StoppedStaysStopped ==
    [][Stopped(player) /\ player'.track.playing
           => Handling("Resume") \/ Handling("InstallReady")]_vars

\* Generations only grow, and one generation names one song: the window
\* tells the events of one song from those of another by it (ADR 0004).
Shown(p) == IF Loaded(p) THEN p.track.song ELSE p.loading
GenerationNamesOneSong ==
    [][/\ player'.tgen >= player.tgen
       /\ player'.tgen = player.tgen => Shown(player') \in {Shown(player), NoSong}
                                           \/ Shown(player) = NoSong]_vars

\* The window is not left loading: the newest request is installed or fails,
\* unless another one replaces it or retires its thread.
Waiting == Loading(player) /\ Latest(begun) /\ ~loads[begun].retired
LoadSettles == Waiting ~> ~Waiting
=============================================================================
