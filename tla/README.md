# TLA+ models of rtsp-simple-server (mediamtx)

This directory holds TLA+ specifications of the concurrent core of the server,
the TLC configurations that check them, and `PROJECT.json`, the machine-readable
index. `PROJECT.json` lists each component, run, mutant, the source lines behind
each definition, the findings and the hazards.

## The system and its parts

| Part | Source | Role |
|---|---|---|
| Path | `src/internal/core/path.go` | One goroutine per stream name. It binds at most one source (a publisher, a static source or a redirect) to N readers. It parks describe and readerAdd requests until an on-demand source is ready, and it runs the on-demand state machines and their four timers. |
| Path manager | `src/unnamed/part_002` | It resolves a name to a path configuration, creates paths on first use, removes them when they close, and recreates or reloads them on configuration change. |
| Static sources | `src/unnamed/part_001` (`rtspSource`, `sourceRedirect`) | The `rtspSource` pulls from a remote server and calls `setReady` / `setNotReady` on its path. The `sourceStatic` wrapper that restarts it is not in this tree. |
| Connections | `src/unnamed/part_000`, `src/internal/core/rtmp_conn.go`, the SRT connection in `core.go` | Clients of the path manager and of a path: `readerAdd`, `publisherAdd`, `publisherStart`, and, deferred, `readerRemove` / `publisherRemove`. |
| Format processors | `src/internal/formatprocessor/*.go` | Per-codec RTP and access-unit processing: parameter-set extraction, remuxing, and RTP re-encoding. |
| Recorder | `src/internal/record/*.go` | The agent's restart loop and the fMP4 segment writer. |
| Core | `src/internal/core/core.go` | One goroutine (`Core.run`) that creates every resource in order, and on a configuration reload (file watcher or API) closes the ones whose settings changed, in reverse dependency order, then creates what is missing. |
| Metrics, HTTP | `metrics.go`, `http_server.go` | The metrics HTTP server answers `GET /metrics` on its own goroutine by listing the path manager and the servers registered with it. A panic in a handler ends the process (`exitOnPanicHandler`). |

These parts talk only through request channels. A client sends a request and
then blocks on a reply channel. Every client wrapper also selects on the
callee's `ctx.Done()`, so a request sent to a path that has ended returns
"terminated".

## Modules

### `Path.tla`: the path event loop

- **State.**
  - The `path` struct fields that steer control are: `source`, `stream`,
    `readers`, the two held-request lists (as sets of readers), both on-demand
    states, the four timers (TRUE while armed) and `onDemandCmd`.
  - A stream is an identifier; `streamCount` names the next one.
  - The configuration is a record of the flags that select branches:
    source kind, on demand, regexp, fallback and `disablePublisherOverride`.
  - The environment is each reader's and publisher's request state, whether
    the path has closed it, and its last reply.
  - The static source is `staticState`. Its value `notReadySent` is a
    source whose reading ended: its deferred `setNotReady` has been taken by
    `pa.run` and it waits for the reply. `exiting` is a source the path has
    stopped after replying, whose goroutine has still to end.
  - `stopping` is `pa.run` inside `sourceStatic.stop()`, waiting for that
    goroutine. `Serving` (running and not `stopping`) guards every case of
    the `select`: while the path waits, it takes nothing else.
- **Actions.** There is one action per case of the `select` in `path.run`, or
  per branch of a handler. Examples are `HandleDescribeFallback` and
  `HandlePublisherAddRefused`.
  - Every call a handler makes is part of its action. This includes
    `sourceSetNotReady`, `onDemand…Stop` and `…ScheduleClose`, and the trailing
    `if pa.shouldClose() { return }`. The last one is `LeaveIfUnused`, which also
    performs the part of the teardown that still matters (timers, command).
  - A client's send and the path's handler form one step, because the channels
    are unbuffered and the path handles one request at a time.
  - A parked request leaves its client in a held state until a later step
    answers it.
  - The one exception is the static source's `setNotReady`.
    `SourceStaticNotReadySent` is the source's send (the deferred call in
    `rtspSource.run` and the select of `sourceStaticSetNotReady`).
    `SourceStaticSetNotReady` is the path's handler, which replies with
    `close(req.res)` and only then calls `onDemandStaticSourceStop`. Between
    the two steps the close timer or `pa.close` can stop the source, and the
    source's select then takes `sourceStaticCtx.Done()`.
  - When the handler stops the source, `stop()` waits for the source's
    goroutine, which can end only once it has its reply. The handler ends in
    `SourceStaticExit`: the goroutine ends, `stop()` returns and the
    `shouldClose` check runs. The order is in the model, so TLC can see the
    deadlock that the other order would cause.
  - `Terminate` is `<-pa.ctx.Done()` together with the teardown after the loop.
  - The `…Terminated` actions are client wrappers that find the path gone.
- **Fairness.**
  - Each armed timer eventually fires (weak fairness). The Go runtime delivers
    the timer, and `pa.run` selects over all its channels.
  - A connection the path has closed eventually sends its deferred
    `readerRemove` / `publisherRemove` (weak fairness on those steps only).
    Closing a connection cancels its context, and the remove is deferred in its
    `run`.
  - A `setNotReady` that the source has sent is eventually handled (weak
    fairness), for the same reason as the timers.
  - Nothing else is fair. A client may never send, a remote source may never
    answer, and the path manager may never close the path. These are all
    outside the server's control.

`MC_Path.tla` gives the path configurations each run explores.

### `PathManager.tla`: the path manager and the life cycle of its paths

- **State.**
  - The manager: its loop state (`new`, `running` at its `select`, `waiting`
    inside the `confReload` case, `exited`), whether `pm.ctx` is cancelled,
    `pm.pathConfs`, and for a reload in progress the new configuration, the
    paths it still has to close and the path whose `pa.wait()` it is in.
  - The registry: `pm.paths` (name to path id) and `pm.pathsByConf`. Each
    created path has an id from `1..MaxPaths`, with its name, configuration
    name and whether its entry is a regexp.
  - Each path: `running`, `exiting` (its loop has returned and it is blocked in
    `onPathClose`) or `done` (torn down); whether its context was cancelled;
    and its source, stream and readers, as in `Path.tla` without on-demand.
  - Each connection: `idle`, `routed` (the manager has replied with a path
    and the request to the path has not been handled yet) or `bound`; the
    path it was given; whether the path closed it; and its last reply.
  - A configuration entry keeps only the fields that steer the manager:
    regexp or literal, the names it matches, a field that forces recreation,
    and an RPICamera field that `pathConfCanBeUpdated` lets through.
- **Actions.**
  - `NewPathManager` creates the paths of the literal entries.
  - `PMPathClose` is the `chPathClose` case, including its check that the
    name still belongs to that path. It is followed by the path's teardown.
  - `PMConfReload`, `PMReloadClosePath` and `PMReloadFinish` are the
    `confReload` case. It is split where the manager blocks in `pa.wait()`,
    because paths run while it waits.
  - `PMClose` and `PMExit` are `pm.close()` and the `ctx.Done` case.
  - `PathLoopCancelled` and `PathCloseAbandoned` are the end of `path.run`,
    with `onPathClose` returning through a cancelled context.
  - `ClientAsk…` is the manager's half of `describe` / `readerAdd` /
    `publisherAdd` (resolve, create, reply).
  - `PathReaderAdd…` and `PathPublisher…` are the path's handlers for the
    connection's second request. They include the trailing `shouldClose`
    (`ExitIfUnused`).
  - `PathRequestTerminated` and `PathRemoveTerminated` are the wrappers'
    `ctx.Done` case.
- **Fairness.**
  - Go's `select` picks uniformly among ready cases, so a case that stays or
    keeps becoming ready is eventually taken. The manager's `chPathClose` and
    `ctx.Done` cases and a routed connection's request are strongly fair.
  - A started reload goes on, and a cancelled path leaves its loop and
    `onPathClose`; these are weakly fair.
  - A closed connection removes itself.
  - Reloads, `pm.close`, new connections and voluntary departures are not
    fair.
- **Bound.** `MaxPaths` bounds the path instances of one behaviour. A reload
  starts only if the paths it may create fit in it.

`MC_PathManager.tla` gives two names, a literal entry `n1` and a regexp entry
`re`, and four configurations:

- `Initial`;
- `Recreated`: `n1` changed so that its path is recreated, and the regexp
  narrowed so that `n2` is unconfigured;
- `Updated`: only an RPICamera field of `n1` changed;
- `Widened`: `n1`'s entry deleted, and the regexp covering both names.

`MC_PathManagers.tla` checks two setups of `PathManager` in one state space:
- `routing`: `Initial` only, with reader `r1` and publisher `p1`;
- `reload`: all four configurations, with reader `r1` only.

The setups are two `INSTANCE`s over the same variables. A variable `setup`,
chosen in `Init` and never changed, says which one a behaviour follows. The
fairness of the two instances is restated over guarded steps, so that each
conjunct covers the same action of both setups. Properties read the instance
of the current setup. Adding the publisher to the reload setup instead grows
the state space past what TLC checks in minutes.

### `H265Processor.tla`: the H.265 format processor

- **State.** The stored VPS / SPS / PPS of the track (`t.format`), whether the
  encoder and the decoder exist, and the outcome of the last `Process`:
  - the AU it remuxed and the result;
  - whether the unit left as the original RTP packets (`asis`), re-encoded,
    with no packets, or as an error.

  There is also a history variable: which parameter types the stream has
  carried in the forms spec §4.1 says are inspected.
- **Data.** A NAL unit is a record of its type and a small value, so
  `bytes.Equal` is record equality. A packet is one of:
  - a single NAL unit;
  - an aggregation packet (AP) of entries, ending cleanly or with a size
    that overruns the payload;
  - a fragmentation unit;
  - a payload shorter than two bytes.
- **Operators.** Each is a fold over the NAL units, as the Go loops are:
  - `rtpH265ExtractVPSSPSPPS`, which keeps the AP loop's re-read of the
    header byte;
  - the two parameter updates, `UpdateFromRTPPacket` and `UpdateFromAU`;
  - `remuxAccessUnit` with its counting pass and its filling pass. A fill
    past the counted length is Go's panic; an unfilled slot stays nil.

  `RemuxRef` and `SpecExtract` are the spec's rules, written as references.
- **Actions.** `ProcessRTP` and `ProcessAU` are the two branches of
  `Process`. The decoder and the encoder (gortsplib) are reduced to their
  outcomes: a complete AU, "more packets needed", or an error.

### `H264Processor.tla` and `MPEG4VideoProcessor.tla`

- `H264Processor` is the H.264 sibling of `H265Processor`: two parameter
  sets (SPS, PPS), STAP-A packets whose entry list ends cleanly, with a
  one-byte tail, a zero size or a size past the payload, FU-A, and the same
  two-pass remux and re-encoding switch. It reads each STAP-A entry's own
  type byte.
- `MPEG4VideoProcessor` models the stored `Config` and `remuxFrame`. A frame
  or payload is a sequence of start-code chunks (VOS, VO, GOV, VOP);
  `bytes.HasPrefix` / `Index` / `Contains` become tests on chunks. The
  gortsplib decoder joins payloads up to the marker bit and refuses a frame
  longer than `MaxFrame` chunks.
- `PassthroughProcessor` is `formatProcessorVP9`. `formatProcessorMPEG1Video`
  and `formatProcessorMPEG1Audio` are the same code on their own types
  (`//nolint:dupl`). They have no parameters and no remux, so the state is:
  - whether the decoder exists;
  - the decoder's pieces of the frame in progress;
  - the last unit;
  - a history of the pieces routed as is since the last starting packet.

  A packet is a piece with its start and marker flags, its size against
  `udpMaxPayloadSize` and the caller's `hasNonRTSPReaders`. The decoder
  (gortsplib) is reduced to its outcomes. A non-starting packet with no
  frame before it is `ErrNonStartingPacketAndNoPrevious`. A frame past
  `MaxFrame` pieces is an error. The marker completes the frame, and
  otherwise more packets are needed.
- In all four processors the constant `GenerateRTPPacketsValues` is the
  `generateRTPPackets` argument of the constructor, chosen once per
  behaviour: FALSE for RTSP sources (units are RTP packets), TRUE for sources
  that hand over decoded access units or frames. The passing runs explore
  both.
- The streams each processor is checked on (NAL unit alphabets, packet
  shapes, frame shapes) live in `H264Streams`, `H265Streams` and
  `MPEG4Streams`, modules with no constants or variables.
- `MC_FormatProcessors` composes the processors as a stream holds them:
  one per track, picked by the codec (`formatprocessor.New`). Each processor
  is an `INSTANCE` with its variables renamed. `codec` is chosen in the
  first state, and a step is a step of that codec's processor with the other
  two unchanged. The processors share no state, so this is the union of
  their behaviours, not their product. The processors of the other codecs are
  never created, so their `generateRTPPackets` is pinned to one value.
  VP9, MPEG-1 Video and MPEG-1 Audio are three instances of
  `PassthroughProcessor` over one set of variables. `MPEG1VideoProcessUnit`
  and its siblings name the MPEG-1 processors' operations.
  `MC_H265Processor` and `MC_MPEG4VideoProcessor` keep one processor each,
  for the violation runs.

### `OnDemandSource.tla`: what an on-demand source promises

An abstract machine of spec §4.4 without the event loop: requests made while
no stream is up are parked and start the source; readiness answers them all;
the source is closed only once nobody reads it; a ready timeout fails what is
parked. Both timers are weakly fair. `MC_Path.tla` maps `Path` onto it
(`INSTANCE OnDemandSource WITH …`): the diagram state is
`onDemandStaticSourceState`, the parked requests are `describeHeld` and
`readerAddHeld`, the stream is up when `pa.stream` is set, the attached readers
are `pa.readers`. A path whose source is not an on-demand static source maps to
the idle machine (nothing parked, nothing live), which only sees the path
close, so one run checks the refinement over every kind of configuration.

### `Core.tla`: resources across reloads

- **State.** `phase` (`creating` inside `createResources`, `running` at
  `run`'s `select`, `closing` inside `closeResources`, `exited`, and
  `panicked` after a handler panic ended the process), `p.conf`,
  the argument of the `closeResources` in progress (a configuration, or
  `NoConf` for nil) and `calledByAPI`, the set of resources whose close flag
  is set, and the resources still to visit in the current create or close
  order.
- **Resources.** Each of the fifteen fields of `Core` holds an instance
  number (0 for nil); `ref[r][d]` is the instance of `d` that `r`'s
  constructor was given (`Captured`). The path manager's paths, the
  configuration the api serves and the path manager registered in the live
  metrics (`pathManagerSet`) are the effects of the calls Core makes on them.
- **Close flags.** `CloseFields[r]` are the fields `closeResources` compares
  for `r` (fields read by one resource only are grouped, e.g. `HLSSettings`),
  `CloseAlso[r]` the other flags its flag includes, as the code lists them
  (the api's has no RTMPS term); `CloseFlag` closes the recursion. The record cleaner's flag compares two results of
  `gatherCleanerEntries`, whose map read and unstable sort leave the order of
  entries that differ only in `RecordFormat` open: the model takes every order
  the comparator accepts.
- **Actions.** `CreateStep` / `CreateMake` / `CreateFail` are one resource of
  `createResources`: skipped, made, or its constructor fails (New, or `run`
  after a failed reload, then calls `closeResources(nil, false)`). `Reload` is
  a changed file (when the watcher exists) or an API request (when the api
  exists), with the flags, the path manager's `confReload` and the api's
  `confReload` of `closeResources`' first part. `CloseStep` closes one
  resource; after the last, `reloadConf` sets `p.conf` and creates again, or
  the program exits. `Shutdown` is an interrupt, `Close`, or a file that does
  not load.
- `OnMetrics` is a `GET /metrics` served by the metrics server's goroutine.
  That goroutine runs from `newMetrics` until `metrics.close`, so the step
  can come between any two steps of `Core.run`. With a path manager
  registered, the handler only reads, which is a stutter. With none, the
  call through the nil interface panics, and the process exits.
- **No fairness.** Reloads and shutdown come from outside; the runs check
  safety only. Deadlock is not checked: the program stops after `exited`.

### `Recorder.tla`: the record agent and the fMP4 reader callbacks

- **State.** Where `Agent.run` is (first select, restart pause, returned),
  whether `terminate` is closed, the restarts so far, and the current
  `agentInstance` (live, failed, closed). For the instance's
  `recFormatFMP4` with one track:
  - the fmp4 codec's parameters (`codecP`);
  - the random-access gate (`firstReceived`, `dtsExtractor != nil` or
    `parsed`);
  - `lastPTS` of the MPEG video readers;
  - the current segment: none, buffering with no file (`fi == nil`) or
    written, with the init it wrote and the parameters of every sample
    recorded after it.

  `carried`, a history variable, is the parameter set the stream carried
  last.
- **Data.** A parameter set (an SPS, a sequence header, a config, a frame
  size) is a small number, and `NoHdr` stands for a unit that carries none.
  VP9 sizes are `<<width, height>>` pairs.
- **Actions.**
  - `StreamUnit` delivers a unit to the live instance's reader callback for
    the track's codec (`OnAV1`, `OnVP9`, `OnH265`, `OnH264`,
    `OnMPEG4Video`, `OnMPEG1Video`, `OnMJPEG`, `OnMPEG1Audio`, `OnAC3`,
    `OnOpus`, `OnMPEG4Audio`, `OnLPCM`). Each callback follows the code:
    - a parameter that differs from the codec's replaces it and calls
      `updateCodecs`;
    - units before the first random access are dropped;
    - the H.26x DTS extractor may fail;
    - a backwards PTS after the first GOV is a refused B-frame;
    - the header of MJPEG, MPEG-1 Audio and AC-3 is parsed once.

    A callback error ends the instance (spec §7: it terminates the reader).
  - `RunInstanceDone`, `RunTerminate`, `RunRestart` and
    `RunPauseTerminate` are the cases of the two selects of `Agent.run`.
    `Close` closes `terminate`; `Agent.Close` then waits for the run loop
    to return.
- **Modelled from the spec.** The segment writer (`recFormatFMP4Segment`,
  `track.record`) is not in this tree. `RecordSample` follows spec §4.7 and
  the comment of `updateCodecs`:
  1. a sample opens a segment, or rotates it at a sync sample once its
     duration is reached;
  2. the part may then reach its duration;
  3. the segment's first written part creates the file and writes the init
     with the track's codec.
- **Fairness.** The run loop is weakly fair, because its goroutine always
  runs again. The stream and the caller of `Close` are not fair.

### `Conn.tla`: an RTMP or SRT connection

`Conn.tla` models one connection from the goroutine that `newRTMPConn` or
`newSRTConn` starts to `parent.closeConn`. `proto` picks the protocol.

- **State.**
  - `main`: where the run goroutine is.
  - `rd`: where the reader goroutine is. For RTMP this is `runReader` with
    `runRead` / `runPublish`; for SRT it is `runPublishReader`.
  - `lst`: for SRT, where the listener is in `srtConn.new` / `setConn`.
  - `ctxDone` and `nconnClosed`: the context is cancelled, and the socket
    is closed.
  - What others hold of the connection: the path's registration (`reg`:
    reader or publisher), the stream's `AddReader` callbacks
    (`subscribed`), and whether the path's stream came from this
    publisher's `startPublisher` (`publishing`).
- **Actions, RTMP.**
  - `RTMPHandshake` is `rtmp.NewServerConn`.
  - `RTMPAdd` is `addReader` / `addPublisher`, with the
    uninterruptible `RTMPAuthPause` after an authentication error.
  - `RTMPSetupRead` covers `setupVideo` / `setupAudio`, the
    no-supported-codec error and `rtmp.NewWriter`.
  - `NewReader`, `StartPublisher` and the read loop make up `runPublish`.
  - `RTMPReturn` is the defers.
  - `RTMPRunInner` is `runInner`'s select on `readerErr` and `ctx.Done`.
- **Actions, SRT.**
  - `SRTNew` and `SRTNewTerminated` are `runInner`'s first select.
  - `SRTDispatch` is `runInner2`'s parse of the stream id.
  - `SRTAdd` is the path-manager call. The authentication pause is
    commented out in the code, so the model has none.
  - `SRTExchange`, `SRTSetConn` and `SRTWaitConnTerminated` are
    `exchangeRequestWithConn` and `setConn`.
  - `SRTSetupRead` is `runRead`'s track loop.
  - `SRTPublish` and `SRTRunPublish` are `runPublish` around
    `runPublishReader`.
  - `SRTRelease` is the defers. `runRead` has no `stream.RemoveReader`.
  - `SRTAnswerNil` is `runInner`'s `req.res <- nil` when `answerSent` is
    false.
- **Environment.** These steps are not owed, so they get no fairness:
  - `Close` (`c.close()`);
  - `PathDrop` (the path's `sourceSetNotReady` closing its readers, or an
    overriding publisher closing this one);
  - `ReadError` and `WriteError` (the peer).

  The path's answers are free choices. `startPublisher` is refused once
  the path no longer holds this publisher.
- **Fairness.** The goroutines' own steps and the listener are weakly fair
  (`ConnStep`). None of them waits on anything but the others, the path
  manager (which answers: `PMClientRequestAnswered`) and a finite timer.
- **Left out.** The publishing side's per-track data callbacks only carry
  timestamps. `src/unnamed/part_000` is a later copy of `rtmp_conn.go` with
  the same control.

### `RTMPReader.tla`: an RTMP reader's stream callbacks

`setupVideo` and `setupAudio` attach callbacks to the stream. The
connection's `asyncWriter` runs them one unit at a time, in stream order, so
one unit is one step.
- **State.**
  - whether `videoDTSExtractor` exists;
  - whether a callback has returned an error, which stops the writer;
  - the H.264 access units written;
  - the audio frames the last audio callback wrote;
  - the audio format `setupAudio` picked;
  - a history of the video units handed over.
- **Data.** An access unit is `nil`, parameter sets only, an IDR or a
  non-IDR picture, and may be rejected by the DTS extractor (gortsplib). An
  MPEG-1 audio frame is layer 3, another layer, or a header that does not
  parse.
- **Actions.**
  - `OnVideo` is the H.264 callback. It skips everything until an IDR,
    makes the extractor there, and from then on writes every unit with a
    picture.
  - `OnAudio` is the callback of the picked format. The MPEG-1 callback
    returns at the first frame that is not layer 3, after writing the frames
    before it.

`MC_StreamClients.tla` puts one stream's parts in one run: the format
processors (`MC_FormatProcessors`, instantiated with its `codec` renamed
`trackCodec`), the record agent, a connection and an RTMP reader's
callbacks. `client` is chosen in the first state, and each step moves that
part only, the way `MC_FormatProcessors` composes the processors. The parts
share no state, and the ones not chosen sit in one initial state.

## Runs

| Run | Configuration | States | What it shows |
|---|---|---|---|
| `path` | every path configuration (on-demand and always-on static, on-demand publisher, regexp publishers with and without fallback and override, redirect); 2 readers, 2 publishers, `MaxStreams = 3` | 432,896 | All `Path` invariants, `StreamNotReplaced`, `SourceNotReadyAnswered`, `OnDemandIdleStops`, and the refinement of `OnDemandSource`. |
| `path_held_hang` (violation) | `runOnDemand` publisher; `MaxStreams = 2` | n/a | `HeldRequestAnswered` fails; see Findings. |
| `pm` (`MC_PathManagers`) | `routing`: `Initial`, reader `r1`, publisher `p1`; `reload`: all four configurations, reader `r1`; `MaxPaths = 3` | 54,239 | Routing, self-closing regexp paths, publisher override, reloads that recreate, update, delete and widen entries, and `pm.close` keep the registry consistent. The manager never routes to a cancelled path and never runs two paths of one name. Every routed request is answered, and every started reload finishes. |
| `pm_terminated` (violation) | `Initial`; reader `r1` | n/a | `TerminatedOnlyWhenClosed` fails; see Findings. |
| `h265_ap_params` (violation) | H.265 RTP sources | n/a | `KeyFrameCarriesParams` fails; see Findings. |
| `mpeg4_split_config` (violation) | packets carrying pieces of frames | n/a | `ConfigBeforeGOV` fails; see Findings. |
| `core` | seven configurations, two reloads | 130,002 | See `Core` below. |
| `core_nil_call` (violation) | as `core` | n/a | `NoNilResourceCall` fails; see Findings. |
| `core_stale_rtmps` (violation) | as `core` | n/a | `NoStaleReference` fails; see Findings. |
| `stream` (`MC_StreamClients`) | the format processors (H.264 and H.265: RTP packets of every shape, size, reader mix and decode outcome, and AUs of up to three NAL units; MPEG-4 Video: whole frames and one-frame packets, `MaxFrame = 4`; VP9 and MPEG-1: packets of two pieces with every flag, `MaxFrame = 2`); or the record agent over every fMP4 codec (VP9 with square frames), two parameter sets, `MaxRestarts = 2`; or an RTMP or SRT connection; or an RTMP reader's callbacks over three video units | 31,665 | See the format processors, `Recorder`, `Conn` and `RTMPReader` below. |
| `recorder_vp9` (violation) | VP9 frames of every size | n/a | `SamplesSinceInitMatch` fails; see Findings. |
| `srt_leak` (violation) | an SRT connection | n/a | `ConnStreamReleasedOnClose` fails; see Findings. |

Between them the passing runs fire every action of each module's `Next`: the
`Path` run covers every configuration in one behaviour set, and the `pm`
run covers `PathManager` through its two setups.

Every property of a passing run has a mutant (listed in `PROJECT.json`): the
code with one plausible bug, such as a dropped flush, a close that is never
scheduled, a parameter update that forgets the stored value, a close order
swapped or a close flag without one of its terms. TLC finds each mutant
violating its property under the run's own configuration.

### Properties

`Path`:

- `ReaderOnLiveStream`: a reader that the path has not closed is registered and
  reads the current stream. It breaks if any teardown forgets to close readers.
- `StreamHasLiveSource`: a stream exists only while its static source is ready,
  or while its publisher is publishing and not closed.
- `CloseTimerSparesReaders`: an armed close timer never has readers.
- `NoHeldWhileReady`: no request stays parked once a stream exists.
- `StreamNotReplaced` (action): a stream is never swapped for another in one
  step.
- `SourceNotReadyAnswered` (liveness): a static source whose reading ended
  is not left waiting on the path, nor the path on it. Its `setNotReady` is
  answered, or dropped when the source is stopped, the stream it fed is torn
  down, and `pa.run` comes back out of `stop()` to its `select`. It breaks if
  the handler calls `onDemandStaticSourceStop` before `close(req.res)`:
  `stop()` then waits for a goroutine that waits for the reply (the deadlock
  the comment at `path.go:432` names).
- `OnDemandIdleStops` (liveness): an on-demand stream nobody reads is
  eventually torn down, unless a reader joins.
- `OnDemandRefinement`: `Path` implements `OnDemandSource`. For on-demand
  static sources this includes that a parked request is answered (the ready
  timer is weakly fair in both), which is why `HeldRequestAnswered` is only a
  property of the publisher run where it fails.

`PathManager` (in `MC_PathManagers` each name has the prefix `PM`):

- `RegistryConsistent`: `pm.paths` and `pm.pathsByConf` describe the same
  paths after any mix of creations, self-closes, reloads and shutdown.
- `RoutesToLivePath`: while the manager runs, every registered path is
  uncancelled and not torn down.
- `OneLivePathPerName`: two path instances with one name never run at once.
  This is the purpose of `pa.wait()` in `confReload`.
- `ClientRequestAnswered` (liveness): a connection the manager routed is
  eventually answered by the path, even when the path closed itself.
- `ReloadCompletes` (liveness): a started `confReload` finishes. This relies
  on the `pa.ctx.Done` case of `onPathClose`, because the manager is not at
  its `select`.

Format processors (in `MC_FormatProcessors` and the `stream` run each name
has the codec as a prefix, for example `H264RemuxMatchesReference`; the
run's `TypeOK` is the conjunction of every part's type invariant):

- `RemuxMatchesReference` (H.264, H.265): the two-pass `remuxAccessUnit`
  equals the canonical rule of spec §4.1 for the parameters in force after
  the unit's own update. It is violated by a nil slot or a panic.
- `ParamsMonotone` (H.265, action): spec §8 (5); a stored parameter set is
  never cleared.
- `ReencodeOnceStarted` (H.264, H.265): spec §4.1; once an RTP source's
  encoder exists, no unit leaves as its original packets.
- `KeyFrameCarriesParams` (H.264): spec §8 (2); once the stream has carried
  all parameter sets, a remuxed key frame starts with them.
- `ConfigBeforeGOV` (MPEG-4): a frame sent on that contains a GOV starts
  with the config the stream carried last.
- `PassthroughFrameMatchesRouted` (VP9, MPEG-1): a frame decoded for
  non-RTSP readers is made of exactly the packets routed to RTSP readers
  since the frame began. It holds however `hasNonRTSPReaders` changes
  between the packets of a frame. It breaks if the decoder is fed only while
  non-RTSP readers are present, which drops the `|| t.decoder != nil`.

`Core`:

- `NoStaleReference` (checked in `core_stale_rtmps`, where it fails): every
  running resource holds the current instance of each resource it was
  given, at every step of a reload. It needs both the close flags (each
  includes the flags of what the resource was given) and the close order (a
  resource before what it was given). `closeAPI` lacks the RTMPS term, so
  it does not hold; see Findings.
- `LoggerOutlivesUsers`: no resource that logs through `Core.Log` runs
  without a logger.
- `PathManagerConfCurrent`, `ApiConfCurrent`: between reloads the path
  manager and the api work on `p.conf`, whether they were recreated or given
  `confReload` (the api not when the reload came from it).
- `MetricsKnowsPathManager`: the running metrics lists the running path
  manager; a metrics instance made in a reload must come with a new path
  manager.
- `AllClosedOnExit`: nothing runs once the program has exited, also after a
  failed start or a failed reload.
- `NoNilResourceCall` (checked in `core_nil_call`, where it fails): no method
  is called through a nil resource. This covers `p.logger` in `run` and
  `closeResources`, and the path manager in the metrics handler.

`Recorder`:

- `SamplesSinceInitMatch`: every sample recorded into a segment after the
  segment wrote its init has that init's parameters. This is spec §4.7
  ("on codec-parameter change the current segment closes"). It holds across
  parameter changes before and after the first random access, failing
  callbacks, and agent restarts whose new instance starts from the format's
  parameters or a default. It breaks if `updateCodecs` tests `fi` the wrong
  way round, or if a callback sets the codec to something other than what
  the stream carried.
- `ClosedOnReturn`: when `Agent.run` returns, the last instance and its
  segment are closed, whichever select case saw `terminate`.
- `CloseReturns` (liveness): once `terminate` is closed, `run` returns, so
  `Agent.Close` does not hang. It breaks if the first select waits on the
  instance alone.

`Conn`:

- `ConnReleasedOnClose`: when `run` calls `closeConn`, three things hold:
  - the reader goroutine has ended;
  - the path holds neither a reader nor a publisher registration, nor a
    stream, from this connection;
  - for RTMP, the stream holds none of its callbacks.

  It holds whichever of the peer, the path and `c.close()` ends the
  session, and at whichever step. It breaks if `runInner` returns on
  `ctx.Done` without waiting for `readerErr`.
- `ReaderWritesFromFirstIDR` (`RTMPReader`): a reader that joins the stream
  at any unit writes nothing until an IDR. From that IDR on, it writes every
  access unit that carries a picture, in order, while its writer runs. It is
  checked against a reference over the units handed over. It breaks if the
  extractor is made on the first picture instead of the first IDR.
- `ConnStreamReleasedOnClose`: when `run` calls `closeConn`, the stream holds
  none of the connection's callbacks, for either protocol. It fails for SRT
  (`srt_leak`); see Findings.
- `ConnWindsDown` (liveness) has two parts:
  - a cancelled connection reaches `closeConn`, because every blocking
    read ends when `run` closes the socket;
  - an SRT listener blocked on `req.res` gets an answer.

  It breaks if a path of `runInner2` that already answered reports
  `answerSent = false`. The second `req.res` send then blocks forever.

### Bounds

- Two readers are enough for "last reader leaves" to differ from "a reader
  leaves". Two publishers are enough for an override and for a stale
  `publisherStart` / `publisherRemove` from the overridden publisher.
- `MaxStreams = 3` allows a stream to be created, torn down and recreated with
  another stream after it. That is what `StreamNotReplaced` and the
  stale-remove hazards need.
- For `PathManager`, one literal and one regexp name are enough for both
  creation paths and for a self-closing path. One reader lets a regexp path
  close itself. One publisher gives override and `publisherRemove`.
  `MaxPaths = 3` allows the eager path, a regexp path, and one recreation.
- For the H.26x processors, the NAL alphabet has two different values of one
  parameter set (so "differs from the stored one" can be true and false), the
  others once, an AUD, a key frame and a plain slice. AUs have up to three
  NAL units and aggregation packets up to two entries: two key frames in one
  AU (the counting pass) and two copies of one parameter set.
- For MPEG-4, four visual object headers give four configs, and frames of up
  to four chunks fit `MaxFrame`; the violation run splits frames in pieces of
  one or two chunks.
- For VP9 and MPEG-1, two pieces tell a frame that lost its middle packet
  from a whole one. `MaxFrame = 2` lets a third piece be the decoder's
  error.
- For `Core`, seven configurations: the base one, and one each that moves the
  log settings (closes everything), the metrics address (metrics, the path
  manager and the servers that were given them), the paths (the path
  manager's `confReload`, the cleaner's entries) and the RTSP encryption (a
  new RTSPS server, hence a new api). Two more turn RTMP on with both
  listeners, then move the RTMPS listener (a new RTMPS server only). The base configuration has two
  recording paths whose entries differ only in format, so the cleaner's
  unstable order is reached. `MaxReloads = 2` allows a reload after a reload
  that replaced metrics or the logger. Constructors that can fail fail at any
  point.
- For the recorder, two parameter sets are enough for a change. Two
  presentation times let a B-frame go backwards. `MaxRestarts = 2` lets a
  restarted instance fail and restart again. The parse-once codecs (MJPEG,
  MPEG-1 Audio, AC-3) are given streams that keep one format: the code reads
  their header once, and a hazard records what happens otherwise. The pass
  run gives VP9 square frames only, since only those are recorded
  correctly; `recorder_vp9` lifts that restriction. MPEG-4 Video configs come
  with their GOV in one frame, and MPEG-1 Video repeats its sequence header
  before every GOP, as encoders do.
- For a connection, each answer of the path and the peer is a free choice
  at each step, so every order of cancellation, path drop, peer error and
  path refusal around every step is reached. One connection is enough:
  connections share nothing but the path, whose side is `PathManager` and
  `Path`.
- For an RTMP reader, three video units of every kind let a picture come
  before the first IDR, then the IDR and a picture after it. Each unit may
  also be the one the extractor rejects.
- Conditions on data (media, URLs, credentials) are outside the model.

## Findings

**Parked reader hangs after an on-demand publisher left**
(`path.go:848-853`, `808-813`, `743-748`, `386-391`, `609-627`). The sequence is:

1. An on-demand publisher publishes, and its last reader leaves. The state
   becomes Closing and the close timer is armed.
2. The publisher stops or disconnects. The stream is torn down, but the
   on-demand state stays Closing.
3. A new reader's `readerAdd` finds no stream. Because the state is not
   Initial, it is parked without starting the command and without a ready
   timer.
4. The close timer fires. `onDemandPublisherStop` resets the state to Initial
   but does not answer the parked request.

The reader then waits until some later request happens to restart the
command. Spec §4.4 says a parked request is answered when the source is ready
or fails on the ready timeout. TLC finds this as a lasso in `path_held_hang`.

**A connection is refused as "terminated" by a configured, running path
name** (`part_002:470-484`, `path.go:484-493`, `533-539`). This is a spec
gap. The sequence is:

1. A reader's `readerAdd` on a regexp path finds no stream. `shouldClose`
   then ends the path's loop, and the path blocks in `onPathClose`.
2. Before the manager takes that close, it serves another connection's
   request for the same name. The path is still in `pm.paths`, so the
   manager replies with it.
3. The connection's `pa.readerAdd` / `publisherAdd` can only leave through
   `pa.ctx.Done()`. That happens once the manager has taken the close and
   the path has cancelled its context.
4. The connection gets `terminated` while the server runs and the name is
   configured.

Spec §4.4 and §4.5 describe auto-destroy and list `Terminated` as
cancellation. They do not mention this window, and the code does not retry.
TLC finds it in `pm_terminated` with a single reader.
`PMClientRequestAnswered` holds in `pm`, so the connection is never left hanging; it
is only refused.

**Parameter sets in H.265 aggregation packets are never stored**
(`h265.go:58`, a spec/code divergence). Inside the AP loop, the type is
recomputed from `pkt.Payload[0]`, the AP header, so no entry is ever taken as
a VPS, SPS or PPS. TLC's trace in `h265_ap_params` is:

1. An AP with VPS and SPS arrives, then an AP with PPS and a key frame.
2. The stream has now carried all three parameter sets, but none is stored.
3. The key frame is remuxed bare, against spec §8 (2).

The H.264 code (`h264.go:54`) reads the entry's own byte.

**An MPEG-4 config split across packets is replaced by the old one**
(`mpeg4_video.go:120`, a spec/code divergence). `ProcessRTPPacket` takes the
config from each packet's payload, not from the decoded frame. When a frame's
VOS / VO header and its GOV arrive in different packets, no packet holds both,
so `format.Config` is not updated; `remuxFrame` then cuts the frame's new
config and puts the old SDP config in front of the GOV. Spec §4.1 says the
bytes before the GOV of such a frame become the stored Config. TLC finds it in
`mpeg4_split_config`.

**A logger that cannot be opened is closed through a nil pointer**
(`core.go:804-807`, `147-156`, `205-211`, a code bug). `createResources`
returns the error of `logger.New` with `p.logger` nil. `New` checks
`p.logger != nil` before logging, then calls `closeResources(nil, false)`,
whose `closeLogger` branch calls `p.logger.Close()` without that check. After
a reload whose new log settings cannot be opened (the old logger is already
closed by then), `run` logs the error through `p.Log`, that is through the
nil logger, before the same `closeResources(nil, false)`. Checking
`NoNilLoggerUse`, the logger half of `NoNilResourceCall`, under `MC_Core_nil_call.cfg`, TLC's trace is that
`logger.New` fails at start-up and the close order then reaches the logger.

**A metrics scrape during start-up, a reload or shutdown ends the server**
(`metrics.go:81`, `part_002:127-129`, `316-318`, `http_server.go:29-40`, a
code bug). `onMetrics` calls `m.pathManager.apiPathsList()` with no nil
check. It tests every other resource with `interfaceIsEmpty`, and it reads
the field without `m.mutex`. The window is open in three cases:
- from `newMetrics`, whose HTTP server already serves, until `newPathManager`
  calls `pathManagerSet(pm)`, three resources later;
- in a reload that closes both, from the path manager's
  `pathManagerSet(nil)` until `closeResources` reaches metrics;
- at shutdown, over the same stretch.

A scrape in the window panics, and `exitOnPanicHandler` calls
`os.Exit(1)`. TLC's trace in `core_nil_call` is the start-up window: the
logger, the command pool and metrics are made, then `GET /metrics` arrives.
The same run, with that start excluded, reaches the window of a reload that
moves the log settings.

**The VP9 recorder takes the height from the width**
(`rec_format_fmp4.go:226`, a code bug). The VP9 reader compares and sets
`codec.Height` with `h.Width()`. The init of every VP9 recording therefore
says the frame is as high as it is wide. A key frame that changes only the
height neither updates the codec nor closes the segment. TLC's trace in
`recorder_vp9` is:

1. A key frame of size 1x1 opens a segment, whose first part writes an init
   of 1x1.
2. A key frame of size 1x2 is recorded into the same segment.

**After an RTMPS-only reload the api keeps the closed RTMPS server**
(`core.go:717-728`, a code bug). `newAPI` is given `p.rtmpsServer`
(`core.go:531`). `closeAPI` includes the close flag of every server the api
is given, except `closeRTMPSServer`. TLC's trace in `core_stale_rtmps` is:

1. The server starts with RTMP and both listeners: the RTMPS server and the
   api that holds it are made.
2. A reload moves only the RTMPS listener. `closeRTMPSServer` is set,
   `closeAPI` is not.
3. The RTMPS server is closed; the api, still running, holds it. Its RTMPS
   connection listings now go to the closed server until the next reload
   that recreates the api.

**A closed SRT reader stays on the stream** (`core.go:1232`, a code bug).
The SRT `runRead` defers `removeReader` and `sconn.Close`, but it never calls
`stream.RemoveReader`. RTMP's `runRead` defers it (`rtmp_conn.go:269`). Spec
§4.2 has a reader that leaves remove itself from the stream. TLC's trace in
`srt_leak` is:

1. The SRT reader is added to the path and sets up its tracks on the stream.
2. Its writer fails, and the connection releases the path and returns.
3. The stream still holds the reader's callbacks. They are fed every frame
   until the publisher goes away, and one more set is added per reconnect.

## Not modelled, and why

- `reloadConf` on a path only swaps RPICamera fields
  (`pathConfCanBeUpdated`), which steer no control flow. A configuration that
  changes more makes the path manager recreate the path.
- `apiPathsGet` is read-only, as are the manager's `apiPathsList`,
  `apiPathsGet` and `getPathConf` cases. `hlsManagerSet` and the
  `pathSourceReady` / `NotReady` forwarding only notify the HLS manager;
  their one effect on control (the path blocks until the manager or a
  context lets it go) is `ManagerReachable`.
- Authentication and name validation decide on data; a refusal is a reply
  with no state change.
- `newStream` failing is determined by the media description, which is data
  the model leaves out.
- `runOnInit` and `runOnReady` only start and stop external processes.
- The `sourceStatic` wrapper is not in this tree. Its behaviour (restart after
  a failure, dropping a request sent while stopping) is the environment of
  `Path`.

- In `Core`, the resources' own behaviour is left out: each is an instance
  that is made and closed, with what it was given. `confWatcher` is assumed to
  exist (the server was started with a configuration file); without it only
  the API reloads. The SRT server is given `p.metrics` but `metrics.go` has no
  setter for it, so `Captured` leaves that pointer out.
- Of the metrics server, only the path-manager call of `onMetrics` steers
  control. The other setters are called by server code that is not in this
  tree, and each of their listings is guarded by `interfaceIsEmpty`. The
  exposition format is output only.
- For the recorder, only one track is modelled. With several tracks the
  segment is shared, and only video tracks rotate it (`hasVideo`). The
  MPEG-TS format is not in this tree. Sample timestamps only matter to the
  B-frame check. The errors of `NewPartSample*` and of disk writes are left
  out.
- `ConnReleasedOnClose` asks the stream release of RTMP only, so the
  `stream` run passes. The SRT case is `srt_leak`.

## Plan for the remaining components

1. The connections of `Conn.tla` as the clients of `Path`, replacing its
   abstract readers and publishers.
2. The full `Path` handlers inside `PathManager` through `INSTANCE`.
