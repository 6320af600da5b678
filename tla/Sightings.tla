------------------------------- MODULE Sightings -------------------------------
(***************************************************************************)
(* Seeing a part that moves and reaching for where it will be: the camera  *)
(* and its latency (vision/scene_camera.hpp), the detectors                *)
(* (opencv/cv_detector.hpp, vision/toy_detector.hpp), the trackers         *)
(* (vision/tracker.hpp, vision/sandboxed_tracker.hpp), the capabilities    *)
(* that swap them, and the program step that intercepts                    *)
(* (gateway/program_runner.hpp).                                           *)
(*                                                                         *)
(* The belt is a line and time goes in ticks; a frame is the time it was   *)
(* captured and the place of the part in it.  Fractions are in units of    *)
(* 1/Scale.  Image noise is left out, and so is a scene that does not      *)
(* advance with the clock.                                                 *)
(***************************************************************************)
EXTENDS Integers, Sequences, FiniteSets, SequencesExt, FiniteSetsExt

CONSTANTS
  Speed,       \* of the belt, places per tick
  BeltEnd,     \* where the part goes back to the head of the belt
  Clutter,     \* places where a decoy's blob swallows the part's
  Jitter,      \* how many ticks pass between two looks at the world
  Cameras,     \* sensors, [rate, latency] in ticks
  MaxPending,  \* frames a camera keeps
  Window, Gate, MinSpan,  \* settings of the trackers
  Smoothing,   \* of the smoothed one, in Scale
  MaxTravel,   \* what a user's tracker may claim
  Approaches,  \* how many ticks the two moves of a reach take
  FirstLead, Attempts, SightTimeout, GraspReach,  \* settings of a program
  Scale,       \* units in one place
  MaxTime,     \* bound: ticks
  MaxSwaps     \* bound: versions selected

(* Settings are numbers; a window is of two at least and the smoothing of  *)
(* one at most, as the trackers clamp them.                                *)
ASSUME SightingsAssumption ==
  /\ Speed \in Nat \ {0} /\ BeltEnd \in Nat /\ Gate \in Nat /\ Gate < BeltEnd
  /\ Scale \in Nat \ {0}
  /\ Window \in Nat \ {0, 1}
  /\ Smoothing \in 0..Scale
  /\ MaxPending \in Nat /\ FirstLead \in Nat
  /\ Jitter \subseteq Nat
  /\ \A c \in Cameras : c.latency <= c.rate * MaxPending

VARIABLES
  now,       \* the clock
  born,      \* when the part was last at the head of the belt
  camera,    \* the sensor selected
  detector,  \* the version selected: its name and the sensor it holds
  pending,   \* frames of that sensor
  tracker,   \* the version selected
  track,     \* what it keeps
  run,       \* the intercept step
  swaps      \* versions selected so far

sight_vars == <<now, born, camera, detector, pending, tracker, track, run, swaps>>

Trackers == {"snapshot", "constant", "smoothed", "sandboxed"}
None == {}

(* What a sensor that looks at t has of a part put on the belt at b.        *)
Here(t, b) == [at |-> t, place |-> Speed * (t - b)]
Recirculated(t, b) == IF Here(t, b).place >= BeltEnd THEN t ELSE b
Lap(o) == o.at - o.place \div Speed

Resting == [phase |-> "idle", attempt |-> 1, lead |-> FirstLead, waited |-> 0,
            started |-> 0, took |-> 0, aim |-> 0, seen |-> None, sure |-> FALSE]

-------------------------------------------------------------------------------
(* The camera.  At most one frame each period; a look gets the newest one  *)
(* old enough to have been processed, the same one again until the next.   *)

Captured(frames, o) ==
  LET due == frames = <<>> \/ o.at - Last(frames).at >= detector.sensor.rate
      all == Append(frames, o)
  IN IF ~due THEN frames ELSE SubSeq(all, Max({1, Len(all) - MaxPending + 1}), Len(all))

Delivered(frames, t) ==
  LET ready == {k \in DOMAIN frames : t - frames[k].at >= detector.sensor.latency}
  IN IF ready = {} THEN None ELSE {frames[Max(ready)]}

(* A blob of the wrong size is not the part; a sighting has the time of    *)
(* its frame, not that of the look.                                        *)
Detected(frames) == {f \in frames : f.place \notin Clutter}

(* The toy detector asks the scene, not the camera.                        *)
Look(frames, o) ==
  IF detector.name = "toy" THEN {o} ELSE Detected(Delivered(frames, o.at))

Grabbed(frames, o) == IF detector.name = "toy" THEN frames ELSE Captured(frames, o)

-------------------------------------------------------------------------------
(* The trackers.  `seen` is the window (of one, for those that keep one),  *)
(* `speed` and `span` are the smoothed estimate and its baseline, and      *)
(* `last` is the last sighting a prediction starts from.                   *)

NoTrack == [seen |-> <<>>, speed |-> 0, span |-> 0, last |-> None]

Total(x) ==
  LET sum[k \in 0..Len(x)] == IF k = 0 THEN 0 ELSE sum[k - 1] + x[k]
  IN  sum[Len(x)]

(* The least squares through the sightings of a window.                    *)
Slope(s) ==
  LET n == Len(s)
      t == Total([k \in 1..n |-> s[k].at])
      p == Total([k \in 1..n |-> s[k].place])
      cov == n * Total([k \in 1..n |-> s[k].at * s[k].place]) - t * p
      var == n * Total([k \in 1..n |-> s[k].at * s[k].at]) - t * t
  IN (Scale * cov) \div var

Velocity(tr) ==
  CASE tracker = "snapshot" -> 0
    [] tracker = "smoothed" -> IF tr.span < MinSpan THEN 0 ELSE tr.speed
    [] OTHER ->
         IF Len(tr.seen) < 2 \/ Last(tr.seen).at - tr.seen[1].at < MinSpan THEN 0
         ELSE Slope(tr.seen)

(* From one sighting to a time.                                            *)
Extrapolated(tr, from, t) == Scale * from.place + Velocity(tr) * (t - from.at)

Predictions(tr, t) ==
  {x \in {Extrapolated(tr, o, t) : o \in tr.last} :
     tracker = "sandboxed" =>
       \A o \in tr.last : x - Scale * o.place \in -(Scale * MaxTravel)..(Scale * MaxTravel)}

Stale(tr, o) == tr.seen # <<>> /\ o.at <= Last(tr.seen).at

(* Mutated form of Another: every sighting is of the part tracked so far.  *)
Another_Never(tr, o) == FALSE

(* A sighting further than the gate from where the part should be is of    *)
(* another part.                                                           *)
Another(tr, o) ==
  /\ tr.seen # <<>>
  /\ LET off == Scale * o.place - Extrapolated(tr, Last(tr.seen), o.at)
     IN off > Scale * Gate \/ off < -(Scale * Gate)

Snapshot(tr, o) == [tr EXCEPT !.last = {o}]

ConstantVelocity(tr, o) ==
  IF Stale(tr, o) THEN tr
  ELSE LET all == Append(IF Another(tr, o) THEN <<>> ELSE tr.seen, o)
       IN [tr EXCEPT !.seen = SubSeq(all, Max({1, Len(all) - Window + 1}), Len(all)),
                     !.last = {o}]

Smoothed(tr, o) ==
  IF Stale(tr, o) THEN tr
  ELSE IF tr.seen = <<>> \/ Another(tr, o) THEN [NoTrack EXCEPT !.seen = <<o>>, !.last = {o}]
  ELSE LET before   == Last(tr.seen)
           dt       == o.at - before.at
           measured == (Scale * (o.place - before.place)) \div dt
       IN [seen  |-> <<o>>, last |-> {o}, span |-> tr.span + dt,
           speed |-> tr.speed + (Smoothing * (measured - tr.speed)) \div Scale]

Sandboxed(tr, o) == [ConstantVelocity(tr, o) EXCEPT !.last = {o}]

Observed(tr, o) ==
  CASE tracker = "snapshot"  -> Snapshot(tr, o)
    [] tracker = "constant"  -> ConstantVelocity(tr, o)
    [] tracker = "smoothed"  -> Smoothed(tr, o)
    [] tracker = "sandboxed" -> Sandboxed(tr, o)

AllObserved(tr, sightings) ==
  IF sightings = None THEN tr ELSE Observed(tr, CHOOSE o \in sightings : TRUE)

-------------------------------------------------------------------------------
(* A detector is built with a sensor of its own.                           *)
Built(name, c) == [name |-> name, sensor |-> c]

SightingsInit ==
  /\ now = 0 /\ born = 0 /\ swaps = 0
  /\ camera \in Cameras
  /\ detector = Built("cv", camera) /\ pending = <<>>
  /\ tracker \in Trackers /\ track = NoTrack
  /\ run = Resting

(* The world goes on, a part past the end goes back to the head, and the   *)
(* frame published looks and tells the tracker.                            *)
Passes(d) ==
  /\ now + d <= MaxTime
  /\ now' = now + d
  /\ born' = Recirculated(now', born)
  /\ LET o == Here(now', born')
     IN /\ pending' = Grabbed(pending, o)
        /\ track' = AllObserved(track, Look(pending', o))
  /\ UNCHANGED <<camera, detector, tracker, swaps>>

Idle == run.phase = "idle" /\ (\E d \in Jitter : Passes(d)) /\ UNCHANGED run

(* Versions are selected between programs.                                 *)
Selects == run.phase = "idle" /\ swaps < MaxSwaps /\ swaps' = swaps + 1

SelectTracker(v) ==
  /\ Selects
  /\ tracker' = v /\ track' = NoTrack
  /\ UNCHANGED <<now, born, camera, detector, pending, run>>

(* Once selected it looks, and tells no tracker.                           *)
SelectDetector(name) ==
  /\ Selects
  /\ detector' = Built(name, camera)
  /\ pending' = IF name = "toy" THEN <<>> ELSE <<Here(now, born)>>
  /\ UNCHANGED <<now, born, camera, tracker, track, run>>

(* The program's step rebuilds the detector around the new sensor; the     *)
(* command `set_version` does not.                                         *)
SelectCamera(c) ==
  /\ Selects
  /\ camera' = c
  /\ \/ detector' = Built(detector.name, c) /\ pending' = <<>>
     \/ UNCHANGED <<detector, pending>>
  /\ UNCHANGED <<now, born, tracker, track, run>>

-------------------------------------------------------------------------------
(* The step that intercepts.                                               *)

Intercept ==
  /\ run.phase = "idle"
  /\ run' = [Resting EXCEPT !.phase = "sighting"]
  /\ UNCHANGED <<now, born, camera, detector, pending, tracker, track, swaps>>

Frames == Grabbed(pending, Here(now, born))
Seen   == Look(Frames, Here(now, born))

(* Nothing in view yet: let the world go on and look again.                *)
AwaitSighting ==
  /\ run.phase = "sighting" /\ run.waited <= SightTimeout /\ Seen = None
  /\ \E d \in Jitter : Passes(d) /\ run' = [run EXCEPT !.waited = @ + d]

NothingCame ==
  /\ run.phase = "sighting" /\ run.waited > SightTimeout
  /\ run' = Resting
  /\ UNCHANGED <<now, born, camera, detector, pending, tracker, track, swaps>>

(* The sighting goes to the tracker, again if it was published before.     *)
Told    == AllObserved(track, Seen)
Targets == Predictions(Told, now + run.lead)

Sights ==
  /\ run.phase = "sighting" /\ run.waited <= SightTimeout /\ Seen # None
  /\ pending' = Frames /\ track' = Told
  /\ UNCHANGED <<now, born, camera, detector, tracker, swaps>>

(* Aim at where the tracker says the part will be when the arm is there;   *)
(* a tracker that will not say ends the step.                              *)
Aim ==
  /\ Sights
  /\ \E x \in Targets, took \in Approaches :
       run' = [run EXCEPT !.phase = "reaching", !.started = now, !.took = took, !.aim = x,
                          !.seen = Told.last, !.sure = Velocity(Told) # 0]

NoPrediction == Sights /\ Targets = None /\ run' = Resting

Reach ==
  /\ run.phase = "reaching"
  /\ \E d \in Jitter : now + d <= run.started + run.took /\ Passes(d)
  /\ UNCHANGED run

Off == Scale * Here(now, born).place - run.aim

(* The tool closes where it aimed.  A miss has told how long a reach takes. *)
Close ==
  /\ run.phase = "reaching" /\ now = run.started + run.took
  /\ run' = IF Off \in -(Scale * GraspReach)..(Scale * GraspReach)
            THEN [Resting EXCEPT !.phase = "holding"]
            ELSE IF run.attempt < Attempts
            THEN [Resting EXCEPT !.phase = "sighting", !.attempt = run.attempt + 1,
                                 !.lead = now - run.started]
            ELSE Resting
  /\ UNCHANGED <<now, born, camera, detector, pending, tracker, track, swaps>>

SightingsNext ==
  \/ Idle \/ Intercept \/ AwaitSighting \/ NothingCame
  \/ Aim \/ NoPrediction \/ Reach \/ Close
  \/ \E v \in Trackers : SelectTracker(v)
  \/ \E name \in {"cv", "toy"} : SelectDetector(name)
  \/ \E c \in Cameras : SelectCamera(c)

SightingsSpec == SightingsInit /\ [][SightingsNext]_sight_vars

-------------------------------------------------------------------------------
(* However late, repeated or sparse the sightings are, and whichever       *)
(* versions were selected in between, no tracker claims a speed the belt   *)
(* never had; one that fits the window claims the belt's.                  *)
SpeedsAreReal ==
  /\ Velocity(track) \in 0..(Scale * Speed)
  /\ tracker \in {"constant", "sandboxed"} => Velocity(track) \in {0, Scale * Speed}

(* An arm that takes as long as it was given never aims behind where the   *)
(* part was seen nor ahead of where it is; with a speed fitted it aims at  *)
(* the part itself, across the latency of the sensor.  (A part that went   *)
(* back to the head meanwhile is another part.)                            *)
AimsMeetThePart ==
  run.phase = "reaching" /\ now = run.started + run.lead =>
    \A o \in run.seen : Lap(o) = born =>
      /\ run.aim >= Scale * o.place
      /\ run.aim <= Scale * Here(now, born).place
      /\ run.sure /\ tracker \in {"constant", "sandboxed"} => Off = 0

RendezvousIsTrue == SpeedsAreReal /\ AimsMeetThePart

===============================================================================
