SPECIFICATION Spec

CONSTANTS
  MaxSounds = 3
  MaxActs = 2
  MaxFaults = 2
  Events = {"play_media", "media_play", "media_stop", "sound_stop",
            "resolve", "source", "receiver"}
  CancelAt = {"stop_old", "claim", "suspend", "idle", "gain", "cleanup", "start",
              "settle", "stop_new", "resume"}

INVARIANTS
  OwnedSound
  SuspendedForASound

CHECK_DEADLOCK FALSE
