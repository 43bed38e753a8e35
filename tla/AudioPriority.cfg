SPECIFICATION FairSpec

CONSTANTS
  MaxSounds = 2
  MaxActs = 2
  MaxFaults = 2
  Events = {"play_media", "media_play", "media_stop", "sound_stop",
            "command", "source", "receiver", "status", "resolve"}
  CancelAt = {"stop_old", "claim", "suspend", "idle", "gain", "cleanup", "start",
              "settle", "stop_new", "restore", "resume"}

INVARIANTS
  RadioYields
  StopRespected
  OwnedSound

PROPERTIES
  SpeakerSpec
  MediaRecovers

CHECK_DEADLOCK FALSE
