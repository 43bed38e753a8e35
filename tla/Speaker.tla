------------------------------ MODULE Speaker -------------------------------
(***************************************************************************)
(* What a hub's one loudspeaker promises: who holds the ALSA device, and   *)
(* at which gain.  Media and alerts never share it, media is never heard   *)
(* at an alert's temporary gain, and the alert that holds priority is      *)
(* never heard at the media gain.  AudioPriority implements this.          *)
(***************************************************************************)
VARIABLES
  output,   \* "silent", "media", "alert" (has priority) or "stray" (lost it)
  gain      \* the ALSA softvol level: "media" or "alert"

Init == /\ output \in {"silent", "media"}
        /\ gain = "media"

MediaStarts == /\ output = "silent" /\ gain = "media"
               /\ output' = "media" /\ UNCHANGED gain

\* An alert whose caller gave it up while the hub was starting it is stray.
AlertStarts == /\ output = "silent" /\ gain = "alert"
               /\ output' \in {"alert", "stray"} /\ UNCHANGED gain

\* An alert whose stop was not acknowledged may go on, without priority.
AlertAbandoned == /\ output = "alert"
                  /\ output' = "stray" /\ UNCHANGED gain

Silenced == /\ output # "silent"
            /\ output' = "silent" /\ UNCHANGED gain

\* The gain follows its next user, never the one being heard.
SetGain == /\ gain' \in {"media", "alert"}
           /\ output = "media" => gain' = "media"
           /\ output = "alert" => gain' = "alert"
           /\ UNCHANGED output

Next == \/ MediaStarts \/ AlertStarts \/ AlertAbandoned
        \/ Silenced \/ SetGain

Spec == Init /\ [][Next]_<<output, gain>>
=============================================================================
