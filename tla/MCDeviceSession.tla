-------------------------- MODULE MCDeviceSession --------------------------
\* DeviceSession on small instances, one per configuration.
EXTENDS DeviceSession

\* A conversation by wake word, button and voice, with barge-in.
VoiceInputs == {"wake", "manual", "stop", "abort", "barge", "detect", "autolisten"}
VoiceReplies == {"reply", "music", "transient", "raise"}

\* Hands-free conversations until the owner says goodbye.
FarewellReplies == {"reply", "farewell", "devmusic", "transient"}
FarewellInputs == {"wake", "autolisten"}

\* The dashboard and the sensors against a voice turn and close().
CompanionInputs ==
    {"wake", "chat", "rps", "ttt", "think", "sleep", "stopbutton", "pet", "pickup", "close"}

=============================================================================
