SPECIFICATION VoiceSpec
CONSTANTS
    MaxVoiceCall = 4
    Unanswered = 3
CHECK_DEADLOCK FALSE

    
PROPERTY
    VoiceComes
