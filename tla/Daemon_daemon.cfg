SPECIFICATION Spec
CONSTANTS
    Listeners = {"smtp", "imaps"}
    Workers = 1
    MaxEvents = 6
INVARIANT ReloadsTakeEffect
INVARIANT NoSessionCutShort
PROPERTY StopObeyed
INVARIANT CertificatesServed
CHECK_DEADLOCK FALSE
