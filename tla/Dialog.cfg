SPECIFICATION Spec
CONSTANTS
    Commands = {"get-signing-certificate", "authenticate", "sign"}
    Certificates <- MCCertificates
    MaxWorking = 2
    MaxStrays = 1
INVARIANTS OkHasCertificate UserCanLeave OnePinAtATime
PROPERTIES ConfirmsWhatIsShown PinFitsCertificate ShowsPages
