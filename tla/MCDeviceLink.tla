---------------------------- MODULE MCDeviceLink ----------------------------
(* Small instances of DeviceLink: two threads, say the application and the *)
(* refresh worker, on addresses of their own or on the same one.           *)
EXTENDS DeviceLink, TLC

CONSTANTS app, worker, k1, k2

MCOwnAsks == (app :> {k1}) @@ (worker :> {k2})
MCSharedAsks == (app :> {k1}) @@ (worker :> {k1})

=============================================================================
