---------------------------- MODULE MCIdentity ----------------------------
(***************************************************************************)
(* Two users of the messenger, on machines of their own or in one          *)
(* directory, or one of them beside a node of the test application.        *)
(***************************************************************************)
EXTENDS Identity, TLC

CONSTANTS alice, bob, tool, d1, d2, p1337, p1338, h0, h1337, h1338

MCDirOf == {alice :> d1 @@ bob :> d1, alice :> d1 @@ bob :> d2, alice :> d1 @@ tool :> d1}

MCPort == alice :> p1337 @@ bob :> p1337 @@ tool :> p1338

MCDigest == NoPort :> h0 @@ p1337 :> h1337 @@ p1338 :> h1338
============================================================================
