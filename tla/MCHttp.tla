-------------------------------- MODULE MCHttp --------------------------------
(* Instances of Http for TLC.                                                *)
EXTENDS Http

CONSTANTS k1, k2

MCRequest(method, body, expect, stream) ==
  [method |-> method, body |-> body, expect |-> expect, stream |-> stream]
Plain == MCRequest("POST", TRUE, FALSE, FALSE)
HeadOnly == MCRequest("HEAD", FALSE, FALSE, FALSE)
Expecting == MCRequest("GET", FALSE, TRUE, FALSE)
Opened == MCRequest("GET", FALSE, FALSE, TRUE)
Stream == MCRequest("POST", TRUE, FALSE, TRUE)
MCSetup(keep, follow, workers, wakes, callers, requests, stops, faults) ==
  [keep_alive_ |-> keep, follow_location_ |-> follow, workers |-> workers, closeWakes |-> wakes,
   callers |-> callers, requests |-> requests, stops |-> stops, faults |-> faults]
MCSetups ==
  {MCSetup(TRUE, FALSE, 1, FALSE, 2, {Plain, Opened}, {}, FALSE),
   MCSetup(TRUE, TRUE, 1, FALSE, 1, {Plain, HeadOnly}, {"server"}, FALSE),
   MCSetup(FALSE, FALSE, 1, TRUE, 1, {HeadOnly, Stream}, {"server"}, FALSE),
   MCSetup(TRUE, FALSE, 2, TRUE, 1, {Expecting}, {"client"}, TRUE)}
=============================================================================
