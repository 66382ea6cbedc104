------------------------------ MODULE MCXhciSlots ------------------------------
EXTENDS XhciSlots, TLC

\* Two root ports; on the first, a hub fits and behind it a slower hub, so that
\* a low speed device three ports deep is translated for by the first hub.
MCPlaces == {<<0>>, <<1>>, <<0, 1>>, <<0, 1, 1>>}

Device(speed, hub) == [speed |-> speed, hub |-> hub]
MCKinds == (<<0>> :> {Device("high", TRUE)}) @@
           (<<1>> :> {Device("high", FALSE)}) @@
           (<<0, 1>> :> {Device("low", FALSE), Device("full", TRUE)}) @@
           (<<0, 1, 1>> :> {Device("low", FALSE)})
=============================================================================
