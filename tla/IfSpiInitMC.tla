---------------------------- MODULE IfSpiInitMC ----------------------------
(* Two streams, one other client, and two buses for one slot. *)
EXTENDS IfSpiInit

CONSTANTS other, spi1, spi2, stream_tx, stream_rx, spi_tx, spi_rx, adc

Clients == {Ifspi, other}
Names   == {spi1, spi2}
Streams == {stream_tx, stream_rx}
Peris   == {spi_tx, spi_rx, adc}

\* The stream of the transmitter can also serve the ADC.
TheStreamMap == [d \in Streams |-> IF d = stream_tx THEN {spi_tx, adc}
                                                    ELSE {spi_rx}]

TheDmaIntf == [dir \in {"tx", "rx"} |->
                 IF dir = "tx" THEN [dev |-> stream_tx, peri |-> spi_tx]
                               ELSE [dev |-> stream_rx, peri |-> spi_rx]]
=============================================================================
