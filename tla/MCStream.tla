------------------------------- MODULE MCStream -------------------------------
(* A small instance of StreamProcessor for TLC: one entity's pings on one topic, *)
(* after a malformed message; plain events and a poison message on another.  One *)
(* ping and one plain event have no event_id.                                    *)
EXTENDS StreamProcessor

MCTopics == {"gps_pings", "trips"}
MCEntities == {"driver"}
MCLog == [t \in MCTopics |->
            IF t = "gps_pings" THEN <<"garbage", "driver", "driver", "driver">>
            ELSE <<"plain", "plain", "poison", "garbage">>]
MCLength == [t \in MCTopics |-> IF t = "gps_pings" THEN 4 ELSE 3]
MCUnmarked == {<<"gps_pings", 2>>, <<"trips", 1>>}
================================================================================
