-------------------------- MODULE MCControlBaseline --------------------------
(* An instance of ControlBaseline with two scenarios.                        *)
EXTENDS ControlBaseline

CONSTANTS ScenarioA, ScenarioB

MCManifest == <<ScenarioA, ScenarioB>>
==============================================================================
