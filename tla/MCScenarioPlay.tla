--------------------------- MODULE MCScenarioPlay ---------------------------
(***************************************************************************)
(* The catalogue of scenarios, and those in it that some property does not *)
(* hold of.                                                                *)
(***************************************************************************)
EXTENDS ScenarioPlay

Catalogue ==
    single_tool_call_scenarios \union multiple_tool_call_scenarios
        \union multiple_user_turn_scenarios \union insufficient_information_scenarios

\* The guardrail against the time it was before wifi was turned on is excluded
\* from the wrong milestone.
WifiOffHoliday == {find_days_till_holiday_wifi_off}

\* unit_conversion is a milestone and is not offered.
NoConversion ==
    {find_temperature_f_with_location_and_time_diff_low_battery_mode_multiple_user_turn}

\* A reminder or a message that is written tells the time.
TellingTheTime ==
    {find_days_till_holiday_insufficient_information,
     remove_reminder_with_recency_latest_insufficient_information}
=============================================================================
