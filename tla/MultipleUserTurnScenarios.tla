---------------------- MODULE MultipleUserTurnScenarios ---------------------
(***************************************************************************)
(* tool_sandbox/scenarios/multiple_user_turn_scenarios.py.                 *)
(* The scenarios that the user explains over several turns.  What is scored *)
(* is mostly the same as when the first message says it all.               *)
(***************************************************************************)
EXTENDS MultipleToolCallScenarios

search_message_with_recency_latest_multiple_user_turn ==
    search_message_with_recency_latest

search_message_with_recency_latest_multiple_user_turn_alt ==
    search_message_with_recency_latest

search_message_with_recency_oldest_multiple_user_turn ==
    search_message_with_recency_oldest

search_message_with_recency_oldest_multiple_user_turn_alt ==
    search_message_with_recency_oldest

modify_contact_with_message_recency_multiple_user_turn ==
    modify_contact_with_message_recency

modify_contact_with_message_recency_multiple_user_turn_alt ==
    modify_contact_with_message_recency

remove_contact_by_phone_multiple_user_turn == remove_contact_by_phone

remove_contact_by_phone_multiple_user_turn_alt == remove_contact_by_phone

send_message_with_contact_content_cellular_off_multiple_user_turn ==
    send_message_with_contact_content_cellular_off

send_message_with_contact_content_cellular_off_multiple_user_turn_alt ==
    send_message_with_contact_content_cellular_off

update_contact_relationship_with_relationship_multiple_user_turn ==
    update_contact_relationship_with_relationship

update_contact_relationship_with_relationship_twice_multiple_user_turn ==
    Scenario(base, {"search_contacts", "modify_contact"},
        <<TracedWith("search_contacts", {"relationship"}),
          Updated("CONTACT", {<<"Fredrik Thordendal", "enemy">>,
                              <<"John Petrucci", "enemy">>}, 0),
          Answered,
          Updated("CONTACT", {<<"Fredrik Thordendal", "friend">>,
                              <<"John Petrucci", "friend">>}, 1),
          Answered>>)

find_days_till_holiday_multiple_user_turn == find_days_till_holiday

find_days_till_holiday_wifi_off_multiple_user_turn ==
    find_days_till_holiday_wifi_off

find_temperature_f_with_location_and_time_diff_multiple_user_turn ==
    Scenario(base,
        {"search_location_around_lat_lon", "search_weather_around_lat_lon",
         "unit_conversion"},
        <<TracedWith("search_weather_around_lat_lon",
              {"days", "latitude", "longitude"}),
          TracedFrom("unit_conversion", {"from_unit", "to_unit"}, 0),
          AnsweredWithValueOf(1)>>)

find_temperature_f_with_location_and_time_diff_wifi_off_multiple_user_turn ==
    Scenario(base_wifi_off,
        {"search_location_around_lat_lon", "search_weather_around_lat_lon",
         "unit_conversion", "get_wifi_status", "set_wifi_status"},
        <<Switched("wifi", TRUE),
          TracedWith("search_weather_around_lat_lon",
              {"days", "latitude", "longitude"}),
          TracedFrom("unit_conversion", {"from_unit", "to_unit"}, 1),
          AnsweredWithValueOf(2)>>)

find_temperature_f_with_location_and_time_diff_low_battery_mode_multiple_user_turn ==
    Scenario(base_low_battery,
        {"search_weather_around_lat_lon", "set_low_battery_mode_status",
         "set_location_service_status", "set_wifi_status",
         "get_low_battery_mode_status", "get_location_service_status",
         "get_wifi_status"},
        <<Switched("low_battery_mode", FALSE),
          Switched("wifi", TRUE),
          TracedWith("search_weather_around_lat_lon",
              {"days", "latitude", "longitude"}),
          TracedFrom("unit_conversion", {"from_unit", "to_unit"}, 2),
          AnsweredWithValueOf(3)>>)

find_distance_with_location_name_multiple_user_turn ==
    find_distance_with_location_name

find_distance_with_location_name_low_battery_mode_multiple_user_turn ==
    Scenario(base_low_battery,
        {"get_current_location", "search_location_around_lat_lon",
         "calculate_lat_lon_distance", "set_low_battery_mode_status",
         "set_location_service_status", "set_wifi_status",
         "get_low_battery_mode_status", "get_location_service_status",
         "get_wifi_status"},
        <<Switched("low_battery_mode", FALSE),
          Switched("location_service", TRUE),
          Traced("get_current_location"),
          TracedWith("calculate_lat_lon_distance",
              {"latitude_0", "latitude_1", "longitude_0", "longitude_1"}),
          Answered>>)

add_reminder_content_and_date_and_time_multiple_user_turn ==
    add_reminder_content_and_date_and_time

add_reminder_content_and_date_and_time_multiple_user_turn_alt ==
    add_reminder_content_and_date_and_time_alt

add_reminder_content_and_week_delta_and_time_multiple_user_turn ==
    add_reminder_content_and_week_delta_and_time

add_reminder_content_and_week_delta_and_time_multiple_user_turn_alt ==
    add_reminder_content_and_week_delta_and_time

add_reminder_content_and_weekday_delta_and_time_multiple_user_turn ==
    add_reminder_content_and_week_delta_and_time

add_reminder_content_and_weekday_delta_and_time_multiple_user_turn_alt ==
    add_reminder_content_and_week_delta_and_time

add_reminder_content_and_week_delta_and_time_and_location_multiple_user_turn ==
    add_reminder_content_and_week_delta_and_time_and_location

add_reminder_content_and_week_delta_and_time_and_location_multiple_user_turn_alt ==
    add_reminder_content_and_week_delta_and_time_and_location

add_reminder_content_and_week_delta_and_time_and_location_low_battery_mode_multiple_user_turn_alt ==
    [Scenario(base_low_battery,
        {"add_reminder", "modify_reminder", "get_current_timestamp",
         "timestamp_to_datetime_info", "datetime_info_to_timestamp",
         "search_location_around_lat_lon", "set_low_battery_mode_status",
         "set_location_service_status", "set_wifi_status",
         "get_low_battery_mode_status", "get_location_service_status",
         "get_wifi_status"},
        <<Switched("low_battery_mode", FALSE),
          Switched("wifi", TRUE),
          Traced("search_location_around_lat_lon"),
          Traced("get_current_timestamp"),
          Added("REMINDER", {<<"new reminder", "in time and place">>}, 0)>>) EXCEPT
        !.milestone_edge_list = {<<0, 1>>, <<1, 2>>, <<2, 4>>, <<3, 4>>}]

\* get_extensions
multiple_user_turn_scenarios ==
    {search_message_with_recency_latest_multiple_user_turn,
     search_message_with_recency_latest_multiple_user_turn_alt,
     search_message_with_recency_oldest_multiple_user_turn,
     search_message_with_recency_oldest_multiple_user_turn_alt,
     modify_contact_with_message_recency_multiple_user_turn,
     modify_contact_with_message_recency_multiple_user_turn_alt,
     remove_contact_by_phone_multiple_user_turn,
     remove_contact_by_phone_multiple_user_turn_alt,
     send_message_with_contact_content_cellular_off_multiple_user_turn,
     send_message_with_contact_content_cellular_off_multiple_user_turn_alt,
     update_contact_relationship_with_relationship_multiple_user_turn,
     update_contact_relationship_with_relationship_twice_multiple_user_turn,
     find_days_till_holiday_multiple_user_turn,
     find_days_till_holiday_wifi_off_multiple_user_turn,
     find_temperature_f_with_location_and_time_diff_multiple_user_turn,
     find_temperature_f_with_location_and_time_diff_wifi_off_multiple_user_turn,
     find_temperature_f_with_location_and_time_diff_low_battery_mode_multiple_user_turn,
     find_distance_with_location_name_multiple_user_turn,
     find_distance_with_location_name_low_battery_mode_multiple_user_turn,
     add_reminder_content_and_date_and_time_multiple_user_turn,
     add_reminder_content_and_date_and_time_multiple_user_turn_alt,
     add_reminder_content_and_week_delta_and_time_multiple_user_turn,
     add_reminder_content_and_week_delta_and_time_multiple_user_turn_alt,
     add_reminder_content_and_weekday_delta_and_time_multiple_user_turn,
     add_reminder_content_and_weekday_delta_and_time_multiple_user_turn_alt,
     add_reminder_content_and_week_delta_and_time_and_location_multiple_user_turn,
     add_reminder_content_and_week_delta_and_time_and_location_multiple_user_turn_alt,
     add_reminder_content_and_week_delta_and_time_and_location_low_battery_mode_multiple_user_turn_alt}
=============================================================================
