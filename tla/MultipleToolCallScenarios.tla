---------------------- MODULE MultipleToolCallScenarios ---------------------
(***************************************************************************)
(* tool_sandbox/scenarios/multiple_tool_call_scenarios.py.                 *)
(* The scenarios that take calls of several tools, all asked for in the    *)
(* first message.  A scenario `_alt` (or `_implicit`) is the same task in  *)
(* other words: its tools, milestones and edges are those of the scenario it *)
(* is equal to.                                                            *)
(***************************************************************************)
EXTENDS ScenarioLanguage

search_message_with_recency_latest ==
    Scenario(base, {"search_messages", "get_current_timestamp"},
        <<Traced("search_messages"),
          AnsweredWith>>)

search_message_with_recency_latest_alt == search_message_with_recency_latest

search_message_with_recency_oldest ==
    Scenario(base, {"search_messages", "get_current_timestamp"},
        <<Traced("get_current_timestamp"),
          Traced("search_messages"),
          AnsweredWith>>)

search_message_with_recency_oldest_alt == search_message_with_recency_oldest

modify_contact_with_message_recency ==
    [Scenario(base,
        {"search_messages", "get_current_timestamp", "modify_contact",
         "search_contacts"},
        <<Traced("get_current_timestamp"),
          Traced("search_contacts"),
          Traced("search_messages"),
          Updated("CONTACT", {<<"Homer S", "new phone number">>}, 2),
          Answered>>) EXCEPT
        !.milestone_edge_list = {<<0, 2>>, <<1, 4>>, <<2, 3>>, <<3, 4>>}]

modify_contact_with_message_recency_alt == modify_contact_with_message_recency

remove_contact_by_phone ==
    Scenario(base, {"search_contacts", "remove_contact"},
        <<TracedWith("search_contacts", {"phone_number"}),
          Removed("CONTACT", {<<"Fredrik Thordendal", "friend">>}, 0),
          Answered>>)

remove_contact_by_phone_alt == remove_contact_by_phone

remove_contact_by_phone_ambiguous == remove_contact_by_phone

remove_contact_by_phone_ambiguous_alt == remove_contact_by_phone

turn_on_wifi_low_battery_mode ==
    Scenario(base_low_battery,
        {"set_wifi_status", "set_low_battery_mode_status", "get_wifi_status",
         "get_low_battery_mode_status"},
        <<Switched("low_battery_mode", FALSE),
          Switched("wifi", TRUE),
          Answered>>)

turn_on_wifi_low_battery_mode_implicit == turn_on_wifi_low_battery_mode

turn_on_cellular_low_battery_mode ==
    Scenario(base_low_battery,
        {"set_cellular_service_status", "set_low_battery_mode_status",
         "get_cellular_service_status", "get_low_battery_mode_status"},
        <<Switched("low_battery_mode", FALSE),
          Switched("cellular", TRUE),
          Answered>>)

turn_on_cellular_low_battery_mode_implicit ==
    turn_on_cellular_low_battery_mode

turn_on_location_low_battery_mode ==
    Scenario(base_low_battery,
        {"set_location_service_status", "set_low_battery_mode_status",
         "get_location_service_status", "get_low_battery_mode_status"},
        <<Switched("low_battery_mode", FALSE),
          Switched("location_service", TRUE),
          Answered>>)

turn_on_location_low_battery_mode_implicit ==
    turn_on_location_low_battery_mode

send_message_with_contact_content_cellular_off ==
    [Scenario(base_cellular_off,
        {"search_contacts", "send_message_with_phone_number",
         "set_cellular_service_status", "get_cellular_service_status"},
        <<Switched("cellular", TRUE),
          Excluding(TracedWith("search_contacts", {"name"}), {"SETTING"}),
          Excluding(Added("MESSAGING", {<<"new message", "sent">>}, 0), {"SETTING"}),
          Answered>>) EXCEPT
        !.milestone_edge_list = {<<0, 2>>, <<1, 2>>, <<2, 3>>}]

send_message_with_contact_content_cellular_off_alt ==
    send_message_with_contact_content_cellular_off

update_contact_relationship_with_relationship ==
    Scenario(base, {"search_contacts", "modify_contact"},
        <<TracedWith("search_contacts", {"relationship"}),
          Updated("CONTACT", {<<"Fredrik Thordendal", "enemy">>,
                              <<"John Petrucci", "enemy">>}, 0),
          Answered>>)

update_contact_relationship_with_relationship_alt ==
    Scenario(base, {"search_contacts", "modify_contact"},
        <<TracedWith("search_contacts", {"relationship"}),
          Updated("CONTACT", {<<"Fredrik Thordendal", "enemy">>,
                              <<"John Petrucci", "enemy">>}, 0)>>)

find_days_till_holiday ==
    [Scenario(base,
        {"search_holiday", "get_current_timestamp", "timestamp_diff"},
        <<Traced("get_current_timestamp"),
          TracedWith("search_holiday", {"holiday_name"}),
          Milestone({Filled(ToolTrace("timestamp_diff", {}), 0),
                     Filled(ToolTrace("timestamp_diff", {}), 1)}),
          AnsweredWithValueOf(2)>>) EXCEPT
        !.milestone_edge_list = {<<0, 2>>, <<1, 2>>, <<2, 3>>}]

find_days_till_holiday_alt == find_days_till_holiday

find_days_till_holiday_wifi_off ==
    [Scenario(base_wifi_off,
        {"search_holiday", "get_current_timestamp", "timestamp_diff",
         "set_wifi_status", "get_wifi_status"},
        <<Excluding(Traced("get_current_timestamp"), {"SETTING"}),
          Switched("wifi", TRUE),
          TracedWith("search_holiday", {"holiday_name"}),
          Milestone({Filled(ToolTrace("timestamp_diff", {}), 0),
                     Filled(ToolTrace("timestamp_diff", {}), 2)}),
          AnsweredWithValueOf(3)>>) EXCEPT
        !.milestone_edge_list = {<<0, 3>>, <<1, 2>>, <<2, 3>>, <<3, 4>>}]

find_days_till_holiday_wifi_off_alt == find_days_till_holiday_wifi_off

find_temperature_f_with_location ==
    Scenario(base,
        {"search_location_around_lat_lon", "search_weather_around_lat_lon",
         "unit_conversion"},
        <<TracedWith("search_weather_around_lat_lon",
              {"latitude", "longitude"}),
          TracedFrom("unit_conversion", {"from_unit", "to_unit"}, 0),
          AnsweredWithValueOf(1)>>)

find_temperature_f_with_location_alt == find_temperature_f_with_location

find_temperature_f_with_location_wifi_off ==
    Scenario(base_wifi_off,
        {"search_location_around_lat_lon", "search_weather_around_lat_lon",
         "unit_conversion", "set_wifi_status", "get_wifi_status"},
        <<Switched("wifi", TRUE),
          TracedWith("search_weather_around_lat_lon",
              {"latitude", "longitude"}),
          TracedFrom("unit_conversion", {"from_unit", "to_unit"}, 1),
          AnsweredWithValueOf(2)>>)

find_temperature_f_with_location_wifi_off_alt ==
    find_temperature_f_with_location_wifi_off

find_temperature_low_battery_mode ==
    [Scenario(base_low_battery,
        {"search_weather_around_lat_lon", "set_low_battery_mode_status",
         "set_location_service_status", "set_wifi_status",
         "get_low_battery_mode_status", "get_location_service_status",
         "get_wifi_status"},
        <<Switched("low_battery_mode", FALSE),
          Switched("wifi", TRUE),
          Switched("location_service", TRUE),
          TracedWith("search_weather_around_lat_lon",
              {"days", "latitude is None", "longitude is None"}),
          AnsweredFrom(3)>>) EXCEPT
        !.milestone_edge_list = {<<0, 1>>, <<0, 2>>, <<1, 3>>, <<2, 3>>, <<3, 4>>}]

find_temperature_low_battery_mode_alt == find_temperature_low_battery_mode

find_stock_symbol_with_company_name_low_battery_mode ==
    Scenario(base_low_battery,
        {"search_stock", "set_low_battery_mode_status", "set_wifi_status",
         "get_low_battery_mode_status", "get_wifi_status"},
        <<Switched("low_battery_mode", FALSE),
          Switched("wifi", TRUE),
          TracedWith("search_stock", {"query"}),
          AnsweredWith>>)

find_stock_symbol_with_company_name_low_battery_mode_alt ==
    find_stock_symbol_with_company_name_low_battery_mode

find_current_city_low_battery_mode ==
    [Scenario(base_low_battery,
        {"search_lat_lon", "set_low_battery_mode_status", "set_wifi_status",
         "set_location_service_status", "get_low_battery_mode_status",
         "get_wifi_status", "get_location_service_status",
         "get_current_location"},
        <<Switched("low_battery_mode", FALSE),
          Switched("wifi", TRUE),
          Switched("location_service", TRUE),
          Traced("get_current_location"),
          TracedFrom("search_lat_lon", {}, 3),
          AnsweredWith>>) EXCEPT
        !.milestone_edge_list = {<<0, 1>>, <<0, 2>>, <<1, 4>>, <<2, 3>>, <<3, 4>>, <<4, 5>>}]

find_current_city_low_battery_mode_alt == find_current_city_low_battery_mode

find_distance_with_location_name ==
    Scenario(base,
        {"get_current_location", "search_location_around_lat_lon",
         "calculate_lat_lon_distance"},
        <<Traced("get_current_location"),
          TracedWith("calculate_lat_lon_distance",
              {"latitude_0", "latitude_1", "longitude_0", "longitude_1"}),
          Answered>>)

find_distance_with_location_name_alt == find_distance_with_location_name

search_reminder_with_recency_upcoming ==
    Scenario(base,
        {"search_reminder", "get_current_timestamp", "shift_timestamp",
         "timestamp_to_datetime_info"},
        <<Traced("get_current_timestamp"),
          TracedFrom("search_reminder", {}, 0),
          AnsweredWith>>)

search_reminder_with_recency_upcoming_implicit ==
    search_reminder_with_recency_upcoming

search_reminder_with_recency_yesterday ==
    Scenario(base,
        {"search_reminder", "get_current_timestamp", "shift_timestamp",
         "timestamp_to_datetime_info"},
        <<Traced("get_current_timestamp"),
          Traced("search_reminder"),
          AnsweredWith>>)

search_reminder_with_recency_yesterday_implicit ==
    search_reminder_with_recency_yesterday

search_reminder_with_creation_recency_yesterday ==
    search_reminder_with_recency_yesterday

search_reminder_with_creation_recency_yesterday_implicit ==
    search_reminder_with_recency_yesterday

add_reminder_content_and_date_and_time ==
    Scenario(base, {"add_reminder", "datetime_info_to_timestamp"},
        <<Traced("datetime_info_to_timestamp"),
          Added("REMINDER", {<<"new reminder", "in time">>}, 0)>>)

add_reminder_content_and_date_and_time_alt ==
    Scenario(base,
        {"add_reminder", "modify_reminder", "datetime_info_to_timestamp"},
        <<Traced("datetime_info_to_timestamp"),
          Added("REMINDER", {<<"new reminder", "in time">>}, 0)>>)

add_reminder_content_and_week_delta_and_time ==
    Scenario(base,
        {"add_reminder", "modify_reminder", "get_current_timestamp",
         "timestamp_to_datetime_info", "datetime_info_to_timestamp"},
        <<Traced("get_current_timestamp"),
          Added("REMINDER", {<<"new reminder", "in time">>}, 0)>>)

add_reminder_content_and_week_delta_and_time_alt ==
    add_reminder_content_and_week_delta_and_time

add_reminder_content_and_weekday_delta_and_time ==
    add_reminder_content_and_week_delta_and_time

add_reminder_content_and_weekday_delta_and_time_alt ==
    add_reminder_content_and_week_delta_and_time

add_reminder_content_and_week_delta_and_time_and_location ==
    [Scenario(base,
        {"add_reminder", "modify_reminder", "get_current_timestamp",
         "timestamp_to_datetime_info", "datetime_info_to_timestamp",
         "search_location_around_lat_lon"},
        <<Traced("search_location_around_lat_lon"),
          Traced("get_current_timestamp"),
          Added("REMINDER", {<<"new reminder", "in time and place">>}, 0)>>) EXCEPT
        !.milestone_edge_list = {<<0, 2>>, <<1, 2>>}]

add_reminder_content_and_week_delta_and_time_and_location_alt ==
    add_reminder_content_and_week_delta_and_time_and_location

modify_reminder_with_recency_latest ==
    [Scenario(base,
        {"search_reminder", "modify_reminder", "get_current_timestamp",
         "timestamp_to_datetime_info", "datetime_info_to_timestamp"},
        <<Traced("search_reminder"),
          Traced("get_current_timestamp"),
          Updated("REMINDER", {<<"reminder_2", "tomorrow">>}, 0)>>) EXCEPT
        !.milestone_edge_list = {<<0, 2>>, <<1, 2>>}]

modify_reminder_with_recency_latest_alt == modify_reminder_with_recency_latest

remove_reminder_with_recency_latest ==
    [Scenario(base,
        {"search_reminder", "remove_reminder", "get_current_timestamp",
         "timestamp_to_datetime_info", "datetime_info_to_timestamp"},
        <<Traced("search_reminder"),
          Traced("get_current_timestamp"),
          Removed("REMINDER", {<<"reminder_2", "in an hour">>}, 0)>>) EXCEPT
        !.milestone_edge_list = {<<0, 2>>, <<1, 2>>}]

remove_reminder_with_recency_latest_alt == remove_reminder_with_recency_latest

\* get_extensions
multiple_tool_call_scenarios ==
    {search_message_with_recency_latest,
     search_message_with_recency_latest_alt,
     search_message_with_recency_oldest,
     search_message_with_recency_oldest_alt,
     modify_contact_with_message_recency,
     modify_contact_with_message_recency_alt, remove_contact_by_phone,
     remove_contact_by_phone_alt, remove_contact_by_phone_ambiguous,
     remove_contact_by_phone_ambiguous_alt, turn_on_wifi_low_battery_mode,
     turn_on_wifi_low_battery_mode_implicit,
     turn_on_cellular_low_battery_mode,
     turn_on_cellular_low_battery_mode_implicit,
     turn_on_location_low_battery_mode,
     turn_on_location_low_battery_mode_implicit,
     send_message_with_contact_content_cellular_off,
     send_message_with_contact_content_cellular_off_alt,
     update_contact_relationship_with_relationship,
     update_contact_relationship_with_relationship_alt,
     find_days_till_holiday, find_days_till_holiday_alt,
     find_days_till_holiday_wifi_off, find_days_till_holiday_wifi_off_alt,
     find_temperature_f_with_location, find_temperature_f_with_location_alt,
     find_temperature_f_with_location_wifi_off,
     find_temperature_f_with_location_wifi_off_alt,
     find_temperature_low_battery_mode, find_temperature_low_battery_mode_alt,
     find_stock_symbol_with_company_name_low_battery_mode,
     find_stock_symbol_with_company_name_low_battery_mode_alt,
     find_current_city_low_battery_mode,
     find_current_city_low_battery_mode_alt, find_distance_with_location_name,
     find_distance_with_location_name_alt,
     search_reminder_with_recency_upcoming,
     search_reminder_with_recency_upcoming_implicit,
     search_reminder_with_recency_yesterday,
     search_reminder_with_recency_yesterday_implicit,
     search_reminder_with_creation_recency_yesterday,
     search_reminder_with_creation_recency_yesterday_implicit,
     add_reminder_content_and_date_and_time,
     add_reminder_content_and_date_and_time_alt,
     add_reminder_content_and_week_delta_and_time,
     add_reminder_content_and_week_delta_and_time_alt,
     add_reminder_content_and_weekday_delta_and_time,
     add_reminder_content_and_weekday_delta_and_time_alt,
     add_reminder_content_and_week_delta_and_time_and_location,
     add_reminder_content_and_week_delta_and_time_and_location_alt,
     modify_reminder_with_recency_latest,
     modify_reminder_with_recency_latest_alt,
     remove_reminder_with_recency_latest,
     remove_reminder_with_recency_latest_alt}
=============================================================================
