------------------ MODULE InsufficientInformationScenarios ------------------
(***************************************************************************)
(* tool_sandbox/scenarios/insufficient_information_scenarios.py.           *)
(* The scenarios that cannot be completed: something is withheld, and the  *)
(* tools that could reveal it are denied.  A minefield is what the agent may *)
(* not do.                                                                 *)
(***************************************************************************)
EXTENDS ScenarioLanguage

find_current_city_insufficient_information ==
    MinedScenario(base,
        {"search_lat_lon"},
        {"search_location_around_lat_lon", "search_weather_around_lat_lon",
         "get_current_location"},
        Milestone({ToolCall("search_lat_lon")}))

find_current_location_insufficient_information ==
    find_current_city_insufficient_information

find_current_city_low_battery_mode_insufficient_information ==
    MinedScenario(base_low_battery,
        {"search_lat_lon", "set_low_battery_mode_status", "set_wifi_status",
         "set_location_service_status"},
        {"search_location_around_lat_lon", "search_weather_around_lat_lon",
         "get_current_location"},
        Milestone({ToolCall("search_lat_lon")}))

find_current_location_low_battery_mode_insufficient_information ==
    find_current_city_low_battery_mode_insufficient_information

find_min_temperature_weekday_insufficient_information ==
    MinedScenario(base,
        {"search_weather_around_lat_lon", "timestamp_to_datetime_info"},
        {"search_location_around_lat_lon", "search_weather_around_lat_lon",
         "get_current_location", "search_stock", "get_current_timestamp"},
        Milestone({ToolCall("search_weather_around_lat_lon")}))

find_min_temperature_weekday_insufficient_information_alt ==
    find_min_temperature_weekday_insufficient_information

find_days_till_holiday_insufficient_information ==
    MinedScenario(base,
        {"search_holiday", "timestamp_diff"},
        {"search_weather_around_lat_lon", "search_stock",
         "get_current_timestamp"},
        Milestone({ToolCall("timestamp_diff")}))

find_days_till_holiday_insufficient_information_alt ==
    find_days_till_holiday_insufficient_information

find_temperature_f_with_location_insufficient_information ==
    MinedScenario(base,
        {"search_location_around_lat_lon", "unit_conversion"},
        {"search_weather_around_lat_lon"},
        Milestone({ToolCall("unit_conversion")}))

find_temperature_f_with_location_insufficient_information_alt ==
    find_temperature_f_with_location_insufficient_information

modify_contact_with_message_recency_insufficient_information ==
    MinedScenario(base,
        {"get_current_timestamp", "modify_contact", "search_contacts"},
        {"search_messages"},
        Milestone({ToolCall("modify_contact")}))

modify_contact_with_message_recency_insufficient_information_alt ==
    modify_contact_with_message_recency_insufficient_information

remove_contact_by_phone_no_remove_contact_insufficient_information ==
    [Scenario(base, {"search_contacts"},
        <<Answered>>) EXCEPT
        !.tool_deny_list = {"remove_contact"}]

remove_contact_by_phone_no_remove_contact_insufficient_information_alt ==
    remove_contact_by_phone_no_remove_contact_insufficient_information

remove_contact_by_phone_no_search_contacts_insufficient_information ==
    MinedScenario(base,
        {"remove_contact"},
        {"search_contacts", "search_messages"},
        Milestone({ToolCall("remove_contact")}))

remove_contact_by_phone_no_search_contacts_insufficient_information_alt ==
    remove_contact_by_phone_no_search_contacts_insufficient_information

send_message_with_contact_content_cellular_off_insufficient_information ==
    MinedScenario(base_cellular_off,
        {"send_message_with_phone_number", "set_cellular_service_status",
         "get_cellular_service_status"},
        {"search_contacts"},
        Milestone({ToolCall("send_message_with_phone_number")}))

send_message_with_contact_content_cellular_off_insufficient_information_alt ==
    send_message_with_contact_content_cellular_off_insufficient_information

find_distance_with_location_name_insufficient_information ==
    MinedScenario(base,
        {"search_location_around_lat_lon", "calculate_lat_lon_distance"},
        {"search_location_around_lat_lon", "search_weather_around_lat_lon",
         "get_current_location"},
        Milestone({ToolCall("calculate_lat_lon_distance")}))

find_distance_with_location_name_insufficient_information_alt ==
    find_distance_with_location_name_insufficient_information

search_reminder_with_recency_upcoming_insufficient_information ==
    MinedScenario(base,
        {"search_reminder", "shift_timestamp", "timestamp_to_datetime_info"},
        {"get_current_timestamp", "add_reminder", "modify_reminder",
         "send_message_with_phone_number", "search_location_around_lat_lon",
         "search_weather_around_lat_lon", "search_stock"},
        TracedWith("search_reminder", {"reminder_timestamp"}))

search_reminder_with_recency_upcoming_insufficient_information_implicit ==
    search_reminder_with_recency_upcoming_insufficient_information

search_reminder_with_recency_yesterday_insufficient_information ==
    search_reminder_with_recency_upcoming_insufficient_information

search_reminder_with_recency_yesterday_insufficient_information_implicit ==
    search_reminder_with_recency_upcoming_insufficient_information

search_reminder_with_creation_recency_yesterday_insufficient_information ==
    MinedScenario(base,
        {"search_reminder", "shift_timestamp", "timestamp_to_datetime_info"},
        {"get_current_timestamp", "add_reminder", "modify_reminder",
         "send_message_with_phone_number", "search_location_around_lat_lon",
         "search_weather_around_lat_lon", "search_stock"},
        TracedWith("search_reminder", {"creation_timestamp"}))

search_reminder_with_creation_recency_yesterday_insufficient_information_implicit ==
    search_reminder_with_creation_recency_yesterday_insufficient_information

modify_reminder_with_recency_latest_insufficient_information ==
    MinedScenario(base,
        {"search_reminder", "modify_reminder", "timestamp_to_datetime_info",
         "datetime_info_to_timestamp"},
        {"get_current_timestamp", "add_reminder",
         "send_message_with_phone_number", "search_location_around_lat_lon",
         "search_weather_around_lat_lon", "search_stock"},
        Traced("modify_reminder"))

remove_reminder_with_recency_latest_insufficient_information ==
    MinedScenario(base,
        {"search_reminder", "remove_reminder", "timestamp_to_datetime_info",
         "datetime_info_to_timestamp"},
        {"get_current_timestamp", "add_reminder",
         "send_message_with_phone_number", "search_location_around_lat_lon",
         "search_weather_around_lat_lon", "search_stock"},
        Traced("remove_reminder"))

\* get_extensions
insufficient_information_scenarios ==
    {find_current_city_insufficient_information,
     find_current_location_insufficient_information,
     find_current_city_low_battery_mode_insufficient_information,
     find_current_location_low_battery_mode_insufficient_information,
     find_min_temperature_weekday_insufficient_information,
     find_min_temperature_weekday_insufficient_information_alt,
     find_days_till_holiday_insufficient_information,
     find_days_till_holiday_insufficient_information_alt,
     find_temperature_f_with_location_insufficient_information,
     find_temperature_f_with_location_insufficient_information_alt,
     modify_contact_with_message_recency_insufficient_information,
     modify_contact_with_message_recency_insufficient_information_alt,
     remove_contact_by_phone_no_remove_contact_insufficient_information,
     remove_contact_by_phone_no_remove_contact_insufficient_information_alt,
     remove_contact_by_phone_no_search_contacts_insufficient_information,
     remove_contact_by_phone_no_search_contacts_insufficient_information_alt,
     send_message_with_contact_content_cellular_off_insufficient_information,
     send_message_with_contact_content_cellular_off_insufficient_information_alt,
     find_distance_with_location_name_insufficient_information,
     find_distance_with_location_name_insufficient_information_alt,
     search_reminder_with_recency_upcoming_insufficient_information,
     search_reminder_with_recency_upcoming_insufficient_information_implicit,
     search_reminder_with_recency_yesterday_insufficient_information,
     search_reminder_with_recency_yesterday_insufficient_information_implicit,
     search_reminder_with_creation_recency_yesterday_insufficient_information,
     search_reminder_with_creation_recency_yesterday_insufficient_information_implicit,
     modify_reminder_with_recency_latest_insufficient_information,
     remove_reminder_with_recency_latest_insufficient_information}
=============================================================================
