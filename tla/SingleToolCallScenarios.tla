----------------------- MODULE SingleToolCallScenarios ----------------------
(***************************************************************************)
(* tool_sandbox/scenarios/single_tool_call_scenarios.py.                   *)
(* The scenarios that one call of one tool completes.                      *)
(***************************************************************************)
EXTENDS ScenarioLanguage

cellular_off ==
    Scenario(base, {"set_cellular_service_status"},
        <<Switched("cellular", FALSE),
          Answered>>)

get_cellular ==
    Scenario(base, {"get_cellular_service_status"},
        <<Traced("get_cellular_service_status"),
          Answered>>)

wifi_off ==
    Scenario(base, {"set_wifi_status"},
        <<Switched("wifi", FALSE),
          Answered>>)

get_wifi ==
    Scenario(base, {"get_wifi_status"},
        <<Traced("get_wifi_status"),
          Answered>>)

search_phone_number_with_name ==
    Scenario(base, {"search_contacts"},
        <<TracedWith("search_contacts", {"name"}),
          AnsweredWith>>)

search_name_with_relationship ==
    Scenario(base, {"search_contacts"},
        <<TracedWith("search_contacts", {"relationship"}),
          Answered>>)

search_relationship_with_phone_number ==
    Scenario(base, {"search_contacts"},
        <<TracedWith("search_contacts", {"phone_number"}),
          Answered>>)

add_contact_with_name_and_phone_number ==
    Scenario(base, {"add_contact"},
        <<Added("CONTACT", {<<"Stephen Sondheim", "new">>}, -1),
          Answered>>)

remove_contact_with_id ==
    Scenario(base, {"remove_contact"},
        <<Removed("CONTACT", {<<"Fredrik Thordendal", "friend">>}, -1),
          Answered>>)

update_contact_with_id_and_phone_number ==
    Scenario(base, {"modify_contact"},
        <<Updated("CONTACT",
              {<<"Fredrik Thordendal", "new phone number">>}, -1),
          Answered>>)

search_sender_phone_number_with_content ==
    Scenario(base, {"search_messages"},
        <<Traced("search_messages"),
          Answered>>)

send_message_with_phone_number_and_content ==
    Scenario(base, {"send_message_with_phone_number"},
        <<Added("MESSAGING", {<<"new message", "sent">>}, -1),
          Answered>>)

find_thanksgiving_timestamp ==
    Scenario(base, {"search_holiday"},
        <<TracedWith("search_holiday", {"holiday_name", "year is None"})>>)

find_address_with_lat_lon ==
    Scenario(base, {"search_lat_lon"},
        <<TracedWith("search_lat_lon", {"latitude", "longitude"}),
          Answered>>)

find_phone_number_with_location_name ==
    Scenario(base, {"search_location_around_lat_lon"},
        <<TracedWith("search_location_around_lat_lon",
              {"latitude is None", "location", "longitude is None"}),
          Answered>>)

find_temperature ==
    Scenario(base, {"search_weather_around_lat_lon"},
        <<TracedWith("search_weather_around_lat_lon",
              {"days", "latitude is None", "longitude is None"}),
          AnsweredFrom(0)>>)

find_stock_symbol_with_company_name ==
    Scenario(base, {"search_stock"},
        <<TracedWith("search_stock", {"query"}),
          Answered>>)

convert_currency ==
    Scenario(base, {"convert_currency"},
        <<TracedWith("convert_currency",
              {"amount", "from_currency_code", "to_currency_code"})>>)

convert_currency_canonicalize == convert_currency

\* get_extensions
single_tool_call_scenarios ==
    {cellular_off, get_cellular, wifi_off, get_wifi,
     search_phone_number_with_name, search_name_with_relationship,
     search_relationship_with_phone_number,
     add_contact_with_name_and_phone_number, remove_contact_with_id,
     update_contact_with_id_and_phone_number,
     search_sender_phone_number_with_content,
     send_message_with_phone_number_and_content, find_thanksgiving_timestamp,
     find_address_with_lat_lon, find_phone_number_with_location_name,
     find_temperature, find_stock_symbol_with_company_name, convert_currency,
     convert_currency_canonicalize}
=============================================================================
